------------------------- MODULE TaskLauncherProofs -------------------------
(* Proofs about TaskLauncher, for any instances, versions, scenarios and   *)
(* deadlines.                                                              *)
EXTENDS TaskLauncher, TLAPS

(* What is on its way about the delay of a version: the last update says   *)
(* what the rate limiter has now.                                          *)
Mentions(sent, r) == \E k \in DOMAIN sent : sent[k].ref = r

LastSays(sent, r, d) ==
    \E k \in DOMAIN sent :
        /\ sent[k].ref = r /\ sent[k].delay = d
        /\ \A j \in DOMAIN sent : j > k => sent[j].ref /= r

HeardOK ==
    \A r \in Refs :
        \/ LastSays(delayUpdates, r, delayOf(taskLaunchDelays, r))
        \/ /\ ~ Mentions(delayUpdates, r)
           /\ launchAllowedAt[r] \in {None, delayOf(taskLaunchDelays, r)} \/ r \in unheard

(* The launcher has asked for every delay it needs to know.                *)
isLoading == query.kind = "loading"

LoadingOK ==
    isLoading => /\ ~ registeredAsMatcher
                 /\ launchAllowedAt = [r \in Refs |-> None]

KnownOK ==
    isLoading \/ \A r \in scheduledVersions(instanceMap) :
        launchAllowedAt[r] /= None \/ r \in getDelay \/ Mentions(delayUpdates, r)

(* The launcher is registered when it may launch something, or something   *)
(* will make it look at this again.                                        *)
UsefulOK == registeredAsMatcher => shouldLaunchInstances(instanceMap, launchAllowedAt)

RegisteredOK ==
    \A r \in scheduledVersions(instanceMap) :
        launchAllowedAt[r] = 0 =>
            \/ registeredAsMatcher
            \/ [kind |-> "RecheckIfBackOffUntilReached"] \in mailbox
            \/ taskLaunchDelays[r] /= None \/ Mentions(delayUpdates, r)
            \/ r \in unheard

(* At most one message is awaited, by the change it is about.              *)
QueryOK ==
    \/ query = NoQuery
    \/ isLoading /\ query.of = Instances
    \/ query.kind = "syncing" /\ \E i \in Instances : query.of = {i}

ChangeOK(c, messages) ==
    /\ \A k \in DOMAIN messages : messages[k].awaited =>
          c.phase = "sent" /\ c.instance = messages[k].instance
    /\ \A j, k \in DOMAIN messages : messages[j].awaited /\ messages[k].awaited => j = k
    /\ c.phase = "sent" => \E k \in DOMAIN messages : messages[k].awaited

(* Of an instance that has been deleted and is there again the launcher    *)
(* will hear later.                                                        *)
DeletedOK(c, messages, instances) ==
    /\ c /= NoChange /\ c.kind = "InstanceDeleted" => instances[c.instance] = None
    /\ \A k \in DOMAIN messages :
          messages[k].kind = "InstanceDeleted" =>
              \/ instances[messages[k].instance] = None
              \/ \E j \in DOMAIN messages : j > k /\ messages[j].instance = messages[k].instance
              \/ c /= NoChange /\ c.phase /= "sent" /\ c.instance = messages[k].instance

(* As ViewFollowsTracker, but the operation has not been saved yet: when   *)
(* it is, or is rejected, the launcher will look at the instance.          *)
Follows(i) ==
    \/ LooksAgain(i)
    \/ instanceMap[i] = tracker[i]
    \/ /\ is(instanceMap[i], "provisioned")
       /\ \E op \in ops : op.phase = "matched" /\ op.instance = i

FollowsOK == \A i \in Instances : Follows(i)

DelayInv == HeardOK /\ LoadingOK /\ KnownOK /\ UsefulOK /\ RegisteredOK
SyncInv == QueryOK /\ ChangeOK(change, instanceChanges) /\ DeletedOK(change, instanceChanges, tracker)
ViewInv == TypeOK /\ SyncInv /\ FollowsOK

-----------------------------------------------------------------------------
(* Values, sequences and messages.                                         *)

LEMMA Values ==
    ASSUME NEW value \in Value
    PROVE  /\ value /= None => value.cond \in Conditions /\ value.ref \in Refs
           /\ \A c : is(value, c) => value /= None /\ value.cond = c
           /\ \A c \in Conditions : value /= None =>
                 /\ [value EXCEPT !.cond = c] \in Value
                 /\ [value EXCEPT !.cond = c].cond = c
                 /\ [value EXCEPT !.cond = c].ref = value.ref
  BY DEF Value, Conditions, is

LEMMA NewValues ==
    ASSUME TaskLauncherAssumption, NEW c \in Conditions, NEW r \in Refs
    PROVE  LET value == [cond |-> c, ref |-> r] IN value \in Value /\ value /= None
  BY DEF TaskLauncherAssumption, Value

LEMMA VersionsType ==
    ASSUME NEW map \in [Instances -> Value]
    PROVE  /\ scheduledVersions(map) \subseteq Refs
           /\ \A i \in Instances : isScheduled(map[i]) => map[i].ref \in scheduledVersions(map)
           /\ \A r \in scheduledVersions(map) : \E i \in Instances : isScheduled(map[i]) /\ map[i].ref = r
  BY Values DEF scheduledVersions, isScheduled

LEMMA Elements ==
    ASSUME NEW S, NEW s \in Seq(S), NEW k \in DOMAIN s
    PROVE  s[k] \in S
  OBVIOUS

LEMMA Appended ==
    ASSUME NEW S, NEW s \in Seq(S), NEW x \in S
    PROVE  LET t == Append(s, x)
           IN  /\ t \in Seq(S) /\ Len(s) \in Nat /\ DOMAIN s = 1..Len(s)
               /\ DOMAIN t = DOMAIN s \cup {Len(s) + 1}
               /\ Len(s) + 1 \notin DOMAIN s /\ t[Len(s) + 1] = x
               /\ \A k \in DOMAIN s : t[k] = s[k] /\ Len(s) + 1 > k
  OBVIOUS

LEMMA Removed ==
    ASSUME NEW S, NEW s \in Seq(S), s /= <<>>
    PROVE  LET t == Tail(s)
           IN  /\ t \in Seq(S)
               /\ Head(s) \in S /\ Head(s) = s[1] /\ 1 \in DOMAIN s
               /\ \A k \in DOMAIN t : k \in Nat \ {0} /\ k + 1 \in DOMAIN s /\ t[k] = s[k + 1]
               /\ \A k \in DOMAIN s \ {1} : k \in Nat /\ k > 1 /\ k - 1 \in DOMAIN t /\ t[k - 1] = s[k]
  OBVIOUS

(* A sequence whose elements change in place.                              *)
LEMMA Mapped ==
    ASSUME NEW S, NEW s \in Seq(S), NEW t, DOMAIN t = DOMAIN s, t = [k \in DOMAIN s |-> t[k]],
           \A k \in DOMAIN s : t[k] \in S
    PROVE  t \in Seq(S)
  OBVIOUS

(* An element put in behind the first n.                                   *)
InsertedAt(s, t, x, n) ==
    /\ n + 1 \in DOMAIN t /\ t[n + 1] = x
    /\ \A k \in DOMAIN s : k \in Nat /\ IF k <= n THEN k \in DOMAIN t /\ t[k] = s[k]
                                        ELSE k + 1 \in DOMAIN t /\ t[k + 1] = s[k]
    /\ \A k \in DOMAIN t : /\ k \in Nat
                           /\ \/ k <= n /\ k \in DOMAIN s /\ t[k] = s[k]
                              \/ k = n + 1
                              \/ k > n + 1 /\ k - 1 \in DOMAIN s /\ t[k] = s[k - 1]

LEMMA Inserted ==
    ASSUME NEW S, NEW s \in Seq(S), NEW x \in S, NEW n \in 0..Len(s)
    PROVE  LET t == SubSeq(s, 1, n) \o <<x>> \o SubSeq(s, n + 1, Len(s))
           IN  t \in Seq(S) /\ InsertedAt(s, t, x, n)
  <1> DEFINE a == SubSeq(s, 1, n)
             b == SubSeq(s, n + 1, Len(s))
  <1>1. /\ a \in Seq(S) /\ Len(a) = n /\ \A k \in 1..n : a[k] = s[k]
    OBVIOUS
  <1>2. /\ b \in Seq(S) /\ Len(b) = Len(s) - n /\ \A k \in 1..Len(s) - n : b[k] = s[n + k]
    OBVIOUS
  <1> HIDE DEF a, b
  <1> DEFINE c == a \o <<x>>
  <1>3. /\ c \in Seq(S) /\ Len(c) = n + 1 /\ c[n + 1] = x /\ \A k \in 1..n : c[k] = s[k]
    BY <1>1
  <1> HIDE DEF c
  <1> DEFINE t == c \o b
  <1>4. /\ t \in Seq(S) /\ Len(t) = Len(s) + 1
        /\ \A k \in 1..Len(s) + 1 : t[k] = IF k <= n + 1 THEN c[k] ELSE b[k - (n + 1)]
    BY <1>2, <1>3
  <1> HIDE DEF t
  <1>5. \A k \in 1..Len(s) + 1 : k > n + 1 => b[k - (n + 1)] = s[k - 1]
    BY <1>2
  <1>6. Len(s) \in Nat /\ n \in Nat /\ n <= Len(s) /\ DOMAIN s = 1..Len(s) /\ DOMAIN t = 1..Len(s) + 1
    BY <1>4
  <1>7. n + 1 \in DOMAIN t /\ t[n + 1] = x
    BY <1>3, <1>4, <1>6
  <1>8. \A k \in 1..n : t[k] = s[k]
    BY <1>3, <1>4, <1>6
  <1>9. \A k \in 1..Len(s) + 1 : k > n + 1 => t[k] = s[k - 1]
    BY <1>4, <1>5, <1>6
  <1>10. \A k \in DOMAIN s : k \in Nat /\ IF k <= n THEN k \in DOMAIN t /\ t[k] = s[k]
                                                 ELSE k + 1 \in DOMAIN t /\ t[k + 1] = s[k]
    BY <1>6, <1>8, <1>9
  <1>11. \A k \in DOMAIN t : /\ k \in Nat
                             /\ \/ k <= n /\ k \in DOMAIN s /\ t[k] = s[k]
                                \/ k = n + 1
                                \/ k > n + 1 /\ k - 1 \in DOMAIN s /\ t[k] = s[k - 1]
    BY <1>6, <1>8, <1>9
  <1>12. t \in Seq(S) /\ InsertedAt(s, t, x, n)
    BY <1>4, <1>7, <1>10, <1>11 DEF InsertedAt
  <1> QED BY <1>12 DEF a, b, c, t

LEMMA Queries ==
    ASSUME TypeOK
    PROVE  /\ query.kind \in {"none", "loading", "syncing"}
           /\ active <=> query.kind = "none"
           /\ ~ active => query.of \in SUBSET Instances /\ query.failed \in BOOLEAN
           /\ \A kind \in {"loading", "syncing"}, S \in SUBSET Instances :
                 /\ ask(kind, S) \in [kind : {"loading", "syncing"}, of : SUBSET Instances, failed : BOOLEAN]
                 /\ ask(kind, S) /= NoQuery /\ ask(kind, S).kind = kind /\ ask(kind, S).of = S
  BY DEF TypeOK, NoQuery, active, ask

LEMMA Changes ==
    ASSUME TypeOK
    PROVE  /\ change.phase \in {"none", "rate", "queue", "sent"}
           /\ change = NoChange <=> change.phase = "none"
           /\ change /= NoChange => /\ change.instance \in Instances /\ change.ref \in Refs
                                    /\ change.kind \in {"InstanceUpdated", "InstanceDeleted"}
  BY DEF TypeOK, NoChange

LEMMA delayOfType ==
    ASSUME TypeOK, TaskLauncherAssumption, NEW r \in Refs
    PROVE  /\ 0 \in Deadline
           /\ delayOf(taskLaunchDelays, r) \in Deadline
           /\ \A b \in BOOLEAN : update(r, taskLaunchDelays, b) \in [ref : Refs, delay : Deadline, reply : BOOLEAN]
  BY DEF TypeOK, TaskLauncherAssumption, Deadline, delayOf, update

(* What the handlers share.                                                *)

LEMMA manageType ==
    ASSUME manageOfferMatcherStatus
    PROVE  registeredAsMatcher' \in BOOLEAN
  BY DEF manageOfferMatcherStatus, shouldLaunchInstances

LEMMA updatesType ==
    ASSUME TypeOK, NEW i \in Instances, NEW value \in Value,
           NEW delay \in {"none", "add", "advance"},
           value = None => tracker[i] /= None,
           updates(i, value, delay)
    PROVE  /\ tracker' \in [Instances -> Value]
           /\ change' \in [instance : Instances, ref : Refs, kind : {"InstanceUpdated", "InstanceDeleted"},
                           delay : {"none", "add", "advance"}, phase : {"rate", "queue", "sent"}]
  <1>1. (IF value = None THEN tracker[i].ref ELSE value.ref) \in Refs
    BY Values DEF TypeOK
  <1>2. tracker' \in [Instances -> Value]
    BY DEF TypeOK, updates
  <1> QED BY <1>1, <1>2 DEF updates

LEMMA notifyType ==
    ASSUME TypeOK, TaskLauncherAssumption, NEW r \in Refs,
           taskLaunchDelays' \in [Refs -> Deadline \cup {None}], notify(r)
    PROVE  delayUpdates' \in Seq([ref : Refs, delay : Deadline, reply : BOOLEAN])
  <1> update(r, taskLaunchDelays', FALSE) \in [ref : Refs, delay : Deadline, reply : BOOLEAN]
    BY DEF TypeOK, TaskLauncherAssumption, Deadline, delayOf, update
  <1> QED BY Appended DEF TypeOK, notify

LEMMA Rejections ==
    \A i \in Instances, kind \in {"Rejected", "RejectedTimeout", "Accepted"} :
        [kind |-> kind, instance |-> i] \in Message
  BY DEF Message

LEMMA Messages ==
    ASSUME NEW m \in Message
    PROVE  m.kind \in {"Rejected", "RejectedTimeout", "Accepted"} => m.instance \in Instances
  BY DEF Message

-----------------------------------------------------------------------------
(* Types.                                                                  *)

LEMMA InitType ==
    ASSUME TaskLauncherAssumption, Init
    PROVE  TypeOK
  <1>1. tracker \in [Instances -> Value] /\ offers \in Nat /\ events \in Nat
    BY DEF Init, TaskLauncherAssumption
  <1>2. ask("loading", Instances) \in [kind : {"loading", "syncing"}, of : SUBSET Instances, failed : BOOLEAN]
    BY DEF ask
  <1>3. instanceMap \in [Instances -> Value] /\ running \subseteq Instances
    BY DEF Init, Value
  <1>4. /\ change = NoChange
        /\ recheckBackOff = {} /\ unheard = {} /\ mailbox = {} /\ getDelay = {} /\ ops = {}
        /\ registeredAsMatcher \in BOOLEAN
        /\ query \in [kind : {"loading", "syncing"}, of : SUBSET Instances, failed : BOOLEAN]
    BY <1>2 DEF Init
  <1>6. /\ instanceChanges \in Seq(InstanceChange)
        /\ delayUpdates \in Seq([ref : Refs, delay : Deadline, reply : BOOLEAN])
    BY DEF Init
  <1>5. /\ launchAllowedAt \in [Refs -> Deadline \cup {None}]
        /\ taskLaunchDelays \in [Refs -> Deadline \cup {None}]
        /\ offerOperationAcceptTimeout \in [Instances -> {None, "runs", "fired"}]
    BY DEF Init
  <1> QED BY <1>1, <1>3, <1>4, <1>5, <1>6 DEF TypeOK

LEMMA LoadedType ==
    ASSUME TaskLauncherAssumption, TypeOK, ReceiveLoadedInstances
    PROVE  TypeOK'
  BY VersionsType DEF ReceiveLoadedInstances, TypeOK, heard, outside, inbox, counters

LEMMA removeType ==
    ASSUME TypeOK, NEW i \in Instances, removeInstanceFromInternalState(i)
    PROVE  /\ instanceMap' \in [Instances -> Value]
           /\ offerOperationAcceptTimeout' \in [Instances -> {None, "runs", "fired"}]
           /\ launchAllowedAt' \in [Refs -> Deadline \cup {None}]
           /\ unheard' \subseteq Refs
           /\ registeredAsMatcher' \in BOOLEAN
  BY manageType DEF removeInstanceFromInternalState, TypeOK, Value

LEMMA SynchronizedType ==
    ASSUME TaskLauncherAssumption, TypeOK, ReceiveSynchronizedInstance
    PROVE  TypeOK'
  <1>1. PICK i \in query.of :
          \/ /\ tracker[i] = None
             /\ removeInstanceFromInternalState(i)
             /\ UNCHANGED getDelay
          \/ /\ tracker[i] /= None
             /\ instanceMap' = [instanceMap EXCEPT ![i] = tracker[i]]
             /\ offerOperationAcceptTimeout' =
                   [offerOperationAcceptTimeout EXCEPT
                       ![i] = IF is(tracker[i], "provisioned") THEN @ ELSE None]
             /\ getDelay' = getDelay \cup
                   {r \in {tracker[i].ref} : launchAllowedAt[r] = None}
             /\ UNCHANGED heard
             /\ manageOfferMatcherStatus
    BY DEF ReceiveSynchronizedInstance
  <1>2. i \in Instances /\ tracker[i] \in Value
    BY Queries DEF ReceiveSynchronizedInstance, TypeOK, active
  <1>3. tracker[i] /= None => tracker[i].ref \in Refs
    BY <1>2, Values
  <1>4. /\ instanceMap' \in [Instances -> Value]
        /\ offerOperationAcceptTimeout' \in [Instances -> {None, "runs", "fired"}]
        /\ launchAllowedAt' \in [Refs -> Deadline \cup {None}]
        /\ unheard' \subseteq Refs
        /\ registeredAsMatcher' \in BOOLEAN
        /\ getDelay' \subseteq Refs
    <2>1. CASE tracker[i] = None
      BY <1>1, <1>2, <2>1, removeType DEF TypeOK
    <2>2. CASE tracker[i] /= None
      <3>1. /\ instanceMap' \in [Instances -> Value]
            /\ offerOperationAcceptTimeout' \in [Instances -> {None, "runs", "fired"}]
        BY <1>1, <1>2, <2>2 DEF TypeOK
      <3>2. UNCHANGED <<launchAllowedAt, unheard>> /\ registeredAsMatcher' \in BOOLEAN
        BY <1>1, <2>2, manageType DEF heard
      <3>3. getDelay' \subseteq Refs
        BY <1>1, <1>3, <2>2 DEF TypeOK
      <3> QED BY <3>1, <3>2, <3>3 DEF TypeOK
    <2> QED BY <2>1, <2>2
  <1> QED BY <1>4 DEF ReceiveSynchronizedInstance, TypeOK, outside, inbox, counters

LEMMA DelayUpdateType ==
    ASSUME TaskLauncherAssumption, TypeOK, ReceiveDelayUpdate
    PROVE  TypeOK'
  <1> DEFINE m == Head(delayUpdates)
  <1>1. /\ m \in [ref : Refs, delay : Deadline, reply : BOOLEAN]
        /\ delayUpdates' \in Seq([ref : Refs, delay : Deadline, reply : BOOLEAN])
    BY Removed DEF ReceiveDelayUpdate, TypeOK
  <1>2. m.ref \in Refs /\ m.delay \in Deadline
    BY <1>1
  <1>3. \/ /\ launchAllowedAt' = [launchAllowedAt EXCEPT ![m.ref] = m.delay]
           /\ unheard' = unheard \ {m.ref}
           /\ manageOfferMatcherStatus
           /\ scheduleNextManageOfferStatus
        \/ /\ unheard' = unheard \cup {r \in {m.ref} : launchAllowedAt[r] /= None}
           /\ UNCHANGED <<launchAllowedAt, instanceMap, registeredAsMatcher, recheckBackOff>>
    BY DEF ReceiveDelayUpdate
  <1> HIDE DEF m
  <1>4. launchAllowedAt' \in [Refs -> Deadline \cup {None}] /\ unheard' \subseteq Refs
    BY <1>2, <1>3 DEF TypeOK
  <1>5. registeredAsMatcher' \in BOOLEAN /\ recheckBackOff' \subseteq Deadline \ {0}
    BY <1>3, <1>4, manageType DEF TypeOK, scheduleNextManageOfferStatus
  <1>6. instanceMap' = instanceMap
    BY DEF ReceiveDelayUpdate
  <1> QED BY <1>1, <1>4, <1>5, <1>6 DEF ReceiveDelayUpdate, TypeOK, outside, inbox, counters

LEMMA MailboxType ==
    ASSUME TaskLauncherAssumption, TypeOK, NEW m \in mailbox,
           \/ ReceiveRecheck(m) \/ ReceiveRejectedTimeout(m) \/ ReceiveRejected(m) \/ ReceiveAccepted(m)
    PROVE  TypeOK'
  <1>1. m \in Message
    BY DEF TypeOK
  <1>2. CASE ReceiveRecheck(m)
    BY <1>2, manageType DEF ReceiveRecheck, Receives, TypeOK, heard, limiter, outside, counters
  <1>3. CASE ReceiveRejectedTimeout(m)
    <2>1. m.instance \in Instances
      BY <1>1, <1>3, Messages DEF ReceiveRejectedTimeout
    <2>2. query' = query \/ query' \in [kind : {"loading", "syncing"}, of : SUBSET Instances, failed : BOOLEAN]
      BY <1>3, <2>1, Queries DEF ReceiveRejectedTimeout, syncInstance
    <2> QED BY <1>3, <2>2 DEF ReceiveRejectedTimeout, Receives, TypeOK, heard, limiter, outside, counters
  <1>4. CASE ReceiveRejected(m)
    <2>1. m.instance \in Instances
      BY <1>1, <1>4, Messages DEF ReceiveRejected
    <2>2. query' \in [kind : {"loading", "syncing"}, of : SUBSET Instances, failed : BOOLEAN]
      BY <1>4, <2>1, Queries DEF ReceiveRejected, syncInstance
    <2> QED BY <1>4, <2>2 DEF ReceiveRejected, Receives, TypeOK, heard, limiter, outside, counters
  <1>5. CASE ReceiveAccepted(m)
    <2>1. m.instance \in Instances
      BY <1>1, <1>5, Messages DEF ReceiveAccepted
    <2>2. offerOperationAcceptTimeout' \in [Instances -> {None, "runs", "fired"}]
      BY <1>5, <2>1 DEF ReceiveAccepted, TypeOK
    <2> QED BY <1>5, <2>2 DEF ReceiveAccepted, Receives, TypeOK, heard, limiter, outside, counters
  <1> QED BY <1>2, <1>3, <1>4, <1>5

LEMMA ChangeReceivedType ==
    ASSUME TaskLauncherAssumption, TypeOK, NEW k \in DOMAIN instanceChanges,
           ReceiveInstanceUpdated(instanceChanges[k]) \/ ReceiveInstanceDeleted(instanceChanges[k])
    PROVE  TypeOK'
  <1> DEFINE m == instanceChanges[k]
  <1>1. m \in InstanceChange
    BY DEF TypeOK
  <1>2. m.instance \in Instances
    BY <1>1 DEF InstanceChange
  <1>3. ReceivesChange(m)
    BY DEF ReceiveInstanceUpdated, ReceiveInstanceDeleted
  <1>4. instanceChanges' \in Seq(InstanceChange)
    BY <1>3, Removed DEF ReceivesChange, TypeOK
  <1>5. change' = NoChange \/ change' = change
    BY <1>3 DEF ReceivesChange
  <1>6. CASE ReceiveInstanceUpdated(m)
    <2>1. query' \in [kind : {"loading", "syncing"}, of : SUBSET Instances, failed : BOOLEAN]
      BY <1>2, <1>6, Queries DEF ReceiveInstanceUpdated, syncInstance
    <2> QED BY <1>4, <1>5, <1>6, <2>1 DEF ReceiveInstanceUpdated, TypeOK, heard, limiter, counters
  <1>7. CASE ReceiveInstanceDeleted(m)
    <2>1. removeInstanceFromInternalState(m.instance)
      BY <1>7 DEF ReceiveInstanceDeleted
    <2> QED BY <1>2, <1>4, <1>5, <1>7, <2>1, removeType DEF ReceiveInstanceDeleted, TypeOK, limiter, counters
  <1> QED BY <1>6, <1>7

LEMMA MatchType ==
    ASSUME TaskLauncherAssumption, TypeOK, NEW i \in Instances, MatchOffer(i)
    PROVE  TypeOK'
  <1>1. instanceMap[i] \in Value /\ instanceMap[i] /= None
    BY DEF MatchOffer, TypeOK, isScheduled, is
  <1>2. instanceMap[i].ref \in Refs /\ [instanceMap[i] EXCEPT !.cond = "provisioned"] \in Value
    BY <1>1, Values DEF Conditions
  <1>3. instanceMap' = [instanceMap EXCEPT ![i] = [instanceMap[i] EXCEPT !.cond = "provisioned"]]
    BY DEF MatchOffer, TypeOK
  <1>4. instanceMap' \in [Instances -> Value]
    BY <1>2, <1>3 DEF TypeOK
  <1>5. ops' \subseteq Op
    BY <1>2 DEF MatchOffer, Op, TypeOK
  <1>6. offers' \in Nat
    BY DEF MatchOffer, TypeOK
  <1>7. offerOperationAcceptTimeout' \in [Instances -> {None, "runs", "fired"}]
    BY DEF MatchOffer, TypeOK
  <1> QED BY <1>4, <1>5, <1>6, <1>7, manageType DEF MatchOffer, TypeOK, heard, limiter, outside, inbox

LEMMA ServicesType ==
    ASSUME TaskLauncherAssumption, TypeOK, Services
    PROVE  TypeOK'
  <1>1. ASSUME NEW r \in Refs, GetDelay(r) PROVE TypeOK'
    <2>1. PICK n \in 0..Len(delayUpdates) :
              delayUpdates' = SubSeq(delayUpdates, 1, n) \o <<update(r, taskLaunchDelays, TRUE)>>
                                  \o SubSeq(delayUpdates, n + 1, Len(delayUpdates))
      BY <1>1 DEF GetDelay
    <2>2. update(r, taskLaunchDelays, TRUE) \in [ref : Refs, delay : Deadline, reply : BOOLEAN]
      BY delayOfType
    <2>3. delayUpdates' \in Seq([ref : Refs, delay : Deadline, reply : BOOLEAN])
      BY <2>1, <2>2, Inserted DEF TypeOK
    <2> QED BY <1>1, <2>3 DEF GetDelay, TypeOK, view, heard, outside, inbox, counters
  <1>2. ASSUME NotifyRateLimiter PROVE TypeOK'
    <2>1. change.ref \in Refs /\ change /= NoChange
      BY <1>2, Changes DEF NotifyRateLimiter
    <2>2. taskLaunchDelays' \in [Refs -> Deadline \cup {None}]
      BY <1>2, <2>1 DEF NotifyRateLimiter, TypeOK, newDeadlines
    <2>3. delayUpdates' \in Seq([ref : Refs, delay : Deadline, reply : BOOLEAN])
      BY <1>2, <2>1, <2>2, notifyType DEF NotifyRateLimiter
    <2>4. change' \in [instance : Instances, ref : Refs, kind : {"InstanceUpdated", "InstanceDeleted"},
                       delay : {"none", "add", "advance"}, phase : {"rate", "queue", "sent"}]
      BY <1>2, <2>1 DEF NotifyRateLimiter, TypeOK
    <2> QED BY <1>2, <2>2, <2>3, <2>4 DEF NotifyRateLimiter, TypeOK, view, heard, inbox, counters
  <1>3. ASSUME NotifyLaunchQueue PROVE TypeOK'
    <2>1. change /= NoChange
      BY <1>3, Changes DEF NotifyLaunchQueue
    <2>2. change' \in [instance : Instances, ref : Refs, kind : {"InstanceUpdated", "InstanceDeleted"},
                       delay : {"none", "add", "advance"}, phase : {"rate", "queue", "sent"}]
      BY <1>3, <2>1 DEF NotifyLaunchQueue, TypeOK
    <2>3. [kind |-> change.kind, instance |-> change.instance, awaited |-> TRUE] \in InstanceChange
      BY <2>1, Changes DEF InstanceChange
    <2>4. instanceChanges' \in Seq(InstanceChange)
      BY <1>3, <2>3, Appended DEF NotifyLaunchQueue, TypeOK
    <2> QED BY <1>3, <2>2, <2>4 DEF NotifyLaunchQueue, TypeOK, view, heard, limiter, counters
  <1> QED BY <1>1, <1>2, <1>3 DEF Services

LEMMA TimeType ==
    ASSUME TaskLauncherAssumption, TypeOK, Time
    PROVE  TypeOK'
  <1>1. ASSUME NEW d \in Deadline \ {0}, DeadlinePasses(d) PROVE TypeOK'
    <2> DEFINE past(x) == IF x = d THEN 0 ELSE x
    <2>1. \A x \in Deadline : past(x) \in Deadline
      BY TaskLauncherAssumption DEF Deadline
    <2>2. \A x \in Deadline \cup {None} : past(x) \in Deadline \cup {None}
      BY TaskLauncherAssumption DEF Deadline
    <2>3. /\ taskLaunchDelays' = [r \in Refs |-> past(taskLaunchDelays[r])]
          /\ launchAllowedAt' = [r \in Refs |-> past(launchAllowedAt[r])]
          /\ delayUpdates' = [k \in DOMAIN delayUpdates |-> [delayUpdates[k] EXCEPT !.delay = past(@)]]
      BY <1>1 DEF DeadlinePasses
    <2> HIDE DEF past
    <2>4. /\ taskLaunchDelays' \in [Refs -> Deadline \cup {None}]
          /\ launchAllowedAt' \in [Refs -> Deadline \cup {None}]
      BY <2>2, <2>3 DEF TypeOK
    <2>5. ASSUME NEW k \in DOMAIN delayUpdates
          PROVE  [delayUpdates[k] EXCEPT !.delay = past(@)] \in [ref : Refs, delay : Deadline, reply : BOOLEAN]
      <3>1. delayUpdates[k] \in [ref : Refs, delay : Deadline, reply : BOOLEAN]
        BY Elements DEF TypeOK
      <3>2. past(delayUpdates[k].delay) \in Deadline
        BY <2>1, <3>1
      <3>3. [delayUpdates[k] EXCEPT !.delay = past(delayUpdates[k].delay)]
                \in [ref : Refs, delay : Deadline, reply : BOOLEAN]
        BY <3>1, <3>2
      <3> QED BY <3>3 DEF past
    <2>6. delayUpdates' \in Seq([ref : Refs, delay : Deadline, reply : BOOLEAN])
      <3> DEFINE t == [k \in DOMAIN delayUpdates |-> [delayUpdates[k] EXCEPT !.delay = past(@)]]
      <3>1. /\ DOMAIN t = DOMAIN delayUpdates
            /\ t = [k \in DOMAIN delayUpdates |-> t[k]]
            /\ \A k \in DOMAIN delayUpdates : t[k] \in [ref : Refs, delay : Deadline, reply : BOOLEAN]
        BY <2>5
      <3> HIDE DEF t
      <3>2. t \in Seq([ref : Refs, delay : Deadline, reply : BOOLEAN])
        BY <3>1, Mapped DEF TypeOK
      <3> QED BY <2>3, <3>2 DEF t
    <2>7. mailbox' \subseteq Message /\ recheckBackOff' \subseteq Deadline \ {0}
      BY <1>1 DEF DeadlinePasses, TypeOK, send, Message
    <2>8. UNCHANGED <<instanceMap, unheard, offerOperationAcceptTimeout, registeredAsMatcher, query, getDelay,
                      instanceChanges, outside, ops, counters>>
      BY <1>1 DEF DeadlinePasses
    <2> QED BY <2>4, <2>6, <2>7, <2>8 DEF TypeOK, outside, counters
  <1>2. ASSUME NEW r \in Refs, CleanupOverdueDelays(r) PROVE TypeOK'
    <2>1. taskLaunchDelays' \in [Refs -> Deadline \cup {None}]
      BY <1>2 DEF CleanupOverdueDelays, TypeOK
    <2>2. delayUpdates' \in Seq([ref : Refs, delay : Deadline, reply : BOOLEAN])
      BY <1>2, <2>1, notifyType DEF CleanupOverdueDelays
    <2> QED BY <1>2, <2>1, <2>2 DEF CleanupOverdueDelays, TypeOK, view, heard, outside, inbox, counters
  <1>3. ASSUME NEW i \in Instances, TaskOpTimeout(i) PROVE TypeOK'
    <2>1. [kind |-> "RejectedTimeout", instance |-> i] \in Message
      BY Rejections
    <2>3. mailbox' \subseteq Message
      BY <1>3, <2>1 DEF TaskOpTimeout, TypeOK, send
    <2>2. offerOperationAcceptTimeout' \in [Instances -> {None, "runs", "fired"}]
      BY <1>3 DEF TaskOpTimeout, TypeOK
    <2> QED BY <1>3, <2>3, <2>2 DEF TaskOpTimeout, TypeOK, heard, limiter, outside, counters
  <1> QED BY <1>1, <1>2, <1>3 DEF Time

LEMMA Moved ==
    ASSUME TypeOK, NEW op \in ops, NEW phase \in {"matched", "saving", "failed", "unlaunched"},
           move(op, phase)
    PROVE  ops' \subseteq Op
  BY DEF move, TypeOK, Op

LEMMA Rejected ==
    ASSUME TypeOK, NEW op \in ops, reject(op)
    PROVE  mailbox' \subseteq Message
  <1>1. op.instance \in Instances
    BY DEF TypeOK, Op
  <1>2. [kind |-> "Rejected", instance |-> op.instance] \in Message
    BY <1>1, Rejections
  <1> QED BY <1>2 DEF reject, send, TypeOK

LEMMA OfferProcessorType ==
    ASSUME TaskLauncherAssumption, TypeOK, OfferProcessor
    PROVE  TypeOK'
  <1>1. PICK op \in ops : \/ RejectOp(op) \/ SaveOp(op) \/ FailSave(op) \/ RevertOp(op)
                          \/ AcceptOp(op) \/ DriverGone(op)
    BY DEF OfferProcessor
  <1>2. op.instance \in Instances /\ op.ref \in Refs
    BY DEF TypeOK, Op
  <1>3. CASE RejectOp(op)
    BY <1>3, Rejected DEF RejectOp, TypeOK, view, heard, limiter, outside, counters
  <1>4. CASE SaveOp(op)
    <2> DEFINE value == [cond |-> "provisioned", ref |-> op.ref]
    <2>1. value \in Value /\ value /= None
      BY <1>2, NewValues DEF Conditions
    <2>2. updates(op.instance, value, "none")
      BY <1>4 DEF SaveOp
    <2> HIDE DEF value
    <2>4. /\ tracker' \in [Instances -> Value]
          /\ change' \in [instance : Instances, ref : Refs, kind : {"InstanceUpdated", "InstanceDeleted"},
                          delay : {"none", "add", "advance"}, phase : {"rate", "queue", "sent"}]
      BY <1>2, <2>1, <2>2, updatesType
    <2>5. ops' \subseteq Op
      BY <1>4, Moved DEF SaveOp
    <2> QED BY <1>4, <2>4, <2>5 DEF SaveOp, TypeOK, view, heard, limiter, inbox, counters
  <1>5. CASE FailSave(op)
    <2>1. ops' \subseteq Op /\ mailbox' \subseteq Message
      BY <1>5, Moved, Rejected DEF FailSave
    <2>2. events' \in Nat
      BY <1>5 DEF FailSave, anEvent, TypeOK
    <2> QED BY <1>5, <2>1, <2>2 DEF FailSave, TypeOK, view, heard, limiter, outside
  <1>6. CASE RevertOp(op)
    <2> DEFINE value == [cond |-> "scheduled", ref |-> op.ref]
    <2>1. value \in Value /\ value /= None
      BY <1>2, NewValues DEF Conditions
    <2>2. updates(op.instance, value, "none")
      BY <1>6 DEF RevertOp
    <2> HIDE DEF value
    <2>3. /\ tracker' \in [Instances -> Value]
          /\ change' \in [instance : Instances, ref : Refs, kind : {"InstanceUpdated", "InstanceDeleted"},
                          delay : {"none", "add", "advance"}, phase : {"rate", "queue", "sent"}]
      BY <1>2, <2>1, <2>2, updatesType
    <2>4. ops' \subseteq Op
      BY <1>6, Moved DEF RevertOp, TypeOK
    <2> QED BY <1>6, <2>3, <2>4 DEF RevertOp, TypeOK, view, heard, limiter, inbox, counters
  <1>7. CASE AcceptOp(op)
    <2>1. [kind |-> "Accepted", instance |-> op.instance] \in Message
      BY <1>2, Rejections
    <2> QED BY <1>2, <1>7, <2>1 DEF AcceptOp, TypeOK, send, view, heard, limiter, counters
  <1>8. CASE DriverGone(op)
    <2>1. ops' \subseteq Op /\ mailbox' \subseteq Message
      BY <1>8, Moved, Rejected DEF DriverGone
    <2>2. events' \in Nat
      BY <1>8 DEF DriverGone, anEvent, TypeOK
    <2> QED BY <1>8, <2>1, <2>2 DEF DriverGone, TypeOK, view, heard, limiter, outside
  <1> QED BY <1>1, <1>3, <1>4, <1>5, <1>6, <1>7, <1>8

LEMMA EnvironmentType ==
    ASSUME TaskLauncherAssumption, TypeOK, Environment
    PROVE  TypeOK'
  <1> DEFINE ChangeType == [instance : Instances, ref : Refs, kind : {"InstanceUpdated", "InstanceDeleted"},
                            delay : {"none", "add", "advance"}, phase : {"rate", "queue", "sent"}]
  <1>1. ASSUME fromOutside, tracker' \in [Instances -> Value], change' \in ChangeType, running' \subseteq Instances
        PROVE  TypeOK'
    BY <1>1 DEF fromOutside, anEvent, TypeOK, view, heard, limiter, inbox
  <1>2. ASSUME NEW i \in Instances, TaskRuns(i) PROVE TypeOK'
    <2> DEFINE value == [tracker[i] EXCEPT !.cond = "launched"]
    <2>1. tracker[i] \in Value /\ tracker[i] /= None
      BY <1>2 DEF TaskRuns, TypeOK, is
    <2>2. value \in Value /\ updates(i, value, "advance")
      BY <1>2, <2>1, Values DEF TaskRuns, Conditions
    <2> HIDE DEF value
    <2>3. tracker' \in [Instances -> Value] /\ change' \in ChangeType
      BY <2>1, <2>2, updatesType
    <2> QED BY <1>1, <1>2, <2>3 DEF TaskRuns, TypeOK
  <1>3. ASSUME NEW i \in Instances, TaskFails(i) PROVE TypeOK'
    <2> DEFINE value == [tracker[i] EXCEPT !.cond = "scheduled"]
    <2>1. tracker[i] \in Value /\ tracker[i] /= None
      BY <1>3 DEF TaskFails, TypeOK, is
    <2>2. value \in Value /\ updates(i, value, "add")
      BY <1>3, <2>1, Values DEF TaskFails, Conditions
    <2> HIDE DEF value
    <2>3. tracker' \in [Instances -> Value] /\ change' \in ChangeType
      BY <2>1, <2>2, updatesType
    <2> QED BY <1>1, <1>3, <2>3 DEF TaskFails, TypeOK
  <1>4. ASSUME NEW i \in Instances, Expunge(i) PROVE TypeOK'
    <2>1. tracker[i] /= None /\ None \in Value
      BY <1>4 DEF Expunge, isScheduled, is, Value
    <2>2. tracker' \in [Instances -> Value] /\ change' \in ChangeType
      BY <1>4, <2>1, updatesType DEF Expunge
    <2> QED BY <1>1, <1>4, <2>2 DEF Expunge, TypeOK
  <1>5. ASSUME NEW i \in Instances, NEW r \in Refs, Schedule(i, r) PROVE TypeOK'
    <2> DEFINE value == [cond |-> "scheduled", ref |-> r]
    <2>1. value \in Value /\ value /= None
      BY NewValues DEF Conditions
    <2>2. updates(i, value, "none")
      BY <1>5 DEF Schedule
    <2> HIDE DEF value
    <2>3. tracker' \in [Instances -> Value] /\ change' \in ChangeType
      BY <2>1, <2>2, updatesType
    <2> QED BY <1>1, <1>5, <2>3 DEF Schedule, TypeOK
  <1>6. ASSUME NEW r \in Refs, ResetDelay(r) PROVE TypeOK'
    <2>1. taskLaunchDelays' \in [Refs -> Deadline \cup {None}]
      BY <1>6 DEF ResetDelay, TypeOK
    <2>2. delayUpdates' \in Seq([ref : Refs, delay : Deadline, reply : BOOLEAN])
      BY <1>6, <2>1, notifyType DEF ResetDelay
    <2> QED BY <1>6, <2>1, <2>2 DEF ResetDelay, anEvent, TypeOK, view, heard, outside, inbox
  <1>7. ASSUME FailQuery PROVE TypeOK'
    <2>1. query' \in [kind : {"loading", "syncing"}, of : SUBSET Instances, failed : BOOLEAN]
      <3>1. query \in [kind : {"loading", "syncing"}, of : SUBSET Instances, failed : BOOLEAN]
        BY <1>7 DEF FailQuery, TypeOK, NoQuery
      <3>2. query' = [query EXCEPT !.failed = TRUE]
        BY <1>7 DEF FailQuery
      <3> QED BY <3>1, <3>2
    <2> QED BY <1>7, <2>1 DEF FailQuery, anEvent, TypeOK, heard, limiter, outside, inbox
  <1>8. ASSUME StepTimesOut PROVE TypeOK'
    <2> DEFINE t == [k \in DOMAIN instanceChanges |-> [instanceChanges[k] EXCEPT !.awaited = FALSE]]
    <2>1. \A k \in DOMAIN instanceChanges : [instanceChanges[k] EXCEPT !.awaited = FALSE] \in InstanceChange
      <3>1. \A k \in DOMAIN instanceChanges : instanceChanges[k] \in InstanceChange
        BY Elements DEF TypeOK
      <3> QED BY <3>1 DEF InstanceChange
    <2>2. /\ DOMAIN t = DOMAIN instanceChanges
          /\ t = [k \in DOMAIN instanceChanges |-> t[k]]
          /\ \A k \in DOMAIN instanceChanges : t[k] \in InstanceChange
      BY <2>1
    <2> HIDE DEF t
    <2>3. t \in Seq(InstanceChange)
      BY <2>2, Mapped DEF TypeOK
    <2>4. instanceChanges' = t /\ change' = NoChange /\ events' \in Nat
      BY <1>8 DEF StepTimesOut, anEvent, TypeOK, t
    <2> QED BY <1>8, <2>3, <2>4 DEF StepTimesOut, TypeOK, view, heard, limiter
  <1> QED BY <1>2, <1>3, <1>4, <1>5, <1>6, <1>7, <1>8, MatchType DEF Environment

LEMMA TypeStep ==
    ASSUME TaskLauncherAssumption, TypeOK, [Next]_vars
    PROVE  TypeOK'
  <1>1. CASE UNCHANGED vars
    BY <1>1 DEF TypeOK, vars, view, heard, limiter, outside, inbox, counters
  <1>2. CASE Launcher
    BY <1>2, LoadedType, SynchronizedType, DelayUpdateType, MailboxType, ChangeReceivedType DEF Launcher
  <1> QED BY <1>1, <1>2, ServicesType, TimeType, OfferProcessorType, EnvironmentType DEF Next

(* All state stays in its type.                                            *)
THEOREM TypeCorrect == Spec => []TypeOK
  <1>1. Init => TypeOK
    BY InitType, TaskLauncherAssumption
  <1>2. TypeOK /\ [Next]_vars => TypeOK'
    BY TypeStep, TaskLauncherAssumption
  <1> QED BY <1>1, <1>2, PTL DEF Spec

-----------------------------------------------------------------------------
(* What the updates on their way say.                                      *)

Updates == [ref : Refs, delay : Deadline, reply : BOOLEAN]

(* The same updates, with what the element x adds, about version q.        *)
SaysWith(s, t, x, q) ==
    IF q = x.ref
    THEN /\ Mentions(t, q)
         /\ \A d : LastSays(s, q, d) /\ x.delay = d => LastSays(t, q, d)
         /\ ~ Mentions(s, q) => LastSays(t, q, x.delay)
    ELSE /\ Mentions(s, q) <=> Mentions(t, q)
         /\ \A d : LastSays(s, q, d) => LastSays(t, q, d)

LEMMA AppendedSays ==
    ASSUME NEW s \in Seq(Updates), NEW x \in Updates
    PROVE  /\ LastSays(Append(s, x), x.ref, x.delay)
           /\ \A q : SaysWith(s, Append(s, x), x, q)
  <1> DEFINE t == Append(s, x)
  <1>1. /\ Len(s) \in Nat /\ DOMAIN s = 1..Len(s)
        /\ DOMAIN t = DOMAIN s \cup {Len(s) + 1}
        /\ Len(s) + 1 \notin DOMAIN s /\ t[Len(s) + 1] = x
        /\ \A k \in DOMAIN s : t[k] = s[k] /\ Len(s) + 1 > k
    BY Appended
  <1> HIDE DEF t
  <1>2. LastSays(t, x.ref, x.delay)
    BY <1>1 DEF LastSays
  <1>3. ASSUME NEW q, q /= x.ref
        PROVE  /\ Mentions(s, q) <=> Mentions(t, q)
               /\ \A d : LastSays(s, q, d) => LastSays(t, q, d)
    BY <1>1, <1>3 DEF Mentions, LastSays
  <1>4. Mentions(t, x.ref)
    BY <1>2 DEF Mentions, LastSays
  <1> QED BY <1>2, <1>3, <1>4 DEF SaysWith, t

LEMMA InsertedSays ==
    ASSUME NEW s \in Seq(Updates), NEW x \in Updates, NEW n \in 0..Len(s), NEW q
    PROVE  SaysWith(s, SubSeq(s, 1, n) \o <<x>> \o SubSeq(s, n + 1, Len(s)), x, q)
  <1> DEFINE t == SubSeq(s, 1, n) \o <<x>> \o SubSeq(s, n + 1, Len(s))
  <1>0. InsertedAt(s, t, x, n)
    BY Inserted
  <1> HIDE DEF t
  <1>1. /\ n \in Nat /\ n + 1 \in DOMAIN t /\ t[n + 1] = x
        /\ \A k \in DOMAIN s : k \in Nat /\ IF k <= n THEN k \in DOMAIN t /\ t[k] = s[k]
                                            ELSE k + 1 \in DOMAIN t /\ t[k + 1] = s[k]
        /\ \A k \in DOMAIN t : /\ k \in Nat
                               /\ \/ k <= n /\ k \in DOMAIN s /\ t[k] = s[k]
                                  \/ k = n + 1
                                  \/ k > n + 1 /\ k - 1 \in DOMAIN s /\ t[k] = s[k - 1]
    BY <1>0 DEF InsertedAt
  <1>2. Mentions(s, q) => Mentions(t, q)
    BY <1>1 DEF Mentions
  <1>3. Mentions(t, x.ref)
    BY <1>1 DEF Mentions
  <1>4. ASSUME q /= x.ref, Mentions(t, q) PROVE Mentions(s, q)
    <2>1. PICK k \in DOMAIN t : t[k].ref = q
      BY <1>4 DEF Mentions
    <2>2. k /= n + 1
      BY <1>1, <1>4, <2>1
    <2>3. \E j \in DOMAIN s : t[k] = s[j]
      BY <1>1, <2>2
    <2> QED BY <2>1, <2>3 DEF Mentions
  <1>5. ASSUME NEW d, LastSays(s, q, d), q = x.ref => x.delay = d
        PROVE  LastSays(t, q, d)
    <2>1. PICK k \in DOMAIN s : /\ s[k].ref = q /\ s[k].delay = d
                                /\ \A j \in DOMAIN s : j > k => s[j].ref /= q
      BY <1>5 DEF LastSays
    <2>2. k \in Nat
      BY <1>1
    <2>3. CASE k > n
      <3>1. k + 1 \in DOMAIN t /\ t[k + 1] = s[k]
        BY <1>1, <2>2, <2>3
      <3>2. ASSUME NEW j \in DOMAIN t, j > k + 1 PROVE t[j].ref /= q
        <4>1. j \in Nat /\ j > n + 1
          BY <1>1, <2>2, <2>3, <3>2
        <4>2. j - 1 \in DOMAIN s /\ t[j] = s[j - 1] /\ j - 1 > k
          BY <1>1, <2>2, <3>2, <4>1
        <4> QED BY <2>1, <4>2
      <3> QED BY <2>1, <3>1, <3>2 DEF LastSays
    <2>4. CASE ~ k > n /\ q = x.ref
      <3>1. ASSUME NEW j \in DOMAIN t, j > n + 1 PROVE t[j].ref /= q
        <4>1. j - 1 \in DOMAIN s /\ t[j] = s[j - 1] /\ j - 1 > k
          BY <1>1, <2>2, <2>4, <3>1
        <4> QED BY <2>1, <4>1
      <3> QED BY <1>1, <1>5, <2>4, <3>1 DEF LastSays
    <2>5. CASE ~ k > n /\ q /= x.ref
      <3>1. k \in DOMAIN t /\ t[k] = s[k]
        BY <1>1, <2>2, <2>5
      <3>2. ASSUME NEW j \in DOMAIN t, j > k PROVE t[j].ref /= q
        <4>1. CASE j <= n
          BY <1>1, <2>1, <3>2, <4>1
        <4>2. CASE j = n + 1
          BY <1>1, <2>5, <4>2
        <4>3. CASE ~ j <= n /\ j /= n + 1
          <5>1. j - 1 \in DOMAIN s /\ t[j] = s[j - 1] /\ j - 1 > k
            BY <1>1, <2>2, <2>5, <4>3
          <5> QED BY <2>1, <5>1
        <4> QED BY <4>1, <4>2, <4>3
      <3> QED BY <2>1, <3>1, <3>2 DEF LastSays
    <2> QED BY <2>3, <2>4, <2>5
  <1>6. q = x.ref /\ ~ Mentions(s, q) => LastSays(t, q, x.delay)
    <2> SUFFICES ASSUME q = x.ref, ~ Mentions(s, q) PROVE LastSays(t, q, x.delay)
      OBVIOUS
    <2>1. ASSUME NEW j \in DOMAIN t, j > n + 1 PROVE t[j].ref /= q
      <3>1. j - 1 \in DOMAIN s /\ t[j] = s[j - 1]
        BY <1>1, <2>1
      <3> QED BY <3>1 DEF Mentions
    <2> QED BY <1>1, <2>1 DEF LastSays
  <1> QED BY <1>2, <1>3, <1>4, <1>5, <1>6 DEF SaysWith, t

LEMMA TailSays ==
    ASSUME NEW s \in Seq(Updates), s /= <<>>, NEW q
    PROVE  LET m == Head(s) t == Tail(s)
           IN  IF q = m.ref
               THEN \A d : LastSays(s, q, d) => LastSays(t, q, d) \/ (~ Mentions(t, q) /\ m.delay = d)
               ELSE /\ Mentions(s, q) <=> Mentions(t, q)
                    /\ \A d : LastSays(s, q, d) => LastSays(t, q, d)
  <1> DEFINE m == Head(s)
             t == Tail(s)
  <1>1. /\ m = s[1] /\ 1 \in DOMAIN s
        /\ \A k \in DOMAIN t : k \in Nat \ {0} /\ k + 1 \in DOMAIN s /\ t[k] = s[k + 1]
        /\ \A k \in DOMAIN s \ {1} : k \in Nat /\ k > 1 /\ k - 1 \in DOMAIN t /\ t[k - 1] = s[k]
    BY Removed
  <1> HIDE DEF m, t
  <1>2. Mentions(t, q) => Mentions(s, q)
    BY <1>1 DEF Mentions
  <1>3. q /= m.ref => (Mentions(s, q) => Mentions(t, q))
    BY <1>1 DEF Mentions
  <1>4. ASSUME NEW d, LastSays(s, q, d)
        PROVE  LastSays(t, q, d) \/ (q = m.ref /\ ~ Mentions(t, q) /\ m.delay = d)
    <2>1. PICK k \in DOMAIN s : /\ s[k].ref = q /\ s[k].delay = d
                                /\ \A j \in DOMAIN s : j > k => s[j].ref /= q
      BY <1>4 DEF LastSays
    <2>2. CASE k = 1
      <3>1. q = m.ref /\ m.delay = d
        BY <1>1, <2>1, <2>2
      <3>2. ASSUME NEW j \in DOMAIN t PROVE t[j].ref /= q
        BY <1>1, <2>1, <2>2
      <3> QED BY <3>1, <3>2 DEF Mentions
    <2>3. CASE k /= 1
      <3>1. k \in Nat /\ k - 1 \in DOMAIN t /\ t[k - 1] = s[k]
        BY <1>1, <2>3
      <3>2. ASSUME NEW j \in DOMAIN t, j > k - 1 PROVE t[j].ref /= q
        BY <1>1, <2>1, <3>1, <3>2
      <3> QED BY <2>1, <3>1, <3>2 DEF LastSays
    <2> QED BY <2>2, <2>3
  <1> QED BY <1>2, <1>3, <1>4 DEF m, t

-----------------------------------------------------------------------------
(* The delays.                                                             *)

(* Of all a message may change, this is what the delays depend on.         *)
DelaysKept ==
    /\ UNCHANGED <<delayUpdates, taskLaunchDelays, launchAllowedAt, unheard, instanceMap, getDelay,
                   registeredAsMatcher>>
    /\ isLoading' => isLoading
    /\ [kind |-> "RecheckIfBackOffUntilReached"] \in mailbox
          => [kind |-> "RecheckIfBackOffUntilReached"] \in mailbox'

LEMMA KeptDelays ==
    ASSUME DelayInv, DelaysKept, isLoading' <=> isLoading
    PROVE  DelayInv'
  <1> USE DEF DelaysKept
  <1>1. HeardOK'
    BY DEF DelayInv, HeardOK, delayOf
  <1>2. LoadingOK'
    BY DEF DelayInv, LoadingOK
  <1>3. KnownOK'
    BY DEF DelayInv, KnownOK, scheduledVersions
  <1>4. UsefulOK'
    BY DEF DelayInv, UsefulOK, shouldLaunchInstances, scheduledVersions, launchAllowed
  <1>5. RegisteredOK'
    BY DEF DelayInv, RegisteredOK, scheduledVersions
  <1> QED BY <1>1, <1>2, <1>3, <1>4, <1>5 DEF DelayInv

(* manageOfferMatcherStatus is right about the registration.               *)
LEMMA Managed ==
    ASSUME manageOfferMatcherStatus
    PROVE  UsefulOK' /\ RegisteredOK'
  BY DEF manageOfferMatcherStatus, UsefulOK, RegisteredOK, shouldLaunchInstances, launchAllowed, scheduledVersions

LEMMA InitDelays ==
    ASSUME TaskLauncherAssumption, Init
    PROVE  DelayInv
  <1>1. query.kind = "loading"
    BY DEF Init, ask
  <1>2. /\ delayUpdates = <<>> /\ registeredAsMatcher = FALSE
        /\ launchAllowedAt = [r \in Refs |-> None] /\ instanceMap = [i \in Instances |-> None]
    BY DEF Init
  <1>3. scheduledVersions(instanceMap) = {}
    BY <1>2 DEF scheduledVersions, isScheduled, is
  <1> QED BY <1>1, <1>2, <1>3 DEF DelayInv, HeardOK, LoadingOK, KnownOK, UsefulOK, RegisteredOK, isLoading, Mentions

LEMMA LoadedDelays ==
    ASSUME TaskLauncherAssumption, TypeOK, DelayInv, ReceiveLoadedInstances
    PROVE  DelayInv'
  <1>1. /\ isLoading /\ ~ isLoading'
        /\ getDelay' = getDelay \cup scheduledVersions(instanceMap')
        /\ UNCHANGED <<launchAllowedAt, unheard, registeredAsMatcher, taskLaunchDelays, delayUpdates>>
    BY DEF ReceiveLoadedInstances, isLoading, heard, NoQuery
  <1>2. HeardOK'
    BY <1>1 DEF DelayInv, HeardOK, delayOf
  <1>3. KnownOK'
    BY <1>1 DEF KnownOK
  <1>4. ~ registeredAsMatcher' /\ launchAllowedAt' = [r \in Refs |-> None]
    BY <1>1 DEF DelayInv, LoadingOK
  <1>5. instanceMap' \in [Instances -> Value]
    BY DEF ReceiveLoadedInstances, TypeOK
  <1>6. \A r \in scheduledVersions(instanceMap') : launchAllowedAt'[r] /= 0
    BY <1>4, <1>5, VersionsType DEF TaskLauncherAssumption
  <1> QED BY <1>1, <1>2, <1>3, <1>4, <1>6 DEF DelayInv, LoadingOK, UsefulOK, RegisteredOK

LEMMA removedDelays ==
    ASSUME TypeOK, DelayInv, ~ isLoading, NEW i \in Instances, removeInstanceFromInternalState(i),
           UNCHANGED <<delayUpdates, taskLaunchDelays, getDelay>>, ~ isLoading'
    PROVE  DelayInv'
  <1>1. /\ instanceMap' = [instanceMap EXCEPT ![i] = None]
        /\ launchAllowedAt' = [r \in Refs |-> IF r \in scheduledVersions(instanceMap')
                                              THEN launchAllowedAt[r] ELSE None]
        /\ unheard' = unheard \cap scheduledVersions(instanceMap')
        /\ manageOfferMatcherStatus
    BY DEF removeInstanceFromInternalState
  <1>2. instanceMap \in [Instances -> Value] /\ instanceMap' \in [Instances -> Value]
    BY removeType DEF TypeOK
  <1>3. \A j \in Instances : isScheduled(instanceMap'[j]) => instanceMap'[j] = instanceMap[j]
    BY <1>1 DEF TypeOK, isScheduled, is
  <1>4. scheduledVersions(instanceMap') \subseteq scheduledVersions(instanceMap)
    BY <1>2, <1>3 DEF scheduledVersions
  <1>5. scheduledVersions(instanceMap') \subseteq Refs
    BY <1>2, VersionsType
  <1>6. HeardOK'
    <2> SUFFICES ASSUME NEW r \in Refs, ~ LastSays(delayUpdates, r, delayOf(taskLaunchDelays, r))
                 PROVE  /\ ~ Mentions(delayUpdates, r)
                        /\ launchAllowedAt'[r] \in {None, delayOf(taskLaunchDelays, r)} \/ r \in unheard'
      BY DEF HeardOK, delayOf
    <2>1. /\ ~ Mentions(delayUpdates, r)
          /\ launchAllowedAt[r] \in {None, delayOf(taskLaunchDelays, r)} \/ r \in unheard
      BY DEF DelayInv, HeardOK
    <2> QED BY <1>1, <2>1
  <1>7. KnownOK'
    BY <1>1, <1>4, <1>5 DEF DelayInv, KnownOK
  <1> QED BY <1>1, <1>6, <1>7, Managed DEF DelayInv, LoadingOK

LEMMA SynchronizedDelays ==
    ASSUME TaskLauncherAssumption, TypeOK, DelayInv, ReceiveSynchronizedInstance
    PROVE  DelayInv'
  <1>1. PICK i \in query.of :
          \/ /\ tracker[i] = None
             /\ removeInstanceFromInternalState(i)
             /\ UNCHANGED getDelay
          \/ /\ tracker[i] /= None
             /\ instanceMap' = [instanceMap EXCEPT ![i] = tracker[i]]
             /\ getDelay' = getDelay \cup
                   {r \in {tracker[i].ref} : launchAllowedAt[r] = None}
             /\ UNCHANGED heard
             /\ manageOfferMatcherStatus
    BY DEF ReceiveSynchronizedInstance
  <1>2. i \in Instances
    BY Queries DEF ReceiveSynchronizedInstance, active
  <1>3. ~ isLoading /\ ~ isLoading' /\ UNCHANGED <<delayUpdates, taskLaunchDelays>>
    BY DEF ReceiveSynchronizedInstance, isLoading, NoQuery
  <1>4. CASE tracker[i] = None
    BY <1>1, <1>2, <1>3, <1>4, removedDelays
  <1>5. CASE tracker[i] /= None
    <2>1. /\ instanceMap' = [instanceMap EXCEPT ![i] = tracker[i]]
          /\ getDelay' = getDelay \cup {r \in {tracker[i].ref} : launchAllowedAt[r] = None}
          /\ UNCHANGED <<launchAllowedAt, unheard>>
          /\ manageOfferMatcherStatus
      BY <1>1, <1>5 DEF heard
    <2>2. HeardOK'
      BY <1>3, <2>1 DEF DelayInv, HeardOK, delayOf
    <2>3. \A r \in scheduledVersions(instanceMap') : r \in scheduledVersions(instanceMap) \/ r = tracker[i].ref
      <3>1. \A j \in Instances : j /= i => instanceMap'[j] = instanceMap[j]
        BY <2>1 DEF TypeOK
      <3>2. instanceMap'[i] = tracker[i]
        BY <1>2, <2>1 DEF TypeOK
      <3> QED BY <3>1, <3>2 DEF scheduledVersions
    <2>4. KnownOK'
      BY <1>3, <2>1, <2>3 DEF DelayInv, KnownOK
    <2> QED BY <1>3, <2>1, <2>2, <2>4, Managed DEF DelayInv, LoadingOK
  <1> QED BY <1>4, <1>5

LEMMA DelayUpdateDelays ==
    ASSUME TaskLauncherAssumption, TypeOK, DelayInv, ReceiveDelayUpdate
    PROVE  DelayInv'
  <1> DEFINE m == Head(delayUpdates)
  <1>1. /\ delayUpdates \in Seq(Updates) /\ delayUpdates /= <<>> /\ delayUpdates' = Tail(delayUpdates)
        /\ UNCHANGED <<taskLaunchDelays, getDelay, query, mailbox, instanceMap>>
    BY DEF ReceiveDelayUpdate, TypeOK, Updates, inbox
  <1>2. m \in Updates
    BY <1>1, Removed
  <1>3. m.ref \in Refs /\ m.delay \in Deadline
    BY <1>2 DEF Updates
  <1>4. ~ isLoading /\ ~ isLoading'
    BY <1>1 DEF ReceiveDelayUpdate, active, NoQuery, isLoading
  <1>5. \A q \in Refs : q /= m.ref =>
            /\ Mentions(delayUpdates, q) <=> Mentions(delayUpdates', q)
            /\ LastSays(delayUpdates, q, delayOf(taskLaunchDelays, q))
                 => LastSays(delayUpdates', q, delayOf(taskLaunchDelays, q))
    BY <1>1, TailSays
  <1>6. \/ LastSays(delayUpdates', m.ref, delayOf(taskLaunchDelays, m.ref))
        \/ ~ Mentions(delayUpdates', m.ref) /\ m.delay = delayOf(taskLaunchDelays, m.ref)
    <2>1. Mentions(delayUpdates, m.ref)
      BY <1>1, Removed DEF Mentions
    <2>2. LastSays(delayUpdates, m.ref, delayOf(taskLaunchDelays, m.ref))
      BY <1>3, <2>1 DEF DelayInv, HeardOK
    <2> QED BY <1>1, <2>2, TailSays
  <1>7. \/ /\ m.ref \in scheduledVersions(instanceMap)
           /\ launchAllowedAt' = [launchAllowedAt EXCEPT ![m.ref] = m.delay]
           /\ unheard' = unheard \ {m.ref}
           /\ manageOfferMatcherStatus
        \/ /\ m.ref \notin scheduledVersions(instanceMap)
           /\ unheard' = unheard \cup {r \in {m.ref} : launchAllowedAt[r] /= None}
           /\ UNCHANGED <<launchAllowedAt, registeredAsMatcher>>
    BY DEF ReceiveDelayUpdate
  <1> HIDE DEF m
  <1>8. \A q \in Refs : q /= m.ref =>
            launchAllowedAt'[q] = launchAllowedAt[q] /\ (q \in unheard' <=> q \in unheard)
    BY <1>7 DEF TypeOK
  <1>9. launchAllowedAt'[m.ref] \in {None, m.delay} \/ m.ref \in unheard'
    BY <1>3, <1>7 DEF TypeOK
  <1>10. HeardOK'
    <2>1. \A q \in Refs : delayOf(taskLaunchDelays', q) = delayOf(taskLaunchDelays, q)
      BY <1>1
    <2>2. ASSUME NEW q \in Refs
          PROVE  \/ LastSays(delayUpdates', q, delayOf(taskLaunchDelays, q))
                 \/ /\ ~ Mentions(delayUpdates', q)
                    /\ launchAllowedAt'[q] \in {None, delayOf(taskLaunchDelays, q)} \/ q \in unheard'
      <3>1. CASE q = m.ref
        BY <1>6, <1>9, <3>1
      <3>2. CASE q /= m.ref
        BY <1>5, <1>8, <3>2 DEF DelayInv, HeardOK
      <3> QED BY <3>1, <3>2
    <2> QED BY <2>1, <2>2 DEF HeardOK
  <1>11. scheduledVersions(instanceMap') = scheduledVersions(instanceMap) /\ scheduledVersions(instanceMap) \subseteq Refs
    BY <1>1, VersionsType DEF TypeOK
  <1>12. KnownOK'
    <2> SUFFICES ASSUME NEW r \in scheduledVersions(instanceMap)
                 PROVE  launchAllowedAt'[r] /= None \/ r \in getDelay' \/ Mentions(delayUpdates', r)
      BY <1>11 DEF KnownOK
    <2>1. r \in Refs /\ (launchAllowedAt[r] /= None \/ r \in getDelay \/ Mentions(delayUpdates, r))
      BY <1>4, <1>11 DEF DelayInv, KnownOK
    <2>2. CASE r = m.ref
      <3>1. launchAllowedAt'[r] = m.delay
        BY <1>3, <1>7, <2>2 DEF TypeOK
      <3> QED BY <1>3, <3>1 DEF TaskLauncherAssumption, Deadline
    <2>3. CASE r /= m.ref
      BY <1>1, <1>5, <1>8, <2>1, <2>3
    <2> QED BY <2>2, <2>3
  <1>13. UsefulOK' /\ RegisteredOK'
    <2>1. CASE manageOfferMatcherStatus
      BY <2>1, Managed
    <2>2. CASE m.ref \notin scheduledVersions(instanceMap) /\ UNCHANGED <<launchAllowedAt, registeredAsMatcher>>
      <3>1. UsefulOK'
        BY <1>1, <2>2 DEF DelayInv, UsefulOK, shouldLaunchInstances, launchAllowed, scheduledVersions
      <3>2. ASSUME NEW r \in scheduledVersions(instanceMap), launchAllowedAt[r] = 0
            PROVE  \/ registeredAsMatcher
                   \/ [kind |-> "RecheckIfBackOffUntilReached"] \in mailbox
                   \/ taskLaunchDelays[r] /= None \/ Mentions(delayUpdates', r)
                   \/ r \in unheard'
        BY <1>5, <1>8, <1>11, <2>2, <3>2 DEF DelayInv, RegisteredOK
      <3>3. RegisteredOK'
        BY <1>1, <1>11, <2>2, <3>2 DEF RegisteredOK
      <3> QED BY <3>1, <3>3
    <2> QED BY <1>7, <2>1, <2>2
  <1> QED BY <1>4, <1>10, <1>12, <1>13 DEF DelayInv, LoadingOK

LEMMA MatchDelays ==
    ASSUME TypeOK, DelayInv, NEW i \in Instances, MatchOffer(i)
    PROVE  DelayInv'
  <1>1. /\ UNCHANGED <<launchAllowedAt, unheard, delayUpdates, taskLaunchDelays, getDelay, query>>
        /\ manageOfferMatcherStatus
    BY DEF MatchOffer, heard, limiter
  <1>2. ~ isLoading /\ ~ isLoading'
    BY <1>1 DEF MatchOffer, active, NoQuery, isLoading
  <1>3. \A j \in Instances : instanceMap'[j] = instanceMap[j] \/ (j = i /\ instanceMap'[j].cond = "provisioned")
    BY DEF MatchOffer, TypeOK, isScheduled, is, Value
  <1>4. scheduledVersions(instanceMap') \subseteq scheduledVersions(instanceMap)
    BY <1>3 DEF scheduledVersions, isScheduled, is
  <1>5. HeardOK' /\ KnownOK'
    BY <1>1, <1>2, <1>4 DEF DelayInv, HeardOK, KnownOK, delayOf
  <1> QED BY <1>1, <1>2, <1>5, Managed DEF DelayInv, LoadingOK

LEMMA RecheckDelays ==
    ASSUME TypeOK, DelayInv, NEW m, ReceiveRecheck(m)
    PROVE  DelayInv'
  <1>1. /\ UNCHANGED <<instanceMap, launchAllowedAt, unheard, delayUpdates, taskLaunchDelays, getDelay, query>>
        /\ manageOfferMatcherStatus
    BY DEF ReceiveRecheck, heard, limiter
  <1>2. ~ isLoading /\ ~ isLoading'
    BY <1>1 DEF ReceiveRecheck, Receives, active, NoQuery, isLoading
  <1>3. HeardOK' /\ KnownOK'
    BY <1>1, <1>2 DEF DelayInv, HeardOK, KnownOK, delayOf, scheduledVersions
  <1> QED BY <1>1, <1>2, <1>3, Managed DEF DelayInv, LoadingOK

LEMMA GetDelayDelays ==
    ASSUME TaskLauncherAssumption, TypeOK, DelayInv, NEW r \in Refs, GetDelay(r)
    PROVE  DelayInv'
  <1> DEFINE x == update(r, taskLaunchDelays, TRUE)
  <1>1. x \in Updates /\ x.ref = r /\ x.delay = delayOf(taskLaunchDelays, r)
    BY delayOfType DEF Updates, update
  <1>2. PICK n \in 0..Len(delayUpdates) :
            delayUpdates' = SubSeq(delayUpdates, 1, n) \o <<x>> \o SubSeq(delayUpdates, n + 1, Len(delayUpdates))
    BY DEF GetDelay
  <1> HIDE DEF x
  <1>3. delayUpdates \in Seq(Updates)
    BY DEF TypeOK, Updates
  <1>4. \A q \in Refs : SaysWith(delayUpdates, delayUpdates', x, q)
    BY <1>1, <1>2, <1>3, InsertedSays
  <1>5. /\ UNCHANGED <<taskLaunchDelays, launchAllowedAt, unheard, instanceMap, registeredAsMatcher, query, mailbox>>
        /\ getDelay' = getDelay \ {r}
    BY DEF GetDelay, view, heard, inbox
  <1>6. \A q \in Refs : Mentions(delayUpdates, q) => Mentions(delayUpdates', q)
    BY <1>1, <1>4 DEF SaysWith
  <1>7. HeardOK'
    <2>1. ASSUME NEW q \in Refs
          PROVE  \/ LastSays(delayUpdates', q, delayOf(taskLaunchDelays, q))
                 \/ /\ ~ Mentions(delayUpdates', q)
                    /\ launchAllowedAt[q] \in {None, delayOf(taskLaunchDelays, q)} \/ q \in unheard
      <3>1. CASE q = r
        BY <1>1, <1>4, <3>1 DEF DelayInv, HeardOK, SaysWith
      <3>2. CASE q /= r
        BY <1>1, <1>4, <3>2 DEF DelayInv, HeardOK, SaysWith
      <3> QED BY <3>1, <3>2
    <2> QED BY <1>5, <2>1 DEF HeardOK, delayOf
  <1>8. /\ scheduledVersions(instanceMap') = scheduledVersions(instanceMap)
        /\ scheduledVersions(instanceMap) \subseteq Refs
    BY <1>5, VersionsType DEF TypeOK
  <1>9. KnownOK'
    <2>1. Mentions(delayUpdates', r)
      BY <1>1, <1>4 DEF SaysWith
    <2> QED BY <1>5, <1>6, <1>8, <2>1 DEF DelayInv, KnownOK, isLoading
  <1>10. UsefulOK'
    BY <1>5, <1>8 DEF DelayInv, UsefulOK, shouldLaunchInstances, launchAllowed
  <1>11. RegisteredOK'
    BY <1>5, <1>6, <1>8 DEF DelayInv, RegisteredOK
  <1>12. LoadingOK'
    BY <1>5 DEF DelayInv, LoadingOK, isLoading
  <1> QED BY <1>7, <1>9, <1>10, <1>11, <1>12 DEF DelayInv

(* The delay of one version changes and the launchers are told.            *)
LEMMA NotifiedDelays ==
    ASSUME TaskLauncherAssumption, TypeOK, TypeOK', DelayInv, NEW r \in Refs, notify(r),
           \A q \in Refs : q /= r => taskLaunchDelays'[q] = taskLaunchDelays[q],
           UNCHANGED <<view, getDelay, mailbox>>
    PROVE  DelayInv'
  <1> DEFINE x == update(r, taskLaunchDelays', FALSE)
  <1>1. x \in Updates /\ x.ref = r /\ x.delay = delayOf(taskLaunchDelays', r)
    BY DEF Updates, update, delayOf, TypeOK, TaskLauncherAssumption, Deadline
  <1>2. delayUpdates' = Append(delayUpdates, x)
    BY DEF notify
  <1> HIDE DEF x
  <1>3. delayUpdates \in Seq(Updates)
    BY DEF TypeOK, Updates
  <1>4. /\ LastSays(delayUpdates', r, delayOf(taskLaunchDelays', r))
        /\ \A q \in Refs : SaysWith(delayUpdates, delayUpdates', x, q)
    BY <1>1, <1>2, <1>3, AppendedSays
  <1>5. UNCHANGED <<launchAllowedAt, unheard, instanceMap, registeredAsMatcher, query>>
    BY DEF view, heard
  <1>6. \A q \in Refs : Mentions(delayUpdates, q) => Mentions(delayUpdates', q)
    BY <1>1, <1>4 DEF SaysWith
  <1>7. Mentions(delayUpdates', r)
    BY <1>1, <1>4 DEF SaysWith
  <1>8. HeardOK'
    <2>1. ASSUME NEW q \in Refs
          PROVE  \/ LastSays(delayUpdates', q, delayOf(taskLaunchDelays', q))
                 \/ /\ ~ Mentions(delayUpdates', q)
                    /\ launchAllowedAt[q] \in {None, delayOf(taskLaunchDelays', q)} \/ q \in unheard
      <3>1. CASE q = r
        BY <1>4, <3>1
      <3>2. CASE q /= r
        <4>1. delayOf(taskLaunchDelays', q) = delayOf(taskLaunchDelays, q)
          BY <3>2 DEF delayOf
        <4> QED BY <1>1, <1>4, <3>2, <4>1 DEF DelayInv, HeardOK, SaysWith
      <3> QED BY <3>1, <3>2
    <2> QED BY <1>5, <2>1 DEF HeardOK
  <1>9. /\ scheduledVersions(instanceMap') = scheduledVersions(instanceMap)
        /\ scheduledVersions(instanceMap) \subseteq Refs
    BY <1>5, VersionsType DEF TypeOK
  <1>10. KnownOK'
    BY <1>5, <1>6, <1>9 DEF DelayInv, KnownOK, isLoading
  <1>11. UsefulOK'
    BY <1>5, <1>9 DEF DelayInv, UsefulOK, shouldLaunchInstances, launchAllowed
  <1>12. RegisteredOK'
    BY <1>5, <1>6, <1>7, <1>9 DEF DelayInv, RegisteredOK
  <1>13. LoadingOK'
    BY <1>5 DEF DelayInv, LoadingOK, isLoading
  <1> QED BY <1>8, <1>10, <1>11, <1>12, <1>13 DEF DelayInv

LEMMA DeadlineDelays ==
    ASSUME TaskLauncherAssumption, TypeOK, DelayInv, NEW d \in Deadline \ {0}, DeadlinePasses(d)
    PROVE  DelayInv'
  <1> DEFINE past(x) == IF x = d THEN 0 ELSE x
  <1>1. /\ taskLaunchDelays' = [r \in Refs |-> past(taskLaunchDelays[r])]
        /\ launchAllowedAt' = [r \in Refs |-> past(launchAllowedAt[r])]
        /\ delayUpdates' = [k \in DOMAIN delayUpdates |-> [delayUpdates[k] EXCEPT !.delay = past(delayUpdates[k].delay)]]
    BY DEF DeadlinePasses
  <1>2. UNCHANGED <<instanceMap, unheard, registeredAsMatcher, query, getDelay>> /\ mailbox \subseteq mailbox'
    BY DEF DeadlinePasses, send
  <1>3. d /= None /\ d /= 0 /\ None /= 0 /\ past(d) = 0 /\ past(0) = 0 /\ past(None) = None
    BY DEF TaskLauncherAssumption, Deadline
  <1>4. \A x : past(x) = None <=> x = None
    BY <1>3
  <1>5. \A r \in Refs : delayOf(taskLaunchDelays', r) = past(delayOf(taskLaunchDelays, r))
    BY <1>1, <1>3 DEF delayOf
  <1>6. \A x : past(x) = 0 => x = 0 \/ x = d
    OBVIOUS
  <1> HIDE DEF past
  <1>7. /\ DOMAIN delayUpdates' = DOMAIN delayUpdates
        /\ \A k \in DOMAIN delayUpdates :
              delayUpdates'[k].ref = delayUpdates[k].ref /\ delayUpdates'[k].delay = past(delayUpdates[k].delay)
    <2>1. \A k \in DOMAIN delayUpdates : delayUpdates[k] \in Updates
      BY Elements DEF TypeOK, Updates
    <2> QED BY <1>1, <2>1 DEF Updates
  <1>8. ASSUME NEW q
        PROVE  /\ Mentions(delayUpdates, q) <=> Mentions(delayUpdates', q)
               /\ \A e : LastSays(delayUpdates, q, e) => LastSays(delayUpdates', q, past(e))
    BY <1>7 DEF Mentions, LastSays
  <1>9. HeardOK'
    <2>1. ASSUME NEW q \in Refs
          PROVE  \/ LastSays(delayUpdates', q, past(delayOf(taskLaunchDelays, q)))
                 \/ /\ ~ Mentions(delayUpdates', q)
                    /\ launchAllowedAt'[q] \in {None, past(delayOf(taskLaunchDelays, q))} \/ q \in unheard
      <3>1. CASE LastSays(delayUpdates, q, delayOf(taskLaunchDelays, q))
        BY <1>8, <3>1
      <3>2. CASE ~ LastSays(delayUpdates, q, delayOf(taskLaunchDelays, q))
        <4>1. /\ ~ Mentions(delayUpdates, q)
              /\ launchAllowedAt[q] \in {None, delayOf(taskLaunchDelays, q)} \/ q \in unheard
          BY <3>2 DEF DelayInv, HeardOK
        <4>2. launchAllowedAt'[q] = past(launchAllowedAt[q])
          BY <1>1
        <4> QED BY <1>3, <1>8, <4>1, <4>2
      <3> QED BY <3>1, <3>2
    <2> QED BY <1>2, <1>5, <2>1 DEF HeardOK
  <1>10. /\ scheduledVersions(instanceMap') = scheduledVersions(instanceMap)
         /\ scheduledVersions(instanceMap) \subseteq Refs
    BY <1>2, VersionsType DEF TypeOK
  <1>11. KnownOK'
    <2>1. \A r \in Refs : launchAllowedAt[r] /= None => launchAllowedAt'[r] /= None
      BY <1>1, <1>4
    <2> QED BY <1>2, <1>8, <1>10, <2>1 DEF DelayInv, KnownOK, isLoading
  <1>12. UsefulOK'
    <2>1. \A r \in Refs : launchAllowedAt[r] = 0 => launchAllowedAt'[r] = 0
      BY <1>1, <1>3
    <2> QED BY <1>2, <1>10, <2>1 DEF DelayInv, UsefulOK, shouldLaunchInstances, launchAllowed
  <1>13. RegisteredOK'
    <2> SUFFICES ASSUME NEW r \in scheduledVersions(instanceMap), launchAllowedAt'[r] = 0
                 PROVE  \/ registeredAsMatcher
                        \/ [kind |-> "RecheckIfBackOffUntilReached"] \in mailbox'
                        \/ taskLaunchDelays'[r] /= None \/ Mentions(delayUpdates', r)
                        \/ r \in unheard
      BY <1>2, <1>10 DEF RegisteredOK
    <2>1. r \in Refs /\ (launchAllowedAt[r] = 0 \/ launchAllowedAt[r] = d)
      BY <1>1, <1>6, <1>10
    <2>2. taskLaunchDelays[r] /= None => taskLaunchDelays'[r] /= None
      BY <1>1, <1>4, <2>1
    <2>3. CASE launchAllowedAt[r] = 0
      BY <1>2, <1>8, <2>2, <2>3 DEF DelayInv, RegisteredOK
    <2>4. CASE launchAllowedAt[r] = d
      <3>1. \/ Mentions(delayUpdates, r)
            \/ launchAllowedAt[r] \in {None, delayOf(taskLaunchDelays, r)} \/ r \in unheard
        BY <2>1 DEF DelayInv, HeardOK, LastSays, Mentions
      <3>2. d = delayOf(taskLaunchDelays, r) => taskLaunchDelays[r] /= None
        BY <1>3 DEF delayOf
      <3> QED BY <1>3, <1>8, <2>2, <2>4, <3>1, <3>2
    <2> QED BY <2>1, <2>3, <2>4
  <1>14. LoadingOK'
    BY <1>1, <1>2, <1>3 DEF DelayInv, LoadingOK, isLoading
  <1> QED BY <1>9, <1>11, <1>12, <1>13, <1>14 DEF DelayInv

LEMMA DelayStep ==
    ASSUME TaskLauncherAssumption, TypeOK, TypeOK', DelayInv, [Next]_vars
    PROVE  DelayInv'
  <1> USE DEF DelaysKept, isLoading
  <1>1. CASE UNCHANGED vars
    BY <1>1, KeptDelays DEF vars, view, heard, limiter, inbox
  <1>2. ASSUME NEW k \in DOMAIN instanceChanges, ReceiveInstanceUpdated(instanceChanges[k])
        PROVE  DelayInv'
    BY <1>2, KeptDelays
       DEF ReceiveInstanceUpdated, ReceivesChange, active, syncInstance, ask, NoQuery, heard, limiter
  <1>3. ASSUME NEW k \in DOMAIN instanceChanges, ReceiveInstanceDeleted(instanceChanges[k])
        PROVE  DelayInv'
    <2>1. instanceChanges[k].instance \in Instances
      <3>1. instanceChanges[k] \in InstanceChange
        BY Elements DEF TypeOK
      <3> QED BY <3>1 DEF InstanceChange
    <2>2. /\ removeInstanceFromInternalState(instanceChanges[k].instance)
          /\ UNCHANGED <<delayUpdates, taskLaunchDelays, getDelay, query>> /\ query = NoQuery
      BY <1>3 DEF ReceiveInstanceDeleted, ReceivesChange, active, limiter
    <2> QED BY <2>1, <2>2, removedDelays DEF NoQuery
  <1>4. ASSUME NEW m \in mailbox, ReceiveRejectedTimeout(m) PROVE DelayInv'
    BY <1>4, KeptDelays
       DEF ReceiveRejectedTimeout, Receives, active, syncInstance, ask, NoQuery, heard, limiter
  <1>5. ASSUME NEW m \in mailbox, ReceiveRejected(m) PROVE DelayInv'
    BY <1>5, KeptDelays DEF ReceiveRejected, Receives, active, syncInstance, ask, NoQuery, heard, limiter
  <1>6. ASSUME NEW m \in mailbox, ReceiveAccepted(m) PROVE DelayInv'
    BY <1>6, KeptDelays DEF ReceiveAccepted, Receives, heard, limiter
  <1>7. CASE Launcher
    BY <1>2, <1>3, <1>4, <1>5, <1>6, <1>7, LoadedDelays, SynchronizedDelays, DelayUpdateDelays, RecheckDelays
       DEF Launcher
  <1>8. CASE Services
    <2>1. ASSUME NotifyRateLimiter PROVE DelayInv'
      <3>1. change.ref \in Refs
        BY <2>1, Changes DEF NotifyRateLimiter
      <3>2. \A q \in Refs : q /= change.ref => taskLaunchDelays'[q] = taskLaunchDelays[q]
        BY <2>1 DEF NotifyRateLimiter, TypeOK
      <3> QED BY <2>1, <3>1, <3>2, NotifiedDelays DEF NotifyRateLimiter, inbox
    <2>2. ASSUME NotifyLaunchQueue PROVE DelayInv'
      BY <2>2, KeptDelays DEF NotifyLaunchQueue, view, heard, limiter
    <2> QED BY <1>8, <2>1, <2>2, GetDelayDelays DEF Services
  <1>9. CASE Time
    <2>1. ASSUME NEW r \in Refs, CleanupOverdueDelays(r) PROVE DelayInv'
      <3>1. \A q \in Refs : q /= r => taskLaunchDelays'[q] = taskLaunchDelays[q]
        BY <2>1 DEF CleanupOverdueDelays, TypeOK
      <3> QED BY <2>1, <3>1, NotifiedDelays DEF CleanupOverdueDelays, inbox
    <2>2. ASSUME NEW i \in Instances, TaskOpTimeout(i) PROVE DelayInv'
      BY <2>2, KeptDelays DEF TaskOpTimeout, send, heard, limiter
    <2> QED BY <1>9, <2>1, <2>2, DeadlineDelays DEF Time
  <1>10. CASE OfferProcessor
    <2>1. UNCHANGED <<view, limiter>> /\ mailbox \subseteq mailbox'
      BY <1>10
         DEF OfferProcessor, RejectOp, SaveOp, FailSave, RevertOp, AcceptOp, DriverGone, reject, send, inbox
    <2> QED BY <2>1, KeptDelays DEF view, heard, limiter
  <1>11. CASE Environment
    <2>1. ASSUME NEW r \in Refs, ResetDelay(r) PROVE DelayInv'
      <3>1. \A q \in Refs : q /= r => taskLaunchDelays'[q] = taskLaunchDelays[q]
        BY <2>1 DEF ResetDelay, TypeOK
      <3> QED BY <2>1, <3>1, NotifiedDelays DEF ResetDelay, inbox
    <2>2. ASSUME FailQuery PROVE DelayInv'
      <3>1. query'.kind = query.kind
        <4>1. query \in [kind : {"loading", "syncing"}, of : SUBSET Instances, failed : BOOLEAN]
          BY <2>2 DEF FailQuery, TypeOK, NoQuery
        <4> QED BY <2>2, <4>1 DEF FailQuery
      <3> QED BY <2>2, <3>1, KeptDelays DEF FailQuery, heard, limiter, inbox
    <2>3. ASSUME StepTimesOut PROVE DelayInv'
      BY <2>3, KeptDelays DEF StepTimesOut, view, heard, limiter
    <2>4. ASSUME fromOutside PROVE DelayInv'
      BY <2>4, KeptDelays DEF fromOutside, view, heard, limiter, inbox
    <2>5. ASSUME NEW i \in Instances, TaskRuns(i) \/ TaskFails(i) \/ Expunge(i) PROVE DelayInv'
      BY <2>4, <2>5 DEF TaskRuns, TaskFails, Expunge
    <2>6. ASSUME NEW i \in Instances, NEW r \in Refs, Schedule(i, r) PROVE DelayInv'
      BY <2>4, <2>6 DEF Schedule
    <2> QED BY <1>11, <2>1, <2>2, <2>3, <2>5, <2>6, MatchDelays DEF Environment
  <1> QED BY <1>1, <1>7, <1>8, <1>9, <1>10, <1>11 DEF Next

LEMMA DelaysInvariant == Spec => [](TypeOK /\ DelayInv)
  <1>1. Init => TypeOK /\ DelayInv
    BY InitType, InitDelays, TaskLauncherAssumption
  <1>2. TypeOK /\ DelayInv /\ [Next]_vars => (TypeOK /\ DelayInv)'
    BY TypeStep, DelayStep, TaskLauncherAssumption
  <1> QED BY <1>1, <1>2, PTL DEF Spec

(* What the launcher knows of the delays is what the rate limiter says,    *)
(* but for updates that are on their way and those it did not listen to.   *)
THEOREM DelaysCorrect == Spec => []DelayIsHeard
  <1>1. DelayInv => DelayIsHeard
    BY DEF DelayInv, HeardOK, DelayIsHeard, LastSays
  <1> QED BY <1>1, DelaysInvariant, PTL

(* The launcher is not registered for offers it has no use for.            *)
THEOREM OffersCorrect == Spec => []OffersAreOfUse
  <1>1. DelayInv => OffersAreOfUse
    BY DEF DelayInv, UsefulOK, OffersAreOfUse
  <1> QED BY <1>1, DelaysInvariant, PTL

-----------------------------------------------------------------------------
(* Changes, the messages about them and queries.                           *)

LEMMA SentChange ==
    ASSUME TypeOK, NEW m \in InstanceChange, NEW c, NEW instances, NEW messages \in Seq(InstanceChange),
           ChangeOK(change, messages), DeletedOK(change, messages, instances),
           change.phase = "queue", m.kind = change.kind, m.instance = change.instance, m.awaited = TRUE,
           c = [change EXCEPT !.phase = "sent"]
    PROVE  ChangeOK(c, Append(messages, m)) /\ DeletedOK(c, Append(messages, m), instances)
  <1> DEFINE t == Append(messages, m)
  <1>1. /\ Len(messages) \in Nat /\ DOMAIN messages = 1..Len(messages)
        /\ DOMAIN t = DOMAIN messages \cup {Len(messages) + 1}
        /\ t[Len(messages) + 1] = m
        /\ \A k \in DOMAIN messages : t[k] = messages[k] /\ Len(messages) + 1 > k
    BY Appended
  <1> HIDE DEF t
  <1>2. /\ change /= NoChange /\ c.phase = "sent" /\ c.kind = change.kind /\ c.instance = change.instance
        /\ c /= NoChange
    BY DEF TypeOK, NoChange
  <1>3. \A k \in DOMAIN messages : ~ messages[k].awaited
    BY DEF ChangeOK
  <1>4. \A k \in DOMAIN t : t[k].awaited => k = Len(messages) + 1
    BY <1>1, <1>3
  <1>5. ChangeOK(c, t)
    <2>1. \A k \in DOMAIN t : t[k].awaited => c.phase = "sent" /\ c.instance = t[k].instance
      BY <1>1, <1>2, <1>4
    <2>2. \A j, k \in DOMAIN t : t[j].awaited /\ t[k].awaited => j = k
      BY <1>4
    <2>3. \E k \in DOMAIN t : t[k].awaited
      BY <1>1
    <2> QED BY <2>1, <2>2, <2>3 DEF ChangeOK
  <1>6. c.kind = "InstanceDeleted" => instances[c.instance] = None
    BY <1>2 DEF DeletedOK
  <1>7. ASSUME NEW k \in DOMAIN t, t[k].kind = "InstanceDeleted"
        PROVE  \/ instances[t[k].instance] = None
               \/ \E j \in DOMAIN t : j > k /\ t[j].instance = t[k].instance
    <2>1. CASE k = Len(messages) + 1
      <3>1. t[k] = m
        BY <1>1, <2>1
      <3>2. m.kind = c.kind /\ m.instance = c.instance
        BY <1>2
      <3> QED BY <1>6, <1>7, <3>1, <3>2
    <2>2. CASE k /= Len(messages) + 1
      <3>1. k \in DOMAIN messages /\ t[k] = messages[k] /\ Len(messages) + 1 > k
        BY <1>1, <2>2
      <3>2. \/ instances[messages[k].instance] = None
            \/ \E j \in DOMAIN messages : j > k /\ messages[j].instance = messages[k].instance
            \/ change.instance = messages[k].instance
        BY <1>7, <3>1 DEF DeletedOK
      <3> QED BY <1>1, <3>1, <3>2
    <2> QED BY <2>1, <2>2
  <1>8. DeletedOK(c, t, instances)
    BY <1>6, <1>7 DEF DeletedOK
  <1> QED BY <1>5, <1>8 DEF t

LEMMA ReceivedChange ==
    ASSUME TypeOK, NEW m, ReceivesChange(m), SyncInv, UNCHANGED tracker
    PROVE  ChangeOK(change', instanceChanges') /\ DeletedOK(change', instanceChanges', tracker')
  <1>1. /\ m = instanceChanges[1] /\ 1 \in DOMAIN instanceChanges
        /\ \A k \in DOMAIN instanceChanges' :
              k \in Nat \ {0} /\ k + 1 \in DOMAIN instanceChanges /\ instanceChanges'[k] = instanceChanges[k + 1]
        /\ \A k \in DOMAIN instanceChanges \ {1} :
              k \in Nat /\ k > 1 /\ k - 1 \in DOMAIN instanceChanges' /\ instanceChanges'[k - 1] = instanceChanges[k]
    BY Removed DEF ReceivesChange, TypeOK
  <1>2. ChangeOK(change, instanceChanges) /\ DeletedOK(change, instanceChanges, tracker)
    BY DEF SyncInv
  <1>3. change' = IF m.awaited THEN NoChange ELSE change
    BY DEF ReceivesChange
  <1>4. NoChange.phase = "none"
    BY DEF NoChange
  <1>5. m.awaited => \A k \in DOMAIN instanceChanges' : ~ instanceChanges'[k].awaited
    <2> SUFFICES ASSUME m.awaited, NEW k \in DOMAIN instanceChanges', instanceChanges'[k].awaited PROVE FALSE
      OBVIOUS
    <2>1. k \in Nat \ {0} /\ k + 1 \in DOMAIN instanceChanges /\ instanceChanges[k + 1].awaited
      BY <1>1
    <2>2. k + 1 = 1
      BY <1>1, <1>2, <2>1 DEF ChangeOK
    <2> QED BY <2>1, <2>2
  <1>6. ChangeOK(change', instanceChanges')
    <2>1. CASE m.awaited
      BY <1>3, <1>4, <1>5, <2>1 DEF ChangeOK
    <2>2. CASE ~ m.awaited
      <3>1. change' = change
        BY <1>3, <2>2
      <3>2. \A k \in DOMAIN instanceChanges' : instanceChanges'[k].awaited =>
                change.phase = "sent" /\ change.instance = instanceChanges'[k].instance
        BY <1>1, <1>2 DEF ChangeOK
      <3>3. ASSUME NEW j \in DOMAIN instanceChanges', NEW k \in DOMAIN instanceChanges',
                   instanceChanges'[j].awaited, instanceChanges'[k].awaited
            PROVE  j = k
        <4>1. j + 1 = k + 1
          BY <1>1, <1>2, <3>3 DEF ChangeOK
        <4> QED BY <1>1, <4>1
      <3>4. change.phase = "sent" => \E k \in DOMAIN instanceChanges' : instanceChanges'[k].awaited
        BY <1>1, <1>2, <2>2 DEF ChangeOK
      <3> QED BY <3>1, <3>2, <3>3, <3>4 DEF ChangeOK
    <2> QED BY <2>1, <2>2
  <1>7. ASSUME NEW k \in DOMAIN instanceChanges', instanceChanges'[k].kind = "InstanceDeleted"
        PROVE  \/ tracker[instanceChanges'[k].instance] = None
               \/ \E j \in DOMAIN instanceChanges' :
                     j > k /\ instanceChanges'[j].instance = instanceChanges'[k].instance
               \/ change' /= NoChange /\ change'.phase /= "sent" /\ change'.instance = instanceChanges'[k].instance
    <2>1. k \in Nat \ {0} /\ k + 1 \in DOMAIN instanceChanges /\ instanceChanges'[k] = instanceChanges[k + 1]
      BY <1>1
    <2>2. \/ tracker[instanceChanges'[k].instance] = None
          \/ \E j \in DOMAIN instanceChanges : j > k + 1 /\ instanceChanges[j].instance = instanceChanges'[k].instance
          \/ change /= NoChange /\ change.phase /= "sent" /\ change.instance = instanceChanges'[k].instance
      BY <1>2, <1>7, <2>1 DEF DeletedOK
    <2>3. CASE \E j \in DOMAIN instanceChanges : j > k + 1 /\ instanceChanges[j].instance = instanceChanges'[k].instance
      <3>1. PICK j \in DOMAIN instanceChanges : j > k + 1 /\ instanceChanges[j].instance = instanceChanges'[k].instance
        BY <2>3
      <3>2. j \in Nat /\ j - 1 \in DOMAIN instanceChanges' /\ instanceChanges'[j - 1] = instanceChanges[j] /\ j - 1 > k
        BY <1>1, <2>1, <3>1
      <3> QED BY <3>1, <3>2
    <2>4. CASE change /= NoChange /\ change.phase /= "sent" /\ change.instance = instanceChanges'[k].instance
      <3>1. ~ m.awaited
        BY <1>1, <1>2, <2>4 DEF ChangeOK
      <3> QED BY <1>3, <2>4, <3>1
    <2> QED BY <2>2, <2>3, <2>4
  <1>8. change' /= NoChange => change' = change
    BY <1>3
  <1> QED BY <1>2, <1>6, <1>7, <1>8 DEF DeletedOK

LEMMA TimedOutChange ==
    ASSUME TypeOK, SyncInv, StepTimesOut
    PROVE  ChangeOK(change', instanceChanges') /\ DeletedOK(change', instanceChanges', tracker')
  <1>1. /\ DOMAIN instanceChanges' = DOMAIN instanceChanges
        /\ \A k \in DOMAIN instanceChanges : /\ instanceChanges'[k].instance = instanceChanges[k].instance
                                             /\ instanceChanges'[k].kind = instanceChanges[k].kind
                                             /\ instanceChanges'[k].awaited = FALSE
    <2>1. \A k \in DOMAIN instanceChanges : instanceChanges[k] \in InstanceChange
      BY Elements DEF TypeOK
    <2> QED BY <2>1 DEF StepTimesOut, InstanceChange
  <1>2. change' = NoChange /\ NoChange.phase = "none" /\ change.phase = "sent" /\ tracker' = tracker
    BY DEF StepTimesOut, NoChange
  <1>3. ChangeOK(change', instanceChanges')
    BY <1>1, <1>2 DEF ChangeOK
  <1>4. DeletedOK(change', instanceChanges', tracker')
    BY <1>1, <1>2 DEF SyncInv, DeletedOK
  <1> QED BY <1>3, <1>4

(* A change of the instance i starts its update steps.                     *)
LEMMA UpdatedChange ==
    ASSUME TypeOK, SyncInv, NEW i \in Instances, NEW value, NEW delay, updates(i, value, delay),
           UNCHANGED instanceChanges
    PROVE  /\ ChangeOK(change', instanceChanges') /\ DeletedOK(change', instanceChanges', tracker')
           /\ change = NoChange /\ change' /= NoChange /\ change'.instance = i
           /\ \A j \in Instances : j /= i => tracker'[j] = tracker[j]
  <1>1. /\ change = NoChange /\ NoChange.phase = "none"
        /\ change'.phase \in {"queue", "rate"} /\ change'.instance = i /\ change' /= NoChange
        /\ change'.kind = "InstanceDeleted" => value = None
    BY DEF updates, NoChange
  <1>2. tracker'[i] = value /\ \A j \in Instances : j /= i => tracker'[j] = tracker[j]
    BY DEF updates, TypeOK
  <1>3. ChangeOK(change', instanceChanges')
    BY <1>1 DEF SyncInv, ChangeOK
  <1>4. ASSUME NEW k \in DOMAIN instanceChanges, instanceChanges[k].kind = "InstanceDeleted"
        PROVE  \/ tracker'[instanceChanges[k].instance] = None
               \/ \E j \in DOMAIN instanceChanges : j > k /\ instanceChanges[j].instance = instanceChanges[k].instance
               \/ change' /= NoChange /\ change'.phase /= "sent" /\ change'.instance = instanceChanges[k].instance
    <2>1. CASE instanceChanges[k].instance = i
      BY <1>1, <2>1
    <2>2. CASE instanceChanges[k].instance /= i
      <3>1. instanceChanges[k].instance \in Instances
        <4>1. instanceChanges[k] \in InstanceChange
          BY Elements DEF TypeOK
        <4> QED BY <4>1 DEF InstanceChange
      <3> QED BY <1>1, <1>2, <1>4, <2>2, <3>1 DEF SyncInv, DeletedOK
    <2> QED BY <2>1, <2>2
  <1>5. DeletedOK(change', instanceChanges', tracker')
    BY <1>1, <1>2, <1>4 DEF DeletedOK
  <1> QED BY <1>1, <1>2, <1>3, <1>5

LEMMA Asked ==
    ASSUME NEW i \in Instances, syncInstance(i)
    PROVE  QueryOK' /\ LooksAgain(i)'
  BY DEF syncInstance, ask, QueryOK, LooksAgain, NoQuery, isLoading

-----------------------------------------------------------------------------
(* The view follows the tracker.                                           *)

LEMMA FollowKept ==
    ASSUME NEW i \in Instances, Follows(i), LooksAgain(i) => LooksAgain(i)',
           instanceMap'[i] = instanceMap[i], tracker'[i] = tracker[i],
           \A op \in ops : op.phase = "matched" /\ op.instance = i => op \in ops'
    PROVE  Follows(i)'
  BY DEF Follows

(* What a message that is not about instances leaves alone.                *)
ViewKept ==
    /\ UNCHANGED <<query, change, instanceChanges, instanceMap, tracker, ops>>
    /\ \A i \in Instances : [kind |-> "Rejected", instance |-> i] \in mailbox
                              => [kind |-> "Rejected", instance |-> i] \in mailbox'

LEMMA KeptView ==
    ASSUME SyncInv, FollowsOK, ViewKept
    PROVE  SyncInv' /\ FollowsOK'
  <1>1. SyncInv'
    BY DEF ViewKept, SyncInv, QueryOK, isLoading
  <1>2. ASSUME NEW i \in Instances PROVE Follows(i)'
    BY FollowKept DEF ViewKept, FollowsOK, LooksAgain
  <1> QED BY <1>1, <1>2 DEF FollowsOK

LEMMA InitView ==
    ASSUME Init
    PROVE  SyncInv /\ FollowsOK
  BY DEF Init, SyncInv, QueryOK, isLoading, ask, ChangeOK, DeletedOK, NoChange, FollowsOK, Follows, LooksAgain, NoQuery

LEMMA LoadedView ==
    ASSUME SyncInv, ReceiveLoadedInstances
    PROVE  SyncInv' /\ FollowsOK'
  <1>1. /\ query' = NoQuery /\ instanceMap' = tracker /\ UNCHANGED <<tracker, change, instanceChanges>>
    BY DEF ReceiveLoadedInstances, outside, inbox
  <1> QED BY <1>1 DEF SyncInv, QueryOK, FollowsOK, Follows

LEMMA SynchronizedView ==
    ASSUME TypeOK, SyncInv, FollowsOK, ReceiveSynchronizedInstance
    PROVE  SyncInv' /\ FollowsOK'
  <1>1. PICK i \in query.of :
          \/ /\ tracker[i] = None
             /\ removeInstanceFromInternalState(i)
          \/ /\ tracker[i] /= None
             /\ instanceMap' = [instanceMap EXCEPT ![i] = tracker[i]]
    BY DEF ReceiveSynchronizedInstance
  <1>2. i \in Instances /\ query.of = {i}
    BY Queries DEF ReceiveSynchronizedInstance, SyncInv, QueryOK, NoQuery, isLoading, active
  <1>3. instanceMap' = [instanceMap EXCEPT ![i] = tracker[i]]
    BY <1>1 DEF removeInstanceFromInternalState
  <1>4. query' = NoQuery /\ UNCHANGED <<tracker, change, instanceChanges, mailbox, ops>>
    BY DEF ReceiveSynchronizedInstance, outside, inbox
  <1>5. SyncInv'
    BY <1>4 DEF SyncInv, QueryOK
  <1>6. ASSUME NEW j \in Instances PROVE Follows(j)'
    <2>1. CASE j = i
      BY <1>2, <1>3, <1>4, <2>1 DEF Follows, TypeOK
    <2>2. CASE j /= i
      <3>1. instanceMap'[j] = instanceMap[j]
        BY <1>3, <2>2 DEF TypeOK
      <3>2. LooksAgain(j) => LooksAgain(j)'
        BY <1>2, <1>4, <2>2 DEF LooksAgain
      <3> QED BY <1>4, <3>1, <3>2, FollowKept DEF FollowsOK
    <2> QED BY <2>1, <2>2
  <1> QED BY <1>5, <1>6 DEF FollowsOK

LEMMA RejectedView ==
    ASSUME TypeOK, SyncInv, FollowsOK, NEW m \in mailbox, Receives(m), m.instance \in Instances,
           syncInstance(m.instance), UNCHANGED <<change, instanceChanges, instanceMap, tracker, ops>>
    PROVE  SyncInv' /\ FollowsOK'
  <1>1. query = NoQuery /\ mailbox' = mailbox \ {m}
    BY DEF Receives, active
  <1>2. QueryOK' /\ LooksAgain(m.instance)'
    BY Asked
  <1>3. SyncInv'
    BY <1>2 DEF SyncInv
  <1>4. ASSUME NEW j \in Instances PROVE Follows(j)'
    <2>1. CASE j = m.instance
      BY <1>2, <2>1 DEF Follows
    <2>2. CASE j /= m.instance
      <3>1. [kind |-> "Rejected", instance |-> j] /= m
        BY <2>2
      <3>2. LooksAgain(j) => LooksAgain(j)'
        BY <1>1, <3>1 DEF LooksAgain
      <3> QED BY <3>2, FollowKept DEF FollowsOK
    <2> QED BY <2>1, <2>2
  <1> QED BY <1>3, <1>4 DEF FollowsOK

(* The messages that go on are about other instances.                      *)
LEMMA ReceivedLooks ==
    ASSUME TypeOK, SyncInv, NEW m, ReceivesChange(m), NEW j \in Instances, j /= m.instance,
           LooksAgain(j), UNCHANGED mailbox
    PROVE  LooksAgain(j)'
  <1>1. query = NoQuery /\ change' = IF m.awaited THEN NoChange ELSE change
    BY DEF ReceivesChange, active
  <1>2. /\ m = instanceChanges[1] /\ 1 \in DOMAIN instanceChanges
        /\ \A k \in DOMAIN instanceChanges \ {1} :
              k \in Nat /\ k > 1 /\ k - 1 \in DOMAIN instanceChanges' /\ instanceChanges'[k - 1] = instanceChanges[k]
    BY Removed DEF ReceivesChange, TypeOK
  <1>3. CASE change /= NoChange /\ change.instance = j
    <2>1. ~ m.awaited
      BY <1>2, <1>3 DEF SyncInv, ChangeOK
    <2> QED BY <1>1, <1>3, <2>1 DEF LooksAgain
  <1>4. CASE \E k \in DOMAIN instanceChanges : instanceChanges[k].instance = j
    <2>1. PICK k \in DOMAIN instanceChanges : instanceChanges[k].instance = j
      BY <1>4
    <2>2. k - 1 \in DOMAIN instanceChanges' /\ instanceChanges'[k - 1].instance = j
      BY <1>2, <2>1
    <2> QED BY <2>2 DEF LooksAgain
  <1>5. CASE [kind |-> "Rejected", instance |-> j] \in mailbox
    BY <1>5 DEF LooksAgain
  <1> QED BY <1>1, <1>3, <1>4, <1>5 DEF LooksAgain

LEMMA UpdatedView ==
    ASSUME TypeOK, SyncInv, FollowsOK, NEW m \in InstanceChange, ReceiveInstanceUpdated(m)
    PROVE  SyncInv' /\ FollowsOK'
  <1>1. m.instance \in Instances
    BY DEF InstanceChange
  <1>2. ReceivesChange(m) /\ syncInstance(m.instance) /\ UNCHANGED <<instanceMap, tracker, mailbox, ops>>
    BY DEF ReceiveInstanceUpdated
  <1>3. QueryOK' /\ LooksAgain(m.instance)'
    BY <1>1, <1>2, Asked
  <1>4. SyncInv'
    BY <1>2, <1>3, ReceivedChange DEF SyncInv
  <1>5. ASSUME NEW j \in Instances PROVE Follows(j)'
    <2>1. CASE j = m.instance
      BY <1>3, <2>1 DEF Follows
    <2>2. CASE j /= m.instance
      BY <1>2, <2>2, ReceivedLooks, FollowKept DEF FollowsOK
    <2> QED BY <2>1, <2>2
  <1> QED BY <1>4, <1>5 DEF FollowsOK

LEMMA DeletedView ==
    ASSUME TypeOK, SyncInv, FollowsOK, NEW m \in InstanceChange, ReceiveInstanceDeleted(m)
    PROVE  SyncInv' /\ FollowsOK'
  <1>1. m.instance \in Instances
    BY DEF InstanceChange
  <1>2. /\ ReceivesChange(m) /\ m.kind = "InstanceDeleted" /\ removeInstanceFromInternalState(m.instance)
        /\ UNCHANGED <<query, tracker, mailbox, ops>>
    BY DEF ReceiveInstanceDeleted
  <1>3. SyncInv'
    BY <1>2, ReceivedChange DEF SyncInv, QueryOK, isLoading
  <1>4. instanceMap' = [instanceMap EXCEPT ![m.instance] = None]
    BY <1>2 DEF removeInstanceFromInternalState
  <1>5. Follows(m.instance)'
    <2>1. /\ m = instanceChanges[1] /\ 1 \in DOMAIN instanceChanges
          /\ \A k \in DOMAIN instanceChanges \ {1} :
                k \in Nat /\ k > 1 /\ k - 1 \in DOMAIN instanceChanges' /\ instanceChanges'[k - 1] = instanceChanges[k]
      BY <1>2, Removed DEF ReceivesChange, TypeOK
    <2>2. \/ tracker[m.instance] = None
          \/ \E j \in DOMAIN instanceChanges : j > 1 /\ instanceChanges[j].instance = m.instance
          \/ change /= NoChange /\ change.phase /= "sent" /\ change.instance = m.instance
      BY <1>2, <2>1 DEF SyncInv, DeletedOK
    <2>3. CASE tracker[m.instance] = None
      BY <1>1, <1>2, <1>4, <2>3 DEF Follows, TypeOK
    <2>4. CASE \E j \in DOMAIN instanceChanges : j > 1 /\ instanceChanges[j].instance = m.instance
      <3>1. PICK j \in DOMAIN instanceChanges : j > 1 /\ instanceChanges[j].instance = m.instance
        BY <2>4
      <3>2. j - 1 \in DOMAIN instanceChanges' /\ instanceChanges'[j - 1].instance = m.instance
        BY <2>1, <3>1
      <3> QED BY <3>2 DEF Follows, LooksAgain
    <2>5. CASE change /= NoChange /\ change.phase /= "sent" /\ change.instance = m.instance
      <3>1. ~ m.awaited
        BY <2>1, <2>5 DEF SyncInv, ChangeOK
      <3>2. change' = change
        BY <1>2, <3>1 DEF ReceivesChange
      <3> QED BY <2>5, <3>2 DEF Follows, LooksAgain
    <2> QED BY <2>2, <2>3, <2>4, <2>5
  <1>6. ASSUME NEW j \in Instances, j /= m.instance PROVE Follows(j)'
    <2>1. instanceMap'[j] = instanceMap[j]
      BY <1>4, <1>6 DEF TypeOK
    <2> QED BY <1>2, <1>6, <2>1, ReceivedLooks, FollowKept DEF FollowsOK
  <1> QED BY <1>3, <1>5, <1>6 DEF FollowsOK

LEMMA MatchView ==
    ASSUME TypeOK, SyncInv, FollowsOK, NEW i \in Instances, MatchOffer(i)
    PROVE  SyncInv' /\ FollowsOK'
  <1>1. /\ UNCHANGED <<query, change, instanceChanges, tracker, mailbox>>
        /\ ops' = ops \cup {[instance |-> i, ref |-> instanceMap[i].ref, phase |-> "matched"]}
    BY DEF MatchOffer, outside, inbox
  <1>2. SyncInv'
    BY <1>1 DEF SyncInv, QueryOK, isLoading
  <1>3. instanceMap[i] \in Value /\ instanceMap[i] /= None
    BY DEF MatchOffer, TypeOK, isScheduled, is
  <1>4. instanceMap' = [instanceMap EXCEPT ![i] = [instanceMap[i] EXCEPT !.cond = "provisioned"]]
    BY DEF MatchOffer, TypeOK
  <1>5. Follows(i)'
    <2>1. instanceMap'[i].cond = "provisioned"
      BY <1>3, <1>4, Values DEF TypeOK, Conditions
    <2>2. [instance |-> i, ref |-> instanceMap[i].ref, phase |-> "matched"] \in ops'
      BY <1>1
    <2>3. instanceMap'[i] = None => Follows(i)'
      <3> SUFFICES ASSUME instanceMap'[i] = None PROVE FALSE
        OBVIOUS
      <3>1. [instanceMap[i] EXCEPT !.cond = "provisioned"] \in [cond : Conditions, ref : Refs]
        BY <1>3 DEF Value, Conditions
      <3> QED BY <1>4, <3>1, TaskLauncherAssumption DEF TaskLauncherAssumption, TypeOK
    <2> QED BY <2>1, <2>2, <2>3 DEF Follows, is
  <1>6. ASSUME NEW j \in Instances, j /= i PROVE Follows(j)'
    <2>1. instanceMap'[j] = instanceMap[j]
      BY <1>4, <1>6 DEF TypeOK
    <2>2. LooksAgain(j) => LooksAgain(j)'
      BY <1>1 DEF LooksAgain
    <2> QED BY <1>1, <2>1, <2>2, FollowKept DEF FollowsOK
  <1> QED BY <1>2, <1>5, <1>6 DEF FollowsOK

LEMMA NotifyRateLimiterView ==
    ASSUME TypeOK, SyncInv, FollowsOK, NotifyRateLimiter
    PROVE  SyncInv' /\ FollowsOK'
  <1>1. /\ change.phase = "rate" /\ change' = [change EXCEPT !.phase = "queue"]
        /\ UNCHANGED <<query, instanceChanges, instanceMap, tracker, mailbox, ops>>
    BY DEF NotifyRateLimiter, view, inbox
  <1>2. change /= NoChange /\ change' /= NoChange
    BY <1>1, Changes DEF TypeOK, NoChange
  <1>3. change'.phase = "queue" /\ change'.instance = change.instance /\ change'.kind = change.kind
    BY <1>1, <1>2 DEF TypeOK
  <1>4. ChangeOK(change', instanceChanges')
    BY <1>1, <1>3 DEF SyncInv, ChangeOK
  <1>5. DeletedOK(change', instanceChanges', tracker')
    BY <1>1, <1>2, <1>3 DEF SyncInv, DeletedOK
  <1>6. QueryOK'
    BY <1>1 DEF SyncInv, QueryOK, isLoading
  <1>7. ASSUME NEW i \in Instances PROVE Follows(i)'
    BY <1>1, <1>2, <1>3, FollowKept DEF FollowsOK, LooksAgain
  <1> QED BY <1>4, <1>5, <1>6, <1>7 DEF SyncInv, FollowsOK

LEMMA NotifyLaunchQueueView ==
    ASSUME TypeOK, SyncInv, FollowsOK, NotifyLaunchQueue
    PROVE  SyncInv' /\ FollowsOK'
  <1> DEFINE m == [kind |-> change.kind, instance |-> change.instance, awaited |-> TRUE]
  <1>1. /\ change.phase = "queue" /\ change' = [change EXCEPT !.phase = "sent"]
        /\ instanceChanges' = Append(instanceChanges, m)
        /\ UNCHANGED <<query, instanceMap, tracker, mailbox, ops>>
    BY DEF NotifyLaunchQueue, view
  <1>2. change /= NoChange /\ change' /= NoChange
    BY <1>1, Changes DEF TypeOK, NoChange
  <1>3. m \in InstanceChange /\ m.kind = change.kind /\ m.instance = change.instance /\ m.awaited = TRUE
    BY <1>2, Changes DEF InstanceChange
  <1> HIDE DEF m
  <1>4. ChangeOK(change', instanceChanges') /\ DeletedOK(change', instanceChanges', tracker')
    BY <1>1, <1>3, SentChange DEF SyncInv, TypeOK
  <1>5. QueryOK'
    BY <1>1 DEF SyncInv, QueryOK, isLoading
  <1>6. change'.instance = change.instance
    BY <1>1, <1>2 DEF TypeOK
  <1>7. \A k \in DOMAIN instanceChanges : k \in DOMAIN instanceChanges' /\ instanceChanges'[k] = instanceChanges[k]
    BY <1>1, <1>3, Appended DEF TypeOK
  <1>8. ASSUME NEW i \in Instances PROVE Follows(i)'
    <2>1. LooksAgain(i) => LooksAgain(i)'
      BY <1>1, <1>2, <1>6, <1>7 DEF LooksAgain
    <2> QED BY <1>1, <2>1, FollowKept DEF FollowsOK
  <1> QED BY <1>4, <1>5, <1>8 DEF SyncInv, FollowsOK

LEMMA TimedOutView ==
    ASSUME TypeOK, SyncInv, FollowsOK, StepTimesOut
    PROVE  SyncInv' /\ FollowsOK'
  <1>1. /\ change.phase = "sent"
        /\ UNCHANGED <<query, instanceMap, tracker, mailbox, ops>>
    BY DEF StepTimesOut, view
  <1>2. QueryOK'
    BY <1>1 DEF SyncInv, QueryOK, isLoading
  <1>3. /\ DOMAIN instanceChanges' = DOMAIN instanceChanges
        /\ \A k \in DOMAIN instanceChanges : instanceChanges'[k].instance = instanceChanges[k].instance
    <2>1. \A k \in DOMAIN instanceChanges : instanceChanges[k] \in InstanceChange
      BY Elements DEF TypeOK
    <2> QED BY <2>1 DEF StepTimesOut, InstanceChange
  <1>4. \E k \in DOMAIN instanceChanges : instanceChanges[k].instance = change.instance
    BY <1>1 DEF SyncInv, ChangeOK
  <1>5. ASSUME NEW i \in Instances PROVE Follows(i)'
    <2>1. LooksAgain(i) => LooksAgain(i)'
      BY <1>1, <1>3, <1>4 DEF LooksAgain
    <2> QED BY <1>1, <2>1, FollowKept DEF FollowsOK
  <1> QED BY <1>2, <1>5, TimedOutChange DEF SyncInv, FollowsOK

LEMMA FailedQueryView ==
    ASSUME TypeOK, SyncInv, FollowsOK, FailQuery
    PROVE  SyncInv' /\ FollowsOK'
  <1>1. /\ query' = [query EXCEPT !.failed = TRUE] /\ query.kind = "syncing"
        /\ UNCHANGED <<instanceMap, change, instanceChanges, tracker, mailbox, ops>>
    BY DEF FailQuery, outside, inbox
  <1>2. query \in [kind : {"loading", "syncing"}, of : SUBSET Instances, failed : BOOLEAN]
    BY <1>1 DEF TypeOK, NoQuery
  <1>3. query'.kind = query.kind /\ query'.of = query.of /\ query' /= NoQuery
    BY <1>1, <1>2 DEF NoQuery
  <1>4. SyncInv'
    BY <1>1, <1>3 DEF SyncInv, QueryOK, isLoading, NoQuery
  <1>5. ASSUME NEW i \in Instances PROVE Follows(i)'
    <2>1. LooksAgain(i) => LooksAgain(i)'
      BY <1>1, <1>3 DEF LooksAgain
    <2> QED BY <1>1, <2>1, FollowKept DEF FollowsOK
  <1> QED BY <1>4, <1>5 DEF FollowsOK

(* A change of the tracker is on its way to the launcher.  What has been   *)
(* matched of other instances still is.                                    *)
LEMMA ChangedView ==
    ASSUME TypeOK, SyncInv, FollowsOK, NEW i \in Instances, NEW value, NEW delay, updates(i, value, delay),
           UNCHANGED <<query, instanceChanges, instanceMap, mailbox>>,
           \A op \in ops : op.phase = "matched" /\ op.instance /= i => op \in ops'
    PROVE  SyncInv' /\ FollowsOK'
  <1>1. /\ ChangeOK(change', instanceChanges') /\ DeletedOK(change', instanceChanges', tracker')
        /\ change = NoChange /\ change' /= NoChange /\ change'.instance = i
        /\ \A j \in Instances : j /= i => tracker'[j] = tracker[j]
    BY UpdatedChange
  <1>2. SyncInv'
    BY <1>1 DEF SyncInv, QueryOK, isLoading
  <1>3. ASSUME NEW j \in Instances PROVE Follows(j)'
    <2>1. CASE j = i
      BY <1>1, <2>1 DEF Follows, LooksAgain
    <2>2. CASE j /= i
      <3>1. LooksAgain(j) => LooksAgain(j)'
        BY <1>1 DEF LooksAgain
      <3> QED BY <1>1, <2>2, <3>1, FollowKept DEF FollowsOK
    <2> QED BY <2>1, <2>2
  <1> QED BY <1>2, <1>3 DEF FollowsOK

(* An operation is over or is no longer merely matched: the launcher hears *)
(* of it.                                                                  *)
LEMMA RejectedOpView ==
    ASSUME TypeOK, SyncInv, FollowsOK, NEW op \in ops, reject(op),
           UNCHANGED <<query, change, instanceChanges, instanceMap, tracker>>,
           \A o \in ops : o /= op => o \in ops'
    PROVE  SyncInv' /\ FollowsOK'
  <1>1. SyncInv'
    BY DEF SyncInv, QueryOK, isLoading
  <1>2. /\ [kind |-> "Rejected", instance |-> op.instance] \in mailbox' /\ mailbox \subseteq mailbox'
    BY DEF reject, send
  <1>3. ASSUME NEW j \in Instances PROVE Follows(j)'
    <2>1. CASE j = op.instance
      BY <1>2, <2>1 DEF Follows, LooksAgain
    <2>2. CASE j /= op.instance
      <3>1. LooksAgain(j) => LooksAgain(j)'
        BY <1>2 DEF LooksAgain
      <3> QED BY <2>2, <3>1, FollowKept DEF FollowsOK
    <2> QED BY <2>1, <2>2
  <1> QED BY <1>1, <1>3 DEF FollowsOK

LEMMA OfferProcessorView ==
    ASSUME TypeOK, SyncInv, FollowsOK, OfferProcessor
    PROVE  SyncInv' /\ FollowsOK'
  <1>1. PICK op \in ops : \/ RejectOp(op) \/ SaveOp(op) \/ FailSave(op) \/ RevertOp(op)
                          \/ AcceptOp(op) \/ DriverGone(op)
    BY DEF OfferProcessor
  <1>2. op.instance \in Instances
    BY DEF TypeOK, Op
  <1>3. CASE RejectOp(op) \/ FailSave(op) \/ DriverGone(op)
    <2>1. /\ reject(op) /\ UNCHANGED <<query, change, instanceChanges, instanceMap, tracker>>
          /\ \A o \in ops : o /= op => o \in ops'
      BY <1>3 DEF RejectOp, FailSave, DriverGone, move, view, outside
    <2> QED BY <2>1, RejectedOpView
  <1>4. CASE SaveOp(op) \/ RevertOp(op)
    <2>1. \E value : updates(op.instance, value, "none")
      BY <1>4 DEF SaveOp, RevertOp
    <2>2. UNCHANGED <<query, instanceChanges, instanceMap, mailbox>>
      BY <1>4 DEF SaveOp, RevertOp, view, inbox
    <2>3. \A o \in ops : o /= op => o \in ops'
      BY <1>4 DEF SaveOp, RevertOp, move
    <2> QED BY <1>2, <2>1, <2>2, <2>3, ChangedView
  <1>5. CASE AcceptOp(op)
    <2>1. op.phase = "saving" /\ ops' = ops \ {op} /\ mailbox \subseteq mailbox'
      BY <1>5 DEF AcceptOp, isSaved, send
    <2>2. UNCHANGED <<query, change, instanceChanges, instanceMap, tracker>>
      BY <1>5 DEF AcceptOp, view
    <2>3. SyncInv'
      BY <2>2 DEF SyncInv, QueryOK, isLoading
    <2>4. ASSUME NEW j \in Instances PROVE Follows(j)'
      <3>1. LooksAgain(j) => LooksAgain(j)'
        BY <2>1, <2>2 DEF LooksAgain
      <3> QED BY <2>1, <2>2, <3>1, FollowKept DEF FollowsOK
    <2> QED BY <2>3, <2>4 DEF FollowsOK
  <1> QED BY <1>1, <1>3, <1>4, <1>5

LEMMA ViewStep ==
    ASSUME TypeOK, SyncInv, FollowsOK, [Next]_vars
    PROVE  SyncInv' /\ FollowsOK'
  <1> USE DEF ViewKept
  <1>1. CASE UNCHANGED vars
    BY <1>1, KeptView DEF vars, view, outside, inbox
  <1>2. CASE Launcher
    <2>1. ASSUME ReceiveDelayUpdate PROVE SyncInv' /\ FollowsOK'
      BY <2>1, KeptView DEF ReceiveDelayUpdate, inbox, outside
    <2>2. ASSUME NEW k \in DOMAIN instanceChanges,
                 ReceiveInstanceUpdated(instanceChanges[k]) \/ ReceiveInstanceDeleted(instanceChanges[k])
          PROVE  SyncInv' /\ FollowsOK'
      <3>1. instanceChanges[k] \in InstanceChange
        BY Elements DEF TypeOK
      <3> QED BY <2>2, <3>1, UpdatedView, DeletedView
    <2>3. ASSUME NEW m \in mailbox, ReceiveRecheck(m) PROVE SyncInv' /\ FollowsOK'
      BY <2>3, KeptView DEF ReceiveRecheck, Receives, outside
    <2>4. ASSUME NEW m \in mailbox, ReceiveAccepted(m) PROVE SyncInv' /\ FollowsOK'
      BY <2>4, KeptView DEF ReceiveAccepted, Receives, outside
    <2>5. ASSUME NEW m \in mailbox, ReceiveRejected(m) PROVE SyncInv' /\ FollowsOK'
      <3>1. m.instance \in Instances
        BY <2>5, Messages DEF ReceiveRejected, TypeOK
      <3> QED BY <2>5, <3>1, RejectedView DEF ReceiveRejected, outside
    <2>6. ASSUME NEW m \in mailbox, ReceiveRejectedTimeout(m) PROVE SyncInv' /\ FollowsOK'
      <3>1. m.instance \in Instances
        BY <2>6, Messages DEF ReceiveRejectedTimeout, TypeOK
      <3>2. CASE syncInstance(m.instance)
        BY <2>6, <3>1, <3>2, RejectedView DEF ReceiveRejectedTimeout, outside
      <3>3. CASE UNCHANGED query
        BY <2>6, <3>3, KeptView DEF ReceiveRejectedTimeout, Receives, outside
      <3> QED BY <2>6, <3>2, <3>3 DEF ReceiveRejectedTimeout
    <2> QED BY <1>2, <2>1, <2>2, <2>3, <2>4, <2>5, <2>6, LoadedView, SynchronizedView DEF Launcher
  <1>3. CASE Services
    <2>1. ASSUME NEW r \in Refs, GetDelay(r) PROVE SyncInv' /\ FollowsOK'
      BY <2>1, KeptView DEF GetDelay, view, outside, inbox
    <2> QED BY <1>3, <2>1, NotifyRateLimiterView, NotifyLaunchQueueView DEF Services
  <1>4. CASE Time
    <2>1. ASSUME NEW d \in Deadline \ {0}, DeadlinePasses(d) PROVE SyncInv' /\ FollowsOK'
      BY <2>1, KeptView DEF DeadlinePasses, send, outside
    <2>2. ASSUME NEW r \in Refs, CleanupOverdueDelays(r) PROVE SyncInv' /\ FollowsOK'
      BY <2>2, KeptView DEF CleanupOverdueDelays, view, outside, inbox
    <2>3. ASSUME NEW i \in Instances, TaskOpTimeout(i) PROVE SyncInv' /\ FollowsOK'
      BY <2>3, KeptView DEF TaskOpTimeout, send, outside
    <2> QED BY <1>4, <2>1, <2>2, <2>3 DEF Time
  <1>5. CASE OfferProcessor
    BY <1>5, OfferProcessorView
  <1>6. CASE Environment
    <2>1. ASSUME NEW i \in Instances, TaskRuns(i) PROVE SyncInv' /\ FollowsOK'
      BY <2>1, ChangedView DEF TaskRuns, fromOutside, view, inbox
    <2>2. ASSUME NEW i \in Instances, TaskFails(i) PROVE SyncInv' /\ FollowsOK'
      BY <2>2, ChangedView DEF TaskFails, fromOutside, view, inbox
    <2>3. ASSUME NEW i \in Instances, Expunge(i) PROVE SyncInv' /\ FollowsOK'
      BY <2>3, ChangedView DEF Expunge, fromOutside, view, inbox
    <2>4. ASSUME NEW i \in Instances, NEW r \in Refs, Schedule(i, r) PROVE SyncInv' /\ FollowsOK'
      BY <2>4, ChangedView DEF Schedule, fromOutside, view, inbox
    <2>5. ASSUME NEW r \in Refs, ResetDelay(r) PROVE SyncInv' /\ FollowsOK'
      BY <2>5, KeptView DEF ResetDelay, view, outside, inbox
    <2> QED BY <1>6, <2>1, <2>2, <2>3, <2>4, <2>5, MatchView, FailedQueryView, TimedOutView DEF Environment
  <1> QED BY <1>1, <1>2, <1>3, <1>4, <1>5, <1>6 DEF Next

LEMMA ViewInvariant == Spec => []ViewInv
  <1>1. Init => ViewInv
    BY InitType, InitView, TaskLauncherAssumption DEF ViewInv
  <1>2. ViewInv /\ [Next]_vars => ViewInv'
    BY TypeStep, ViewStep, TaskLauncherAssumption DEF ViewInv
  <1> QED BY <1>1, <1>2, PTL DEF Spec

(* Once nothing about an instance is on its way the launcher knows it as   *)
(* the tracker does, or has used it for an operation that goes on.         *)
THEOREM FollowsCorrect == Spec => []ViewFollowsTracker
  <1>1. ViewInv => ViewFollowsTracker
    BY DEF ViewInv, FollowsOK, Follows, ViewFollowsTracker
  <1> QED BY <1>1, ViewInvariant, PTL

(* When everything has settled the launcher is registered if and only if   *)
(* an instance waits for its launch, unless it did not listen to a change  *)
(* of the delay of its version.                                            *)
THEOREM NoneForgottenCorrect == Spec => []NoneForgotten
  <1>1. ASSUME TypeOK, DelayInv, ViewInv, Settled
        PROVE  /\ registeredAsMatcher => \E i \in Instances : isScheduled(tracker[i])
               /\ \A i \in Instances :
                     isScheduled(tracker[i]) /\ tracker[i].ref \notin unheard => registeredAsMatcher
    <2>1. /\ query = NoQuery /\ instanceChanges = <<>> /\ mailbox = {} /\ delayUpdates = <<>> /\ getDelay = {}
          /\ change = NoChange /\ ops = {}
          /\ \A r \in Refs : launchAllowedAt[r] \in {0, None} /\ taskLaunchDelays[r] = None
      BY <1>1 DEF Settled, active, inUse
    <2>2. \A i \in Instances : instanceMap[i] = tracker[i]
      BY <1>1, <2>1 DEF ViewInv, FollowsOK, Follows, LooksAgain
    <2>3. ~ isLoading /\ \A r : ~ Mentions(delayUpdates, r)
      BY <2>1 DEF NoQuery, isLoading, Mentions
    <2>4. instanceMap \in [Instances -> Value]
      BY <1>1 DEF TypeOK
    <2>5. registeredAsMatcher => \E i \in Instances : isScheduled(tracker[i])
      BY <1>1, <2>2, <2>4, VersionsType DEF DelayInv, UsefulOK, shouldLaunchInstances
    <2>6. ASSUME NEW i \in Instances, isScheduled(tracker[i]), tracker[i].ref \notin unheard
          PROVE  registeredAsMatcher
      <3>1. tracker[i].ref \in scheduledVersions(instanceMap) /\ tracker[i].ref \in Refs
        BY <2>2, <2>4, <2>6, VersionsType
      <3>2. launchAllowedAt[tracker[i].ref] = 0
        BY <1>1, <2>1, <2>3, <3>1 DEF DelayInv, KnownOK
      <3> QED BY <1>1, <2>1, <2>3, <2>6, <3>1, <3>2 DEF DelayInv, RegisteredOK
    <2> QED BY <2>5, <2>6
  <1>2. TypeOK /\ DelayInv /\ ViewInv => NoneForgotten
    BY <1>1 DEF NoneForgotten
  <1> QED BY <1>2, DelaysInvariant, ViewInvariant, PTL
=============================================================================
