---------------------- MODULE DeploymentsConflictProofs ----------------------
(* Proofs about Deployments, continued: a running deployment is never      *)
(* forgotten, and of two plans in conflict the manager never takes both    *)
(* for deploying.  Both are about what leads a scheduled plan on, and      *)
(* about what a forced plan remembers of its conflicts.                    *)
EXTENDS DeploymentsProofs

messages == {mailbox[i] : i \in DOMAIN mailbox}
carriers == messages \cup operations

(* The status that was seen is not ahead of the plan: a plan that has      *)
(* begun is not scheduled again, one that is cancelled does not deploy.    *)
SeenRight(c) ==
    \A q \in Plans :
        /\ c.seen[q] /= "None" => q \in submitted
        /\ c.seen[q] \in {"Deploying", "Canceling"} => runningDeployments[q] /= "Scheduled"
        /\ c.seen[q] = "Canceling" => runningDeployments[q] /= "Deploying"

SeenOK == \A c \in carriers : SeenRight(c)

(* Nothing has been done for the plan yet.                                 *)
Fresh(p) ==
    /\ runningDeployments[p] = "None" /\ actor[p] = "none"
    /\ \A c \in carriers : c.seen[p] = "None"
    /\ \A o \in operations : o.for /= p
    /\ \A w \in waiting : w.plan /= p

(* A plan is started once, and nobody else speaks of it before.            *)
StartsOnce ==
    \A i, j \in DOMAIN mailbox :
        mailbox[i].type = "StartDeployment" /\ mailbox[j].plan = mailbox[i].plan => j = i

FreshOK == StartsOnce /\ \A m \in messages : m.type = "StartDeployment" => Fresh(m.plan)

(* The plan p will not be launched before it has taken q down: whatever    *)
(* leads p on is still the deletion of its conflicts, of which q is one.   *)
Overriding(p, q) ==
    /\ runningDeployments[p] = "Scheduled"
    /\ \A o \in operations : o.for = p /\ o.type /= "forget" => o.type = "delete" /\ o.seen[q] /= "None"
    /\ \A m \in messages :
          m.plan = p /\ m.type \in {"CancelDeletedConflicts", "WaitForCanceledConflicts", "LaunchDeployment"}
          => m.type = "CancelDeletedConflicts" /\ m.seen[q] /= "None"
    /\ \A w \in waiting : w.plan /= p

GoesAhead(p) == runningDeployments[p] \in {"Scheduled", "Deploying"}

(* Of two plans in conflict that both go ahead one will take the other     *)
(* down first.                                                             *)
OverridingOK ==
    \A p, q \in Plans :
        p /= q /\ intersects(p, q) /\ GoesAhead(p) /\ GoesAhead(q) => Overriding(p, q) \/ Overriding(q, p)

(* RunningGoesOn for one plan.                                             *)
GoesOn(p) ==
    /\ runningDeployments[p] = "Scheduled" =>
          \/ \E o \in operations : o.type /= "forget" /\ o.for = p
          \/ \E m \in messages : /\ m.plan = p
                                 /\ m.type \in {"CancelDeletedConflicts", "WaitForCanceledConflicts",
                                                "LaunchDeployment", "FailedRepositoryOperation"}
          \/ \E w \in waiting : w.plan = p
    /\ runningDeployments[p] = "Deploying" =>
          \/ actor[p] = "deploying" \/ p \in died
          \/ \E m \in messages : m.plan = p /\ m.type = "DeploymentFinished"
    /\ runningDeployments[p] = "Canceling" =>
          \/ actor[p] = "canceled" \/ p \in died
          \/ \E m \in messages : m.plan = p /\ m.type = "DeploymentFinished"

ConflictInv == SeenOK /\ FreshOK /\ OverridingOK /\ \A p \in Plans : GoesOn(p)

-----------------------------------------------------------------------------
(* Messages as a set.                                                      *)
LEMMA MessagesSent ==
    ASSUME mailbox \in Seq(Message), NEW m \in Message, mailbox' = Append(mailbox, m)
    PROVE  messages' = messages \cup {m}
<1>1. /\ \A i \in DOMAIN mailbox' : mailbox'[i] = m \/ \E j \in DOMAIN mailbox : mailbox'[i] = mailbox[j]
      /\ \A j \in DOMAIN mailbox : j \in DOMAIN mailbox' /\ mailbox'[j] = mailbox[j]
      /\ \E i \in DOMAIN mailbox' : mailbox'[i] = m
  BY Appended
<1> QED
  BY <1>1 DEF messages

LEMMA MessagesTaken ==
    ASSUME mailbox \in Seq(Message), mailbox /= <<>>, mailbox' = Tail(mailbox)
    PROVE  messages = messages' \cup {Head(mailbox)}
<1>1. /\ \E j \in DOMAIN mailbox : mailbox[j] = Head(mailbox)
      /\ \A i \in DOMAIN mailbox' : \E j \in DOMAIN mailbox : mailbox'[i] = mailbox[j]
      /\ \A j \in DOMAIN mailbox :
            mailbox[j] = Head(mailbox) \/ \E i \in DOMAIN mailbox' : mailbox'[i] = mailbox[j]
  BY Taken
<1> QED
  BY <1>1 DEF messages

LEMMA MessagesType ==
    ASSUME TypeOK
    PROVE  /\ messages \subseteq Message
           /\ \A c \in carriers : c.seen \in Infos
           /\ \A m \in messages : m.plan \in Plans
           /\ \A o \in operations : o \in Operation /\ o.for \in Plans
<1>1. mailbox \in Seq(Message) /\ operations \subseteq Operation
  BY DEF TypeOK
<1>2. \A i \in DOMAIN mailbox : mailbox[i] \in Message
  BY <1>1
<1>3. messages \subseteq Message
  BY <1>2 DEF messages
<1> QED
  BY <1>1, <1>3 DEF carriers, Message, Operation

(* A message about a plan that nobody starts, or the only one about a plan.*)
LEMMA StillOnceSent ==
    ASSUME mailbox \in Seq(Message), NEW m \in Message, mailbox' = Append(mailbox, m), StartsOnce,
           \A c \in messages : c.plan = m.plan => c.type /= "StartDeployment",
           m.type = "StartDeployment" => \A c \in messages : c.plan /= m.plan
    PROVE  StartsOnce'
<1>1. /\ Len(mailbox) \in Nat /\ DOMAIN mailbox = 1..Len(mailbox)
      /\ DOMAIN mailbox' = 1..(Len(mailbox) + 1)
      /\ mailbox'[Len(mailbox) + 1] = m
      /\ \A i \in 1..Len(mailbox) : mailbox'[i] = mailbox[i]
  OBVIOUS
<1>2. \A i \in DOMAIN mailbox : mailbox[i] \in messages
  BY DEF messages
<1> QED
  BY <1>1, <1>2 DEF StartsOnce

LEMMA StillOnceTaken ==
    ASSUME mailbox \in Seq(Message), mailbox /= <<>>, mailbox' = Tail(mailbox), StartsOnce
    PROVE  /\ StartsOnce'
           /\ Head(mailbox).type = "StartDeployment" => \A c \in messages' : c.plan /= Head(mailbox).plan
<1>1. /\ Len(mailbox) \in Nat /\ Len(mailbox) > 0
      /\ DOMAIN mailbox = 1..Len(mailbox) /\ DOMAIN mailbox' = 1..(Len(mailbox) - 1)
      /\ Head(mailbox) = mailbox[1]
      /\ \A i \in 1..(Len(mailbox) - 1) : mailbox'[i] = mailbox[i + 1]
  OBVIOUS
<1>2. StartsOnce'
  <2> SUFFICES ASSUME NEW i \in DOMAIN mailbox', NEW j \in DOMAIN mailbox',
                      mailbox'[i].type = "StartDeployment", mailbox'[j].plan = mailbox'[i].plan
               PROVE  j = i
    BY DEF StartsOnce
  <2>1. i + 1 \in DOMAIN mailbox /\ j + 1 \in DOMAIN mailbox
    BY <1>1
  <2>2. j + 1 = i + 1
    BY <1>1, <2>1 DEF StartsOnce
  <2> QED BY <1>1, <2>2
<1>3. ASSUME Head(mailbox).type = "StartDeployment", NEW i \in DOMAIN mailbox'
      PROVE  mailbox'[i].plan /= Head(mailbox).plan
  <2>1. i + 1 \in DOMAIN mailbox /\ 1 \in DOMAIN mailbox /\ i + 1 /= 1
    BY <1>1
  <2> QED BY <1>1, <1>3, <2>1 DEF StartsOnce
<1> QED
  BY <1>2, <1>3 DEF messages

-----------------------------------------------------------------------------
(* What a step that is about one plan leaves alone.                        *)

(* What is said of other plans is what the manager knows or what has been  *)
(* passed on.                                                              *)
Learnt(c) ==
    \A q \in Plans : \/ c.seen[q] = "None"
                     \/ c.seen[q] = runningDeployments[q]
                     \/ \E d \in carriers : d.seen[q] = c.seen[q]

(* A plan is scheduled once, before anything else, and launched after that.*)
Moves(q) ==
    /\ runningDeployments'[q] = "Scheduled" => runningDeployments[q] = "Scheduled" \/ Fresh(q)
    /\ runningDeployments'[q] = "Deploying" => GoesAhead(q)

(* The step is about p; others may be taken down by it.                    *)
AboutPlan(p) ==
    /\ \A q \in Plans \ {p} :
          \/ runningDeployments'[q] = runningDeployments[q] /\ actor'[q] = actor[q]
          \/ /\ runningDeployments[q] /= "None" /\ runningDeployments'[q] \in {"None", "Canceling"}
             /\ GoesOn(q)'
    /\ \A m \in messages : m \in messages' \/ m.plan = p
    /\ \A m \in messages' : m \in messages \/ m.plan = p
    /\ \A o \in operations : o \in operations' \/ o.for = p
    /\ \A o \in operations' : o \in operations \/ o.for = p
    /\ \A w \in waiting : w \in waiting' \/ w.plan = p
    /\ \A w \in waiting' : w \in waiting \/ w.plan = p
    /\ \A c \in carriers' : c \in carriers \/ Learnt(c)
    /\ died \subseteq died'

LEMMA SeenStep ==
    ASSUME TypeOK, SubmittedOK, SeenOK, submitted \subseteq submitted', \A q \in Plans : Moves(q),
           \A c \in carriers' : c \in carriers \/ Learnt(c)
    PROVE  SeenOK'
<1> SUFFICES ASSUME NEW c \in carriers', NEW q \in Plans
             PROVE  /\ c.seen[q] /= "None" => q \in submitted'
                    /\ c.seen[q] \in {"Deploying", "Canceling"} => runningDeployments'[q] /= "Scheduled"
                    /\ c.seen[q] = "Canceling" => runningDeployments'[q] /= "Deploying"
  BY DEF SeenOK, SeenRight
<1>1. \/ c.seen[q] = "None"
      \/ c.seen[q] = runningDeployments[q]
      \/ \E d \in carriers : d.seen[q] = c.seen[q]
  BY DEF Learnt
<1>2. /\ c.seen[q] /= "None" => q \in submitted
      /\ c.seen[q] \in {"Deploying", "Canceling"} => runningDeployments[q] /= "Scheduled"
      /\ c.seen[q] = "Canceling" => runningDeployments[q] /= "Deploying"
  BY <1>1 DEF SeenOK, SeenRight, SubmittedOK
<1>3. Fresh(q) => c.seen[q] = "None"
  BY <1>1 DEF Fresh
<1> QED
  BY <1>2, <1>3 DEF Moves, GoesAhead

LEMMA StepAbout ==
    ASSUME TypeOK, SubmittedOK, ConflictInv, NEW p \in Plans, AboutPlan(p),
           submitted \subseteq submitted', Moves(p), StartsOnce',
           \A m \in messages' : m.type = "StartDeployment" /\ m.plan = p => Fresh(p)',
           \A q \in Plans \ {p} : intersects(p, q) /\ GoesAhead(p)' /\ GoesAhead(q)'
                                  => Overriding(p, q)' \/ Overriding(q, p),
           GoesOn(p)'
    PROVE  ConflictInv'
<1>1. SeenOK'
  <2>1. \A q \in Plans : Moves(q)
    BY DEF AboutPlan, Moves, GoesAhead
  <2> QED BY <2>1, SeenStep DEF AboutPlan, ConflictInv
<1>2. FreshOK'
  <2> SUFFICES ASSUME NEW m \in messages', m.type = "StartDeployment", m.plan /= p
               PROVE  Fresh(m.plan)'
    BY DEF FreshOK
  <2> DEFINE q == m.plan
  <2>1. m \in messages /\ q \in Plans /\ Fresh(q)
    BY MessagesType DEF AboutPlan, ConflictInv, FreshOK
  <2> HIDE DEF q
  <2>2. runningDeployments'[q] = "None" /\ actor'[q] = "none"
    BY <2>1 DEF AboutPlan, Fresh, q
  <2>3. \A c \in carriers' : c.seen[q] = "None"
    BY <2>1 DEF AboutPlan, Learnt, Fresh
  <2>4. (\A o \in operations' : o.for /= q) /\ \A w \in waiting' : w.plan /= q
    BY <2>1 DEF AboutPlan, Fresh, q
  <2> QED BY <2>2, <2>3, <2>4 DEF Fresh, q
<1>3. ASSUME NEW q \in Plans \ {p}, NEW r \in Plans, Overriding(q, r), GoesAhead(q)'
      PROVE  Overriding(q, r)'
  <2>1. runningDeployments'[q] = "Scheduled"
    BY <1>3 DEF AboutPlan, Overriding, GoesAhead
  <2>2. \A o \in operations' : o.for = q => o \in operations
    BY DEF AboutPlan
  <2>3. \A m \in messages' : m.plan = q => m \in messages
    BY DEF AboutPlan
  <2>4. \A w \in waiting' : w.plan = q => w \in waiting
    BY DEF AboutPlan
  <2> QED BY <1>3, <2>1, <2>2, <2>3, <2>4 DEF Overriding
<1>4. OverridingOK'
  <2> SUFFICES ASSUME NEW q \in Plans, NEW r \in Plans, q /= r, intersects(q, r), GoesAhead(q)', GoesAhead(r)'
               PROVE  Overriding(q, r)' \/ Overriding(r, q)'
    BY DEF OverridingOK, intersects
  <2>1. intersects(r, q)
    BY DEF intersects
  <2>2. CASE q = p
    BY <1>3, <2>2
  <2>3. CASE r = p
    BY <1>3, <2>1, <2>3
  <2>4. CASE q /= p /\ r /= p
    <3>1. GoesAhead(q) /\ GoesAhead(r)
      BY <2>4 DEF AboutPlan, GoesAhead
    <3>2. Overriding(q, r) \/ Overriding(r, q)
      BY <3>1 DEF ConflictInv, OverridingOK
    <3> QED BY <1>3, <2>4, <3>2
  <2> QED BY <2>2, <2>3, <2>4
<1>5. ASSUME NEW q \in Plans \ {p} PROVE GoesOn(q)'
  <2>1. CASE runningDeployments'[q] = runningDeployments[q] /\ actor'[q] = actor[q]
    <3>1. GoesOn(q)
      BY DEF ConflictInv
    <3>2. /\ \A o \in operations : o.for = q => o \in operations'
          /\ \A m \in messages : m.plan = q => m \in messages'
          /\ \A w \in waiting : w.plan = q => w \in waiting'
          /\ q \in died => q \in died'
      BY DEF AboutPlan
    <3> QED BY <2>1, <3>1, <3>2 DEF GoesOn
  <2> QED BY <2>1 DEF AboutPlan
<1> QED
  BY <1>1, <1>2, <1>4, <1>5 DEF ConflictInv

-----------------------------------------------------------------------------
(* What the plans know, and what is on its way to the manager.             *)
LEMMA SentPlain ==
    ASSUME NEW type \in MessageTypes, NEW p \in Plans
    PROVE  /\ message(type, p) \in Message
           /\ message(type, p).type = type /\ message(type, p).plan = p
           /\ \A q \in Plans : message(type, p).seen[q] = "None"
  BY Sent DEF message, NoInfos

LEMMA SentOn ==
    ASSUME NEW type \in MessageTypes, NEW o \in Operation
    PROVE  /\ [message(type, o.for) EXCEPT !.seen = o.seen] \in Message
           /\ [message(type, o.for) EXCEPT !.seen = o.seen].type = type
           /\ [message(type, o.for) EXCEPT !.seen = o.seen].plan = o.for
           /\ [message(type, o.for) EXCEPT !.seen = o.seen].seen = o.seen
  BY Told DEF message

LEMMA UnchangedConflicts ==
    ASSUME ConflictInv,
           UNCHANGED <<mailbox, runningDeployments, actor, operations, waiting, submitted, died>>
    PROVE  ConflictInv'
<1>1. messages' = messages /\ carriers' = carriers
  BY DEF messages, carriers
<1> QED
  BY <1>1 DEF ConflictInv, SeenOK, SeenRight, FreshOK, StartsOnce, Fresh, OverridingOK, Overriding,
              GoesAhead, GoesOn

LEMMA DeployConflicts ==
    ASSUME IInv, ConflictInv, NEW p \in Plans, NEW force \in BOOLEAN, Deploy(p, force)
    PROVE  ConflictInv'
<1> DEFINE m == [message("StartDeployment", p) EXCEPT !.force = force]
<1>1. /\ p \notin submitted /\ submitted' = submitted \cup {p}
      /\ mailbox' = Append(mailbox, m)
      /\ UNCHANGED <<runningDeployments, actor, operations, waiting, died>>
  BY DEF Deploy, manager
<1>2. m \in Message /\ m.type = "StartDeployment" /\ m.plan = p /\ \A q \in Plans : m.seen[q] = "None"
  BY SentPlain DEF MessageTypes, message, Message
<1> HIDE DEF m
<1>3. /\ messages' = messages \cup {m} /\ carriers' = carriers \cup {m}
      /\ mailbox \in Seq(Message) /\ TypeOK /\ SubmittedOK
  BY <1>1, <1>2, MessagesSent DEF IInv, TypeOK, carriers
<1>4. /\ \A c \in messages : c.plan /= p
      /\ \A o \in operations : o.for /= p
      /\ \A w \in waiting : w.plan /= p
      /\ runningDeployments[p] = "None" /\ actor[p] = "none"
      /\ \A c \in carriers : c.seen[p] = "None"
  BY <1>1, <1>3 DEF SubmittedOK, messages, ConflictInv, SeenOK, SeenRight
<1>5. StartsOnce'
  BY <1>1, <1>2, <1>3, <1>4, StillOnceSent DEF ConflictInv, FreshOK
<1>6. Fresh(p)'
  BY <1>1, <1>2, <1>3, <1>4 DEF Fresh
<1>7. AboutPlan(p)
  BY <1>1, <1>2, <1>3 DEF AboutPlan, Learnt
<1>8. Moves(p) /\ GoesOn(p)' /\ ~ GoesAhead(p)'
  BY <1>1, <1>4 DEF Moves, GoesOn, GoesAhead
<1> QED
  BY <1>1, <1>3, <1>5, <1>6, <1>7, <1>8, StepAbout

(* A message is sent about a plan that has been started.                   *)
LEMMA SendStep ==
    ASSUME IInv, ConflictInv, NEW m \in Message, mailbox' = Append(mailbox, m),
           m.type /= "StartDeployment", ~ Fresh(m.plan)
    PROVE  /\ messages' = messages \cup {m}
           /\ StartsOnce'
           /\ \A c \in messages' : c.plan = m.plan => c.type /= "StartDeployment"
<1>1. messages' = messages \cup {m} /\ mailbox \in Seq(Message)
  BY MessagesSent DEF IInv, TypeOK
<1>2. \A c \in messages : c.plan = m.plan => c.type /= "StartDeployment"
  BY DEF ConflictInv, FreshOK
<1> QED
  BY <1>1, <1>2, StillOnceSent DEF ConflictInv, FreshOK

LEMMA CancelDeploymentConflicts ==
    ASSUME IInv, ConflictInv, NEW p \in Plans, CancelDeployment(p)
    PROVE  ConflictInv'
<1> DEFINE m == message("CancelDeployment", p)
<1>1. /\ runningDeployments[p] /= "None"
      /\ mailbox' = Append(mailbox, m)
      /\ UNCHANGED <<runningDeployments, actor, operations, waiting, submitted, died>>
  BY DEF CancelDeployment, manager
<1>2. m \in Message /\ m.type = "CancelDeployment" /\ m.plan = p /\ \A q \in Plans : m.seen[q] = "None"
  BY SentPlain DEF MessageTypes
<1> HIDE DEF m
<1>3. /\ messages' = messages \cup {m} /\ StartsOnce'
      /\ \A c \in messages' : c.plan = p => c.type /= "StartDeployment"
  BY <1>1, <1>2, SendStep DEF Fresh
<1>4. AboutPlan(p)
  BY <1>1, <1>2, <1>3 DEF AboutPlan, Learnt, carriers
<1>5. Moves(p) /\ GoesOn(p)'
  BY <1>1, <1>3 DEF Moves, GoesAhead, GoesOn, ConflictInv
<1>6. \A q \in Plans : Overriding(p, q) => Overriding(p, q)'
  BY <1>1, <1>2, <1>3 DEF Overriding
<1>7. \A q \in Plans \ {p} : intersects(p, q) /\ GoesAhead(p)' /\ GoesAhead(q)'
                             => Overriding(p, q)' \/ Overriding(q, p)
  BY <1>1, <1>6 DEF GoesAhead, ConflictInv, OverridingOK
<1> QED
  BY <1>1, <1>3, <1>4, <1>5, <1>7, StepAbout DEF IInv

LEMMA EndsConflicts ==
    ASSUME IInv, ConflictInv, NEW p \in Plans, Ends(p)
    PROVE  ConflictInv'
<1> DEFINE m == message("DeploymentFinished", p)
<1>1. /\ actor[p] /= "none"
      /\ actor' = [actor EXCEPT ![p] = "none"]
      /\ mailbox' = Append(mailbox, m)
      /\ UNCHANGED <<runningDeployments, operations, waiting, submitted, died>>
  BY DEF Ends, bounds
<1>2. m \in Message /\ m.type = "DeploymentFinished" /\ m.plan = p /\ \A q \in Plans : m.seen[q] = "None"
  BY SentPlain DEF MessageTypes
<1> HIDE DEF m
<1>3. /\ messages' = messages \cup {m} /\ StartsOnce'
      /\ \A c \in messages' : c.plan = p => c.type /= "StartDeployment"
  BY <1>1, <1>2, SendStep DEF Fresh
<1>4. AboutPlan(p)
  BY <1>1, <1>2, <1>3 DEF AboutPlan, Learnt, carriers, IInv, TypeOK
<1>5. Moves(p) /\ GoesOn(p)'
  BY <1>1, <1>2, <1>3 DEF Moves, GoesAhead, GoesOn, ConflictInv
<1>6. \A q \in Plans : Overriding(p, q) => Overriding(p, q)'
  BY <1>1, <1>2, <1>3 DEF Overriding
<1>7. \A q \in Plans \ {p} : intersects(p, q) /\ GoesAhead(p)' /\ GoesAhead(q)'
                             => Overriding(p, q)' \/ Overriding(q, p)
  BY <1>1, <1>6 DEF GoesAhead, ConflictInv, OverridingOK
<1> QED
  BY <1>1, <1>3, <1>4, <1>5, <1>7, StepAbout DEF IInv

LEMMA ThrowsConflicts ==
    ASSUME IInv, ConflictInv, NEW p \in Plans, Throws(p)
    PROVE  ConflictInv'
<1>1. /\ actor[p] /= "none"
      /\ actor' = [actor EXCEPT ![p] = "none"] /\ died' = died \cup {p}
      /\ UNCHANGED <<mailbox, runningDeployments, operations, waiting, submitted>>
  BY DEF Throws
<1>2. messages' = messages /\ carriers' = carriers
  BY <1>1 DEF messages, carriers
<1>3. StartsOnce' /\ \A c \in messages' : c.plan = p => c.type /= "StartDeployment"
  BY <1>1, <1>2 DEF ConflictInv, FreshOK, StartsOnce, Fresh
<1>4. AboutPlan(p)
  BY <1>1, <1>2 DEF AboutPlan, IInv, TypeOK
<1>5. Moves(p) /\ GoesOn(p)'
  BY <1>1, <1>2 DEF Moves, GoesAhead, GoesOn, ConflictInv
<1>6. \A q \in Plans : Overriding(p, q) => Overriding(p, q)'
  BY <1>1, <1>2 DEF Overriding
<1>7. \A q \in Plans \ {p} : intersects(p, q) /\ GoesAhead(p)' /\ GoesAhead(q)'
                             => Overriding(p, q)' \/ Overriding(q, p)
  BY <1>1, <1>6 DEF GoesAhead, ConflictInv, OverridingOK
<1> QED
  BY <1>1, <1>3, <1>4, <1>5, <1>7, StepAbout DEF IInv

LEMMA CanceledConflicts ==
    ASSUME IInv, ConflictInv, NEW w \in waiting, Canceled(w)
    PROVE  ConflictInv'
<1> DEFINE p == w.plan
           m == message("LaunchDeployment", p)
<1>1. /\ waiting' = waiting \ {w}
      /\ mailbox' = Append(mailbox, m)
      /\ UNCHANGED <<runningDeployments, actor, operations, submitted, died>>
  BY DEF Canceled, bounds
<1>2. p \in Plans /\ ~ Fresh(p)
  BY DEF IInv, TypeOK, Fresh
<1>3. m \in Message /\ m.type = "LaunchDeployment" /\ m.plan = p /\ \A q \in Plans : m.seen[q] = "None"
  BY <1>2, SentPlain DEF MessageTypes
<1> HIDE DEF m, p
<1>4. /\ messages' = messages \cup {m} /\ StartsOnce'
      /\ \A c \in messages' : c.plan = p => c.type /= "StartDeployment"
  BY <1>1, <1>2, <1>3, SendStep
<1>5. AboutPlan(p)
  BY <1>1, <1>3, <1>4 DEF AboutPlan, Learnt, carriers, p
<1>6. GoesOn(p)
  BY <1>2 DEF ConflictInv
<1>7. Moves(p) /\ GoesOn(p)'
  BY <1>1, <1>3, <1>4, <1>6 DEF Moves, GoesAhead, GoesOn
<1>8. \A q \in Plans : ~ Overriding(p, q)
  BY DEF Overriding, p
<1>9. \A q \in Plans \ {p} : intersects(p, q) /\ GoesAhead(p)' /\ GoesAhead(q)'
                             => Overriding(p, q)' \/ Overriding(q, p)
  BY <1>1, <1>2, <1>8 DEF GoesAhead, ConflictInv, OverridingOK
<1> QED
  BY <1>1, <1>2, <1>4, <1>5, <1>7, <1>9, StepAbout DEF IInv

LEMMA StoredConflicts ==
    ASSUME IInv, ConflictInv, NEW o \in operations, Stored(o),
           UNCHANGED <<runningDeployments, actor, waiting, submitted, died>>
    PROVE  ConflictInv'
<1> DEFINE p == o.for
           type == IF o.seen = NoInfos THEN "LaunchDeployment" ELSE "WaitForCanceledConflicts"
           m == [message(type, o.for) EXCEPT !.seen = o.seen]
<1>1. /\ o.type = "store" /\ operations' = operations \ {o} /\ mailbox' = Append(mailbox, m)
  BY DEF Stored, tell
<1>2. p \in Plans /\ ~ Fresh(p) /\ o \in Operation
  BY MessagesType DEF IInv, Fresh
<1>3. type \in {"LaunchDeployment", "WaitForCanceledConflicts"}
  OBVIOUS
<1> HIDE DEF type
<1>4. m \in Message /\ m.type = type /\ m.plan = p /\ m.seen = o.seen
  BY <1>2, <1>3, SentOn DEF MessageTypes
<1> HIDE DEF m, p
<1>5. /\ messages' = messages \cup {m} /\ StartsOnce'
      /\ \A c \in messages' : c.plan = p => c.type /= "StartDeployment"
  BY <1>1, <1>2, <1>3, <1>4, SendStep
<1>6. AboutPlan(p)
  BY <1>1, <1>4, <1>5 DEF AboutPlan, Learnt, carriers, p
<1>7. GoesOn(p)
  BY <1>2 DEF ConflictInv
<1>8. Moves(p) /\ GoesOn(p)'
  BY <1>1, <1>3, <1>4, <1>5, <1>7 DEF Moves, GoesAhead, GoesOn
<1>9. \A q \in Plans : ~ Overriding(p, q)
  BY <1>1 DEF Overriding, p
<1>10. \A q \in Plans \ {p} : intersects(p, q) /\ GoesAhead(p)' /\ GoesAhead(q)'
                              => Overriding(p, q)' \/ Overriding(q, p)
  BY <1>2, <1>9 DEF GoesAhead, ConflictInv, OverridingOK
<1> QED
  BY <1>2, <1>5, <1>6, <1>8, <1>10, StepAbout DEF IInv

(* The conflicts have been deleted, or that has failed: the plan has seen  *)
(* what it had seen.                                                       *)
LEMMA AnsweredConflicts ==
    ASSUME IInv, ConflictInv, NEW o \in operations, o.type \in {"store", "delete"},
           NEW type \in {"CancelDeletedConflicts", "FailedRepositoryOperation"},
           type = "CancelDeletedConflicts" => o.type = "delete",
           tell(type, o),
           \A x \in operations : x \in operations' \/ x = o,
           \A x \in operations' : x \in operations \/ (x.for = o.for /\ x.type = "forget" /\ x.seen = NoInfos),
           UNCHANGED <<runningDeployments, actor, waiting, submitted, died>>
    PROVE  ConflictInv'
<1> DEFINE p == o.for
           m == [message(type, o.for) EXCEPT !.seen = o.seen]
<1>1. mailbox' = Append(mailbox, m)
  BY DEF tell
<1>2. p \in Plans /\ ~ Fresh(p) /\ o \in Operation
  BY MessagesType DEF IInv, Fresh
<1>3. m \in Message /\ m.type = type /\ m.plan = p /\ m.seen = o.seen
  BY <1>2, SentOn DEF MessageTypes
<1> HIDE DEF m, p
<1>4. /\ messages' = messages \cup {m} /\ StartsOnce'
      /\ \A c \in messages' : c.plan = p => c.type /= "StartDeployment"
  BY <1>1, <1>2, <1>3, SendStep
<1>5. AboutPlan(p)
  <2>1. \A c \in carriers' : c \in carriers \/ c.seen = o.seen \/ c.seen = NoInfos
    BY <1>3, <1>4 DEF carriers
  <2>2. \A c \in carriers' : c \in carriers \/ Learnt(c)
    BY <2>1 DEF Learnt, carriers, NoInfos
  <2> QED BY <1>3, <1>4, <2>2 DEF AboutPlan, p
<1>6. GoesOn(p)
  BY <1>2 DEF ConflictInv
<1>7. Moves(p) /\ GoesOn(p)'
  <2>1. m \in messages' /\ m.plan = p
        /\ m.type \in {"CancelDeletedConflicts", "FailedRepositoryOperation"}
    BY <1>3, <1>4
  <2> QED BY <1>4, <1>6, <2>1 DEF Moves, GoesAhead, GoesOn
<1>8. \A q \in Plans : Overriding(p, q) => Overriding(p, q)'
  <2> SUFFICES ASSUME NEW q \in Plans, Overriding(p, q) PROVE Overriding(p, q)'
    OBVIOUS
  <2>1. o.type = "delete" /\ o.seen[q] /= "None"
    BY DEF Overriding, p
  <2>2. m.type = "CancelDeletedConflicts" => m.seen[q] /= "None"
    BY <1>3, <2>1
  <2> QED BY <1>3, <1>4, <2>2 DEF Overriding
<1>9. \A q \in Plans \ {p} : intersects(p, q) /\ GoesAhead(p)' /\ GoesAhead(q)'
                             => Overriding(p, q)' \/ Overriding(q, p)
  BY <1>2, <1>8 DEF GoesAhead, ConflictInv, OverridingOK
<1> QED
  BY <1>2, <1>4, <1>5, <1>7, <1>9, StepAbout DEF IInv

(* One of the deletes is done, or one that nobody waits for.               *)
LEMMA DeletedConflicts ==
    ASSUME IInv, ConflictInv, NEW o \in operations,
           (\E q \in o.plans : DeletedOne(o, q)) \/ Forgotten(o),
           UNCHANGED <<runningDeployments, actor, waiting, submitted, died>>
    PROVE  ConflictInv'
<1> DEFINE p == o.for
<1>1. p \in Plans /\ ~ Fresh(p) /\ o \in Operation
  BY MessagesType DEF IInv, Fresh
<1>2. mailbox' = mailbox
  BY DEF DeletedOne, Forgotten
<1>3. messages' = messages
  BY <1>2 DEF messages
<1>4. StartsOnce' /\ \A c \in messages' : c.plan = p => c.type /= "StartDeployment"
  BY <1>1, <1>2, <1>3 DEF ConflictInv, FreshOK, StartsOnce
<1>5. \/ o.type = "forget" /\ operations' = operations \ {o}
      \/ \E x \in operations' : /\ x.for = p /\ x.type = o.type /\ x.seen = o.seen /\ o.type = "delete"
                                /\ operations' = (operations \ {o}) \cup {x}
  <2>1. CASE Forgotten(o)
    BY <2>1 DEF Forgotten
  <2>2. ASSUME NEW q \in o.plans, DeletedOne(o, q)
        PROVE  \E x \in operations' : /\ x.for = p /\ x.type = o.type /\ x.seen = o.seen /\ o.type = "delete"
                                      /\ operations' = (operations \ {o}) \cup {x}
    <3> DEFINE x == [o EXCEPT !.plans = @ \ {q}]
    <3>1. x.for = p /\ x.type = o.type /\ x.seen = o.seen
      BY <1>1 DEF Operation
    <3>2. o.type = "delete" /\ operations' = (operations \ {o}) \cup {x}
      BY <2>2 DEF DeletedOne
    <3> HIDE DEF x
    <3> QED BY <3>1, <3>2
  <2> QED BY <2>1, <2>2
<1> HIDE DEF p
<1>6. AboutPlan(p)
  <2>1. \A c \in carriers' : c \in carriers \/ c.seen = o.seen
    BY <1>3, <1>5 DEF carriers
  <2>2. \A c \in carriers' : c \in carriers \/ Learnt(c)
    BY <2>1 DEF Learnt, carriers
  <2> QED BY <1>3, <1>5, <2>2 DEF AboutPlan, p
<1>7. GoesOn(p)
  BY <1>1 DEF ConflictInv
<1>8. Moves(p) /\ GoesOn(p)'
  BY <1>3, <1>5, <1>7 DEF Moves, GoesAhead, GoesOn
<1>9. \A q \in Plans : Overriding(p, q) => Overriding(p, q)'
  <2> SUFFICES ASSUME NEW q \in Plans, Overriding(p, q) PROVE Overriding(p, q)'
    OBVIOUS
  <2>1. o.type = "forget" \/ (o.type = "delete" /\ o.seen[q] /= "None")
    BY DEF Overriding, p
  <2>2. \A x \in operations' : x \in operations \/ (x.type = "delete" /\ x.seen[q] /= "None")
    BY <1>5, <2>1
  <2> QED BY <1>3, <2>2 DEF Overriding
<1>10. \A q \in Plans \ {p} : intersects(p, q) /\ GoesAhead(p)' /\ GoesAhead(q)'
                              => Overriding(p, q)' \/ Overriding(q, p)
  BY <1>1, <1>9 DEF GoesAhead, ConflictInv, OverridingOK
<1> QED
  BY <1>1, <1>4, <1>6, <1>8, <1>10, StepAbout DEF IInv

LEMMA RepositoryConflicts ==
    ASSUME IInv, ConflictInv, RepositoryStep
    PROVE  ConflictInv'
<1>1. PICK o \in operations :
          \/ Stored(o)
          \/ Deleted(o)
          \/ \E p \in o.plans : DeletedOne(o, p)
          \/ Failed(o)
          \/ Forgotten(o)
  BY DEF RepositoryStep
<1>2. UNCHANGED <<runningDeployments, actor, waiting, submitted, died>>
  BY DEF RepositoryStep
<1>3. CASE Stored(o)
  BY <1>2, <1>3, StoredConflicts
<1>4. CASE Deleted(o)
  BY <1>2, <1>4, AnsweredConflicts DEF Deleted
<1>5. CASE (\E p \in o.plans : DeletedOne(o, p)) \/ Forgotten(o)
  BY <1>2, <1>5, DeletedConflicts
<1>6. CASE Failed(o)
  <2>1. PICK rest \in SUBSET o.plans :
            operations' = (operations \ {o})
               \cup {operation("forget", o.for, {q}, NoInfos) : q \in IF o.type = "delete" THEN rest ELSE {}}
    BY <1>6 DEF Failed
  <2>2. \A q : /\ operation("forget", o.for, {q}, NoInfos).for = o.for
               /\ operation("forget", o.for, {q}, NoInfos).type = "forget"
               /\ operation("forget", o.for, {q}, NoInfos).seen = NoInfos
    BY DEF operation
  <2>3. /\ \A x \in operations : x \in operations' \/ x = o
        /\ \A x \in operations' : x \in operations
                                  \/ (x.for = o.for /\ x.type = "forget" /\ x.seen = NoInfos)
    BY <2>1, <2>2
  <2>4. o.type \in {"store", "delete"} /\ tell("FailedRepositoryOperation", o)
    BY <1>6 DEF Failed
  <2> QED BY <1>2, <2>3, <2>4, AnsweredConflicts
<1> QED
  BY <1>1, <1>3, <1>4, <1>5, <1>6

-----------------------------------------------------------------------------
(* The manager handles a message.                                          *)
LEMMA ReceiveConflicts ==
    ASSUME IInv, ConflictInv, NEW m, m = Head(mailbox), NEW p, p = m.plan, Receive
    PROVE  ConflictInv'
<1>1. /\ mailbox /= <<>> /\ mailbox' = Tail(mailbox) /\ Handle(m)
      /\ UNCHANGED <<submitted, died>>
  BY DEF Receive, bounds
<1>2. /\ TypeOK /\ SubmittedOK /\ mailbox \in Seq(Message)
      /\ runningDeployments \in Infos
      /\ actor \in [Plans -> {"none", "deploying", "canceled"}]
  BY DEF IInv, TypeOK
<1>3. /\ messages = messages' \cup {m} /\ StartsOnce'
      /\ m.type = "StartDeployment" => \A c \in messages' : c.plan /= p
  BY <1>1, <1>2, MessagesTaken, StillOnceTaken DEF ConflictInv, FreshOK
<1>4. m \in messages /\ m \in carriers /\ p \in Plans /\ m.seen \in Infos
  BY <1>2, <1>3, MessagesType DEF carriers
(* Whatever is the plan of a start that is to come is another one.         *)
<1>5. \A c \in messages' : c.plan = p => c.type /= "StartDeployment"
  <2>1. ASSUME NEW c \in messages', c.plan = p, c.type = "StartDeployment" PROVE FALSE
    <3>1. Fresh(p) /\ c \in messages
      BY <1>3, <2>1 DEF ConflictInv, FreshOK
    <3>2. c = m
      BY <1>3, <1>4, <2>1, <3>1 DEF messages, ConflictInv, FreshOK, StartsOnce
    <3> QED BY <1>3, <2>1, <3>2
  <2> QED BY <2>1
<1>6. GoesOn(p) /\ (m.type = "StartDeployment" => Fresh(p))
  BY <1>4 DEF ConflictInv, FreshOK
<1>7. ASSUME \A q \in Plans \ {p} : runningDeployments'[q] = runningDeployments[q] /\ actor'[q] = actor[q],
             operations \subseteq operations', \A o \in operations' : o \in operations \/ (o.for = p /\ Learnt(o)),
             waiting \subseteq waiting', \A w \in waiting' : w \in waiting \/ w.plan = p,
             Moves(p), GoesOn(p)',
             GoesAhead(p)' => \A q \in Plans \ {p} :
                intersects(p, q) /\ GoesAhead(q) => Overriding(p, q)' \/ Overriding(q, p)
      PROVE  ConflictInv'
  <2>1. \A c \in carriers' : c \in carriers \/ Learnt(c)
    BY <1>3, <1>7 DEF carriers
  <2>2. AboutPlan(p)
    BY <1>1, <1>3, <1>7, <2>1 DEF AboutPlan
  <2>3. \A q \in Plans \ {p} : intersects(p, q) /\ GoesAhead(p)' /\ GoesAhead(q)'
                               => Overriding(p, q)' \/ Overriding(q, p)
    BY <1>7 DEF GoesAhead
  <2> QED BY <1>1, <1>2, <1>3, <1>4, <1>5, <1>7, <2>2, <2>3, StepAbout
(* A message that leads the plan on without taking conflicts down is       *)
(* handled only if nobody has to be taken down.                            *)
<1>8. ASSUME m.type \in {"WaitForCanceledConflicts", "LaunchDeployment"}, GoesAhead(p)
      PROVE  \A q \in Plans \ {p} : intersects(p, q) /\ GoesAhead(q) => Overriding(q, p)
  <2>1. \A q \in Plans : ~ Overriding(p, q)
    BY <1>4, <1>8 DEF Overriding
  <2> QED BY <1>4, <1>8, <2>1 DEF ConflictInv, OverridingOK
<1>9. /\ \A q \in Plans : conflictingDeployments(p)[q] =
                              IF intersects(p, q) THEN runningDeployments[q] ELSE "None"
      /\ \A plans, type : Learnt(operation(type, p, plans, NoInfos))
      /\ \A plans, type : Learnt(operation(type, p, plans, conflictingDeployments(p)))
      /\ \A plans, type : Learnt(operation(type, p, plans, m.seen))
      /\ \A plans, type, seen : /\ operation(type, p, plans, seen).for = p
                                /\ operation(type, p, plans, seen).type = type
                                /\ operation(type, p, plans, seen).seen = seen
  BY <1>4 DEF conflictingDeployments, Learnt, operation, NoInfos
<1>10. markScheduled(p) => /\ runningDeployments'[p] = "Scheduled"
                           /\ \A q \in Plans \ {p} : runningDeployments'[q] = runningDeployments[q]
  BY <1>2, <1>4 DEF markScheduled, Infos
<1>11. CASE startNonConflictingDeployment(m) /\ m.type = "StartDeployment"
  <2> DEFINE new == operation("store", p, {p}, NoInfos)
  <2>1. /\ conflictingDeployments(p) = NoInfos
        /\ markScheduled(p) /\ operations' = operations \cup {new}
        /\ UNCHANGED <<actor, waiting>>
    BY <1>11 DEF startNonConflictingDeployment
  <2>2. new.for = p /\ new.type = "store" /\ Learnt(new)
    BY <1>9
  <2> HIDE DEF new
  <2>3. \A q \in Plans : intersects(p, q) => ~ GoesAhead(q)
    BY <1>9, <2>1 DEF NoInfos, GoesAhead
  <2>4. Moves(p) /\ GoesOn(p)'
    BY <1>6, <1>10, <1>11, <2>1, <2>2 DEF Moves, GoesOn
  <2> QED BY <1>7, <1>10, <2>1, <2>2, <2>3, <2>4
<1>12. CASE giveUpConflictingDeployment(m) /\ m.type = "StartDeployment"
  <2>1. UNCHANGED <<runningDeployments, actor, operations, waiting>> /\ runningDeployments[p] = "None"
    BY <1>6, <1>12 DEF giveUpConflictingDeployment, manager, Fresh
  <2>2. Moves(p) /\ GoesOn(p)' /\ ~ GoesAhead(p)'
    BY <2>1 DEF Moves, GoesOn, GoesAhead
  <2> QED BY <1>7, <2>1, <2>2
<1>13. CASE startConflictingDeployment(m) /\ m.type = "StartDeployment"
  <2> DEFINE seen == conflictingDeployments(p)
             new == operation("delete", p, conflicts(seen), seen)
  <2>1. /\ markScheduled(p) /\ operations' = operations \cup {new}
        /\ UNCHANGED <<actor, waiting>>
    BY <1>13 DEF startConflictingDeployment
  <2>2. new.for = p /\ new.type = "delete" /\ Learnt(new) /\ new.seen = seen
    BY <1>9
  <2> HIDE DEF new
  <2>3. Moves(p) /\ GoesOn(p)'
    BY <1>6, <1>10, <1>13, <2>1, <2>2 DEF Moves, GoesOn
  <2>4. ASSUME NEW q \in Plans, intersects(p, q), GoesAhead(q) PROVE Overriding(p, q)'
    <3>1. seen[q] /= "None"
      BY <1>9, <2>4 DEF GoesAhead
    <3>2. /\ \A o \in operations' : o.for = p => o = new
          /\ \A c \in messages' : c.plan /= p
          /\ \A w \in waiting' : w.plan /= p
      BY <1>3, <1>6, <1>13, <2>1 DEF Fresh
    <3> QED BY <1>10, <2>1, <2>2, <3>1, <3>2 DEF Overriding
  <2> QED BY <1>7, <1>10, <2>1, <2>2, <2>3, <2>4
<1>14. CASE CancelDeletedConflicts(m)
  <2> DEFINE present == {q \in conflicts(m.seen) : runningDeployments[q] /= "None"}
             scheduled == {q \in present : m.seen[q] = "Scheduled"}
             deploying == {q \in present : m.seen[q] = "Deploying"}
             new == operation("store", p, {p}, m.seen)
  <2>1. /\ runningDeployments' = [q \in Plans |-> IF q \in deploying THEN "Canceling"
                                                  ELSE removed(scheduled)[q]]
        /\ actor' = stopActor(deploying)
        /\ operations' = operations \cup {new}
        /\ UNCHANGED waiting
        /\ m.type = "CancelDeletedConflicts" /\ runningDeployments[p] = "Scheduled"
    BY <1>14 DEF CancelDeletedConflicts, cancelDeletedConflicts, isScheduledDeployment
  <2>2. new.for = p /\ new.type = "store" /\ Learnt(new)
    BY <1>9
  <2> HIDE DEF new
(* What was seen deploying has not been scheduled again.                   *)
  <2>3. \A q \in Plans :
           \/ q \in deploying /\ runningDeployments'[q] = "Canceling"
              /\ runningDeployments[q] \in {"Deploying", "Canceling"}
           \/ q \in scheduled /\ runningDeployments'[q] = "None" /\ runningDeployments[q] /= "None"
           \/ /\ q \notin deploying /\ q \notin scheduled
              /\ runningDeployments'[q] = runningDeployments[q] /\ actor'[q] = actor[q]
    <3>1. \A q \in deploying : runningDeployments[q] \in {"Deploying", "Canceling"}
      <4>1. \A q \in deploying : q \in Plans /\ m.seen[q] = "Deploying" /\ runningDeployments[q] /= "None"
        BY DEF conflicts
      <4>2. \A q \in deploying : runningDeployments[q] /= "Scheduled"
        BY <1>4, <4>1 DEF ConflictInv, SeenOK, SeenRight
      <4>3. \A q \in Plans : runningDeployments[q] \in {"None", "Scheduled", "Deploying", "Canceling"}
        BY <1>2 DEF Infos, Status
      <4> QED BY <4>1, <4>2, <4>3
    <3>2. \A q \in deploying : q \notin scheduled
      OBVIOUS
    <3> QED BY <2>1, <3>1, <3>2 DEF removed, stopActor
  <2>4. \A q \in deploying : actor'[q] = IF actor[q] /= "none" THEN "canceled" ELSE "none"
    BY <1>2, <2>1 DEF stopActor, conflicts
  <2>5. \A q \in deploying : q \notin scheduled
    OBVIOUS
  <2>6. \A q \in Plans : m.seen[q] /= "None" /\ GoesAhead(q) => q \in scheduled \/ q \in deploying
    <3>1. \A q \in Plans : m.seen[q] \in {"None", "Scheduled", "Deploying", "Canceling"}
      BY <1>4 DEF Infos, Status
    <3>2. \A q \in Plans : m.seen[q] = "Canceling" => ~ GoesAhead(q)
      BY <1>4 DEF ConflictInv, SeenOK, SeenRight, GoesAhead
    <3> QED BY <3>1, <3>2 DEF conflicts, GoesAhead
  <2> HIDE DEF scheduled, deploying, present
  <2>7. \A q \in deploying : q \in Plans => GoesOn(q)'
    <3> SUFFICES ASSUME NEW q \in deploying, q \in Plans PROVE GoesOn(q)'
      OBVIOUS
    <3>1. runningDeployments'[q] = "Canceling" /\ runningDeployments[q] \in {"Deploying", "Canceling"}
      BY <2>3, <2>5
    <3>2. \/ actor[q] \in {"deploying", "canceled"} \/ q \in died'
          \/ \E c \in messages : c.plan = q /\ c.type = "DeploymentFinished"
      BY <1>1, <3>1 DEF ConflictInv, GoesOn
    <3>3. \A c \in messages : c.type = "DeploymentFinished" => c \in messages'
      BY <1>3, <2>1
    <3> QED BY <2>4, <3>1, <3>2, <3>3 DEF GoesOn
  <2>8. \A q \in scheduled : q \in Plans => GoesOn(q)'
    BY <2>3, <2>5 DEF GoesOn
  <2>9. GoesOn(p)' /\ Moves(p)
    BY <1>4, <2>1, <2>2, <2>3, <2>7 DEF GoesOn, Moves, GoesAhead
  <2>10. AboutPlan(p)
    <3>1. \A c \in carriers' : c \in carriers \/ Learnt(c)
      BY <1>3, <2>1, <2>2 DEF carriers
    <3>2. \A q \in Plans \ {p} :
            \/ runningDeployments'[q] = runningDeployments[q] /\ actor'[q] = actor[q]
            \/ /\ runningDeployments[q] /= "None" /\ runningDeployments'[q] \in {"None", "Canceling"}
               /\ GoesOn(q)'
      BY <2>3, <2>7, <2>8
    <3> QED BY <1>1, <1>3, <2>1, <2>2, <3>1, <3>2 DEF AboutPlan
  <2>11. ASSUME NEW q \in Plans \ {p}, intersects(p, q), GoesAhead(p)', GoesAhead(q)'
         PROVE  Overriding(q, p)
    <3>1. q \notin scheduled /\ q \notin deploying /\ GoesAhead(q)
      BY <2>3, <2>11 DEF GoesAhead
    <3>2. m.seen[q] = "None"
      BY <2>6, <3>1
    <3>3. ~ Overriding(p, q)
      BY <1>4, <2>1, <3>2 DEF Overriding
    <3> QED BY <1>4, <2>1, <2>11, <3>1, <3>3 DEF ConflictInv, OverridingOK, GoesAhead
  <2> QED BY <1>1, <1>2, <1>3, <1>4, <1>5, <2>9, <2>10, <2>11, StepAbout
<1>15. CASE WaitForCanceledConflicts(m)
  <2> DEFINE new == [plan |-> p, on |-> {q \in Plans : m.seen[q] = "Canceling"}]
  <2>1. /\ m.type = "WaitForCanceledConflicts" /\ runningDeployments[p] = "Scheduled"
        /\ waiting' = waiting \cup {new} /\ new.plan = p
        /\ UNCHANGED <<runningDeployments, actor, operations>>
    BY <1>15 DEF WaitForCanceledConflicts, isScheduledDeployment
  <2> HIDE DEF new
  <2>2. Moves(p) /\ GoesOn(p)'
    BY <2>1 DEF Moves, GoesAhead, GoesOn
  <2> QED BY <1>7, <1>8, <2>1, <2>2 DEF GoesAhead
<1>16. CASE LaunchDeployment(m)
  <2>1. /\ m.type = "LaunchDeployment" /\ runningDeployments[p] = "Scheduled"
        /\ runningDeployments'[p] = "Deploying" /\ actor'[p] = "deploying"
        /\ \A q \in Plans \ {p} : runningDeployments'[q] = runningDeployments[q] /\ actor'[q] = actor[q]
        /\ UNCHANGED <<operations, waiting>>
    BY <1>2, <1>4, <1>16 DEF LaunchDeployment, isScheduledDeployment, Infos
  <2>2. Moves(p) /\ GoesOn(p)'
    BY <2>1 DEF Moves, GoesAhead, GoesOn
  <2> QED BY <1>7, <1>8, <2>1, <2>2 DEF GoesAhead
<1>17. CASE FailedRepositoryOperation(m)
  <2>1. /\ runningDeployments'[p] = "None"
        /\ \A q \in Plans \ {p} : runningDeployments'[q] = runningDeployments[q] /\ actor'[q] = actor[q]
        /\ UNCHANGED <<operations, waiting>>
    BY <1>4, <1>17 DEF FailedRepositoryOperation, removed
  <2>2. Moves(p) /\ GoesOn(p)' /\ ~ GoesAhead(p)'
    BY <2>1 DEF Moves, GoesAhead, GoesOn
  <2> QED BY <1>7, <2>1, <2>2
<1>18. CASE DeploymentFinished(m)
  <2> DEFINE new == operation("forget", p, {p}, NoInfos)
  <2>1. /\ runningDeployments'[p] = "None"
        /\ \A q \in Plans \ {p} : runningDeployments'[q] = runningDeployments[q] /\ actor'[q] = actor[q]
        /\ operations' = operations \cup {new} /\ UNCHANGED waiting
    BY <1>4, <1>18 DEF DeploymentFinished, removed
  <2>2. new.for = p /\ Learnt(new)
    BY <1>9
  <2> HIDE DEF new
  <2>3. Moves(p) /\ GoesOn(p)' /\ ~ GoesAhead(p)'
    BY <2>1 DEF Moves, GoesAhead, GoesOn
  <2> QED BY <1>7, <2>1, <2>2, <2>3
<1>19. CASE cancelDeployment(m)
  <2>1. /\ m.type = "CancelDeployment" /\ runningDeployments[p] = "Deploying"
        /\ runningDeployments'[p] = "Canceling"
        /\ actor'[p] = IF actor[p] /= "none" THEN "canceled" ELSE actor[p]
        /\ \A q \in Plans \ {p} : runningDeployments'[q] = runningDeployments[q] /\ actor'[q] = actor[q]
        /\ UNCHANGED <<operations, waiting>>
    BY <1>2, <1>4, <1>19 DEF cancelDeployment, stopActor, Infos
  <2>2. actor[p] = "deploying" \/ p \in died' \/ \E c \in messages' : c.plan = p /\ c.type = "DeploymentFinished"
    BY <1>1, <1>3, <1>6, <2>1 DEF GoesOn
  <2>3. Moves(p) /\ GoesOn(p)' /\ ~ GoesAhead(p)'
    BY <2>1, <2>2 DEF Moves, GoesAhead, GoesOn
  <2> QED BY <1>7, <2>1, <2>3
<1>20. CASE Ignored(m)
  <2>1. UNCHANGED <<runningDeployments, actor, operations, waiting>>
    BY <1>20 DEF Ignored, manager
  <2>2. GoesOn(p)'
    BY <1>1, <1>3, <1>6, <1>20, <2>1 DEF Ignored, GoesOn, isScheduledDeployment
  <2>3. Moves(p)
    BY <2>1 DEF Moves, GoesAhead
  <2>4. \A q \in Plans : Overriding(p, q) => Overriding(p, q)'
    BY <1>3, <2>1 DEF Overriding
  <2>5. GoesAhead(p)' => \A q \in Plans \ {p} :
            intersects(p, q) /\ GoesAhead(q) => Overriding(p, q)' \/ Overriding(q, p)
    BY <1>4, <2>1, <2>4 DEF GoesAhead, ConflictInv, OverridingOK
  <2> QED BY <1>7, <2>1, <2>2, <2>3, <2>5
<1> QED
  BY <1>1, <1>11, <1>12, <1>13, <1>14, <1>15, <1>16, <1>17, <1>18, <1>19, <1>20 DEF Handle, StartDeployment

LEMMA RestartConflicts ==
    ASSUME IInv, DeploymentsAssumption, Restart
    PROVE  ConflictInv'
<1>1. PICK recovered \in {repository', {}} :
          \E order \in [1..Cardinality(recovered) -> recovered] :
             /\ {order[i] : i \in DOMAIN order} = recovered
             /\ LoadedDeployments(order)
  BY DEF Restart
<1>2. /\ repository' \in SUBSET Plans
      /\ scaling' = {} /\ releases' = {} /\ operations' = {} /\ waiting' = {}
      /\ runningDeployments' = NoInfos
      /\ actor' = [p \in Plans |-> "none"]
  BY DEF Restart
<1>3. recovered \in SUBSET Plans
  BY <1>2
<1>4. /\ \A i \in DOMAIN mailbox' : mailbox'[i].plan \in Plans
      /\ \A i \in DOMAIN mailbox' : mailbox'[i] = message("StartDeployment", mailbox'[i].plan)
      /\ \A i, j \in DOMAIN mailbox' : mailbox'[i].plan = mailbox'[j].plan => i = j
  BY <1>1, <1>2, <1>3, Recovered
<1>5. /\ \A p \in Plans : runningDeployments'[p] = "None" /\ actor'[p] = "none"
      /\ \A c \in carriers' : c \in messages'
      /\ \A c \in messages' : c.plan \in Plans /\ \A q \in Plans : c.seen[q] = "None"
  <2>1. \A p : message("StartDeployment", p).seen = NoInfos
    BY DEF message
  <2>2. \A i \in DOMAIN mailbox' : mailbox'[i].seen = NoInfos
    BY <1>4, <2>1
  <2> QED BY <1>2, <1>4, <2>2 DEF messages, carriers, NoInfos
<1>6. SeenOK'
  BY <1>5 DEF SeenOK, SeenRight
<1>7. FreshOK'
  BY <1>2, <1>4, <1>5 DEF FreshOK, StartsOnce, Fresh
<1>8. OverridingOK' /\ \A p \in Plans : GoesOn(p)'
  BY <1>5 DEF OverridingOK, GoesAhead, GoesOn
<1> QED
  BY <1>6, <1>7, <1>8 DEF ConflictInv

-----------------------------------------------------------------------------
LEMMA InitConflicts == Init => ConflictInv
<1> SUFFICES ASSUME Init PROVE ConflictInv
  OBVIOUS
<1>1. messages = {} /\ carriers = {} /\ \A p \in Plans : runningDeployments[p] = "None"
  BY DEF Init, messages, carriers, NoInfos
<1> QED
  BY <1>1 DEF Init, ConflictInv, SeenOK, FreshOK, StartsOnce, OverridingOK, GoesAhead, GoesOn

LEMMA NextConflicts == DeploymentsAssumption /\ IInv /\ ConflictInv /\ [Next]_vars => ConflictInv'
<1> SUFFICES ASSUME DeploymentsAssumption, IInv, ConflictInv, [Next]_vars PROVE ConflictInv'
  OBVIOUS
<1>1. ASSUME NEW p \in Plans, NEW force \in BOOLEAN, Deploy(p, force) PROVE ConflictInv'
  BY <1>1, DeployConflicts
<1>2. ASSUME UNCHANGED <<mailbox, runningDeployments, actor, operations, waiting, submitted, died>>
      PROVE  ConflictInv'
  BY <1>2, UnchangedConflicts
<1>3. ASSUME NEW r \in RunSpecs, ScaleRunSpec(r) PROVE ConflictInv'
  BY <1>2, <1>3 DEF ScaleRunSpec, manager
<1>4. ASSUME NEW s \in scaling, ScaleCompleted(s) PROVE ConflictInv'
  BY <1>2, <1>4 DEF ScaleCompleted, manager, bounds
<1>5. ASSUME NEW m \in releases, RemoveLocks(m) PROVE ConflictInv'
  BY <1>2, <1>5 DEF RemoveLocks, manager, bounds
<1>6. ASSUME NEW p \in Plans, AskTimeout(p) PROVE ConflictInv'
  BY <1>2, <1>6 DEF AskTimeout, manager
<1>7. ASSUME NEW p \in Plans, CancelDeployment(p) PROVE ConflictInv'
  BY <1>7, CancelDeploymentConflicts
<1>8. ASSUME NEW p \in Plans, Ends(p) PROVE ConflictInv'
  BY <1>8, EndsConflicts
<1>9. CASE Receive
  BY <1>9, ReceiveConflicts
<1>10. CASE RepositoryStep
  BY <1>10, RepositoryConflicts
<1>11. ASSUME NEW w \in waiting, Canceled(w) PROVE ConflictInv'
  BY <1>11, CanceledConflicts
<1>12. CASE Restart
  BY <1>12, RestartConflicts
<1>13. ASSUME NEW p \in Plans, Throws(p) PROVE ConflictInv'
  BY <1>13, ThrowsConflicts
<1>14. CASE UNCHANGED vars
  BY <1>2, <1>14 DEF vars
<1> QED
  BY <1>1, <1>3, <1>4, <1>5, <1>6, <1>7, <1>8, <1>9, <1>10, <1>11, <1>12, <1>13, <1>14 DEF Next

LEMMA ConflictsAlways == Spec => []ConflictInv
<1>1. DeploymentsAssumption
  BY DeploymentsAssumption
<1> QED
  BY <1>1, Invariance, InitConflicts, NextConflicts, PTL DEF Spec

(* DeploymentManagerActor never forgets a running deployment, whichever    *)
(* operation of the repository fails and whoever overrides or cancels it,  *)
(* but for one whose DeploymentActor was stopped by an exception.          *)
THEOREM GoesOnCorrect == Spec => []RunningGoesOn
<1>1. ConflictInv => RunningGoesOn
  BY DEF ConflictInv, GoesOn, RunningGoesOn, told, messages
<1> QED
  BY <1>1, ConflictsAlways, PTL

(* DeploymentManagerActor never takes two plans that affect the same run   *)
(* spec for deploying, although the conflicts of a forced plan are dealt   *)
(* with by what they were when it arrived.                                 *)
THEOREM ConflictFreeCorrect == Spec => []DeployingConflictFree
<1>1. ConflictInv => DeployingConflictFree
  BY DEF ConflictInv, OverridingOK, Overriding, GoesAhead, DeployingConflictFree
<1> QED
  BY <1>1, ConflictsAlways, PTL
=============================================================================
