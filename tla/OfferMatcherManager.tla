------------------------ MODULE OfferMatcherManager ------------------------
(* OfferMatcherManagerActor: passes an offer from matcher to matcher,      *)
(* collects the operations they want to perform on it and limits them by   *)
(* launch tokens.  A matcher may answer late, fail or never answer.        *)
(* Whether the offer should be sent again soon is left out.                *)
(*                                                                         *)
(* Time is kept as the age of an offer: a deadline that is offerMatching-  *)
(* Timeout after the start has passed when the age exceeds it.             *)
EXTENDS Integers, Sequences, FiniteSets, Functions

CONSTANTS
    Offers,
    Matchers,
    precedenceFor,          \* the matchers an offer carries a reservation for
    Configurations,         \* the limits the manager may be started with
    offerMatchingTimeout,
    launchTokensPerInterval,
    MaxAnswer,              \* operations in one answer
    MaxOps,                 \* operations altogether
    MaxChanges              \* changes of the matchers and grants of tokens

ASSUME OfferMatcherAssumption ==
    /\ IsFiniteSet(Offers) /\ IsFiniteSet(Matchers)
    /\ precedenceFor \in [Offers -> SUBSET Matchers]
    /\ Configurations \subseteq [maxParallelOffers : Nat \ {0}, maxQueuedOffers : Nat,
                                 maxInstancesPerOffer : Nat \ {0}]
    /\ offerMatchingTimeout \in Nat \ {0}
    /\ launchTokensPerInterval \in Nat \ {0}
    /\ MaxAnswer \in Nat /\ MaxOps \in Nat /\ MaxChanges \in Nat

VARIABLES
    conf,
    launchTokens,
    matchers,
    offerQueues,            \* MatchOfferData of the offers in progress
    unprocessedOffers,      \* the newest first
    offersWantedInput,      \* the last value that was published
    asked,                  \* matchOffer calls that have not been answered
    answers,                \* MatchedInstanceOps on their way to the actor
    promises,               \* the operations of the completed offers
    rejected,               \* operations that their matcher knows are rejected
    received,               \* the offers that have arrived
    created,                \* how many operations there are
    changes

vars == <<conf, launchTokens, matchers, offerQueues, unprocessedOffers, offersWantedInput, asked,
          answers, promises, rejected, received, created, changes>>

Ages == 0..(2 * offerMatchingTimeout + 1)
Ops == 1..MaxOps
MatchOfferData == [matcherQueue : Seq(Matchers), ops : SUBSET Ops, age : Ages]
UnprocessedOffer == [offer : Offers, age : Ages]
Question == [offer : Offers, matcher : Matchers]
MatchedInstanceOps == [offer : Offers, ops : SUBSET Ops]

TypeOK ==
    /\ conf \in Configurations
    /\ launchTokens \in Nat
    /\ matchers \subseteq Matchers
    /\ DOMAIN offerQueues \subseteq Offers
    /\ \A o \in DOMAIN offerQueues : offerQueues[o] \in MatchOfferData
    /\ unprocessedOffers \in Seq(UnprocessedOffer)
    /\ offersWantedInput \in BOOLEAN
    /\ asked \subseteq Question
    /\ answers \subseteq MatchedInstanceOps
    /\ DOMAIN promises \subseteq Offers
    /\ \A o \in DOMAIN promises : promises[o] \subseteq Ops
    /\ rejected \subseteq Ops
    /\ received \subseteq Offers
    /\ created \in 0..MaxOps
    /\ changes \in 0..MaxChanges

Nothing == [o \in {} |-> {}]

Init ==
    /\ conf \in Configurations
    /\ launchTokens = 0
    /\ matchers = {}
    /\ offerQueues = Nothing
    /\ unprocessedOffers = <<>>
    /\ offersWantedInput = FALSE
    /\ asked = {}
    /\ answers = {}
    /\ promises = Nothing
    /\ rejected = {}
    /\ received = {}
    /\ created = 0
    /\ changes = 0

offersWanted == matchers /= {} /\ launchTokens > 0
updateOffersWanted == offersWantedInput' = (matchers' /= {} /\ launchTokens' > 0)

(***************************************************************************)
(* Launch tokens and matchers.                                             *)
(***************************************************************************)
others == <<conf, offerQueues, unprocessedOffers, asked, answers, promises, rejected, received, created>>

SetInstanceLaunchTokens ==
    /\ changes < MaxChanges
    /\ changes' = changes + 1
    /\ launchTokens' = launchTokensPerInterval
    /\ UNCHANGED <<matchers, others>>
    /\ IF launchTokens <= 0 THEN updateOffersWanted ELSE UNCHANGED offersWantedInput

(* Defect: only the first token ever is announced.                         *)
AddFirstInstanceLaunchToken ==
    /\ changes < MaxChanges
    /\ changes' = changes + 1
    /\ launchTokens' = launchTokens + 1
    /\ UNCHANGED <<offersWantedInput, matchers, others>>

AddInstanceLaunchTokens ==
    /\ changes < MaxChanges
    /\ changes' = changes + 1
    /\ launchTokens' = launchTokens + 1
    /\ UNCHANGED <<matchers, others>>
    /\ IF launchTokens' = 1 THEN updateOffersWanted ELSE UNCHANGED offersWantedInput

(* The rounds in progress do not learn of a new matcher: the queues that   *)
(* are extended by it are not kept.                                        *)
AddOrUpdateMatcher(m) ==
    /\ changes < MaxChanges
    /\ m \notin matchers
    /\ changes' = changes + 1
    /\ matchers' = matchers \cup {m}
    /\ UNCHANGED <<launchTokens, others>>
    /\ updateOffersWanted

RemoveMatcher(m) ==
    /\ changes < MaxChanges
    /\ m \in matchers
    /\ changes' = changes + 1
    /\ matchers' = matchers \ {m}
    /\ UNCHANGED <<launchTokens, others>>
    /\ updateOffersWanted

(***************************************************************************)
(* Matching an offer.  The parts of a step are functions of the books: the *)
(* offers in progress and the ones that wait, the open questions and the   *)
(* results.                                                                *)
(***************************************************************************)
books == [offerQueues |-> offerQueues, unprocessed |-> unprocessedOffers, asked |-> asked,
          promises |-> promises]

keep(b) ==
    /\ offerQueues' = b.offerQueues
    /\ unprocessedOffers' = b.unprocessed
    /\ asked' = b.asked
    /\ promises' = b.promises

Put(f, o, v) == [x \in DOMAIN f \cup {o} |-> IF x = o THEN v ELSE f[x]]
Without(f, S) == [x \in DOMAIN f \ S |-> f[x]]
(* trySuccess: the first result stays.                                     *)
trySuccess(f, o, v) == IF o \in DOMAIN f THEN f ELSE Put(f, o, v)

completeWithNoMatch(b, o) == [b EXCEPT !.promises = trySuccess(@, o, {})]

(* Defect: the round is not taken off the books.                           *)
completeAndKeepRound(b, o, data) == [b EXCEPT !.promises = trySuccess(@, o, data.ops)]

completeWithMatchResult(b, o, data) ==
    [b EXCEPT !.promises = trySuccess(@, o, data.ops), !.offerQueues = Without(@, {o})]

(* First the matchers that wait for a reservation, then the others.        *)
offerMatchers(o) ==
    {q \in [1..Cardinality(matchers) -> matchers] :
        /\ Range(q) = matchers
        /\ \A i, j \in DOMAIN q :
              i < j /\ q[j] \in precedenceFor[o] => q[i] \in precedenceFor[o]}

ask(b, o, m) == [b EXCEPT !.asked = @ \cup {[offer |-> o, matcher |-> m]}]

(* startProcessOffer: offers are wanted, so there is a matcher to ask.     *)
startProcessOffer(b, o, q) ==
    ask([b EXCEPT !.offerQueues =
            Put(@, o, [matcherQueue |-> q, ops |-> {}, age |-> 0])], o, q[1])

unprocessedOverdue(u) == u.age >= offerMatchingTimeout
deadlineOverdue(data) == data.age > offerMatchingTimeout

(* Defect: the safeguard does not look at the rounds.                      *)
neverStuck(data) == FALSE

matchersStuck(data) == data.age > 2 * offerMatchingTimeout

(* rejectElapsedOffers: the offers that wait are cut before the first that *)
(* is overdue, since the newest comes first.                               *)
rejectElapsedOffers(b) ==
    LET valid == Cardinality({i \in DOMAIN b.unprocessed :
                                 \A j \in 1..i : ~ unprocessedOverdue(b.unprocessed[j])})
        dropped == {b.unprocessed[i].offer : i \in (valid + 1)..Len(b.unprocessed)}
        stuck == {o \in DOMAIN b.offerQueues : matchersStuck(b.offerQueues[o])}
        done == (dropped \cup stuck) \ DOMAIN b.promises
    IN  [b EXCEPT !.unprocessed = SubSeq(@, 1, valid),
                  !.offerQueues = Without(@, stuck),
                  !.promises = [o \in DOMAIN @ \cup done |->
                                  CASE o \notin done -> @[o]
                                    [] o \in done \cap stuck -> b.offerQueues[o].ops
                                    [] OTHER -> {}]]

(* startNextUnprocessedOffer, when offers are wanted.                      *)
startNextUnprocessedOffer(b) ==
    IF b.unprocessed /= <<>> /\ unprocessedOverdue(Head(b.unprocessed))
    THEN {rejectElapsedOffers(b)}
    ELSE IF b.unprocessed /= <<>> /\ Cardinality(DOMAIN b.offerQueues) < conf.maxParallelOffers
         THEN {startProcessOffer([b EXCEPT !.unprocessed = Tail(@)], Head(b.unprocessed).offer, q) :
                 q \in offerMatchers(Head(b.unprocessed).offer)}
         ELSE {b}

(* scheduleNextMatcherOrFinish with the tokens that are left.              *)
scheduleNextMatcherOrFinish(b, o, data, tokens) ==
    IF \/ deadlineOverdue(data)
       \/ Cardinality(data.ops) >= conf.maxInstancesPerOffer
       \/ tokens <= 0
       \/ data.matcherQueue = <<>>
    THEN LET completed == completeWithMatchResult(b, o, data)
         IN  IF matchers /= {} /\ tokens > 0
             THEN startNextUnprocessedOffer(completed)
             ELSE {completed}
    ELSE {ask(b, o, Head(data.matcherQueue))}

MatchOffer(o) ==
    /\ o \notin received
    /\ received' = received \cup {o}
    /\ \/ /\ ~ offersWanted
          /\ keep(completeWithNoMatch(books, o))
       \/ /\ offersWanted
          /\ Cardinality(DOMAIN offerQueues) < conf.maxParallelOffers
          /\ \E q \in offerMatchers(o) : keep(startProcessOffer(books, o, q))
       \/ /\ offersWanted
          /\ Cardinality(DOMAIN offerQueues) >= conf.maxParallelOffers
          /\ Len(unprocessedOffers) < conf.maxQueuedOffers
          /\ keep([books EXCEPT !.unprocessed = <<[offer |-> o, age |-> 0]>> \o @])
       \/ /\ offersWanted
          /\ Cardinality(DOMAIN offerQueues) >= conf.maxParallelOffers
          /\ Len(unprocessedOffers) >= conf.maxQueuedOffers
          /\ keep(completeWithNoMatch(books, o))
    /\ UNCHANGED <<conf, launchTokens, matchers, offersWantedInput, answers, rejected, created, changes>>

(* A matcher answers a question, or the question fails.                    *)
Answer(q) ==
    /\ \E n \in 0..MaxAnswer :
          /\ created + n <= MaxOps
          /\ created' = created + n
          /\ answers' = answers \cup {[offer |-> q.offer, ops |-> (created + 1)..(created + n)]}
    /\ asked' = asked \ {q}
    /\ UNCHANGED <<conf, launchTokens, matchers, offerQueues, unprocessedOffers, offersWantedInput,
                   promises, rejected, received, changes>>

(* Defect: the tokens are not looked at.                                   *)
acceptedCountByRoom(data, a) ==
    LET room == conf.maxInstancesPerOffer - Cardinality(data.ops)
    IN  IF Cardinality(a.ops) < room THEN Cardinality(a.ops) ELSE room

(* The operations that are accepted: as many as there are tokens and room. *)
acceptedCount(data, a) ==
    LET room == conf.maxInstancesPerOffer - Cardinality(data.ops)
        limit == IF launchTokens < room THEN launchTokens ELSE room
    IN  IF Cardinality(a.ops) < limit THEN Cardinality(a.ops) ELSE limit

(* Those that come first.                                                  *)
acceptedOps(data, a) ==
    {op \in a.ops : Cardinality({x \in a.ops : x < op}) < acceptedCount(data, a)}

(* The matcher that has answered is the head of the queue; it is asked     *)
(* again after the others if it had operations.                            *)
processAddedInstances(data, a) ==
    [data EXCEPT !.ops = @ \cup acceptedOps(data, a),
                 !.matcherQueue = IF a.ops /= {} THEN Append(Tail(@), Head(@)) ELSE Tail(@)]

ReceiveMatchedInstances(a) ==
    /\ a.offer \in DOMAIN offerQueues
    /\ LET data == processAddedInstances(offerQueues[a.offer], a)
           accepted == acceptedOps(offerQueues[a.offer], a)
           tokens == launchTokens - Cardinality(accepted)
       IN  /\ launchTokens' = tokens
           /\ rejected' = rejected \cup (a.ops \ accepted)
           /\ \E b \in scheduleNextMatcherOrFinish(
                         [books EXCEPT !.offerQueues = Put(@, a.offer, data)], a.offer, data, tokens) :
                 keep(b)
    /\ answers' = answers \ {a}
    /\ UNCHANGED <<conf, matchers, offersWantedInput, received, created, changes>>

(* Defect: the operations of a late answer are dropped.                    *)
ReceiveTooLateSilently(a) ==
    /\ a.offer \notin DOMAIN offerQueues
    /\ answers' = answers \ {a}
    /\ UNCHANGED <<conf, launchTokens, matchers, offerQueues, unprocessedOffers, offersWantedInput, asked,
                   promises, rejected, received, created, changes>>

(* The offer has timed out.                                                *)
ReceiveTooLate(a) ==
    /\ a.offer \notin DOMAIN offerQueues
    /\ rejected' = rejected \cup a.ops
    /\ answers' = answers \ {a}
    /\ UNCHANGED <<conf, launchTokens, matchers, offerQueues, unprocessedOffers, offersWantedInput, asked,
                   promises, received, created, changes>>

CleanUpOverdueOffers ==
    /\ keep(rejectElapsedOffers(books))
    /\ UNCHANGED <<conf, launchTokens, matchers, offersWantedInput, answers, rejected, received, created,
                   changes>>

older(age) == IF age < 2 * offerMatchingTimeout + 1 THEN age + 1 ELSE age

Tick ==
    /\ offerQueues' = [o \in DOMAIN offerQueues |-> [offerQueues[o] EXCEPT !.age = older(@)]]
    /\ unprocessedOffers' = [i \in DOMAIN unprocessedOffers |->
                                [unprocessedOffers[i] EXCEPT !.age = older(@)]]
    /\ UNCHANGED <<conf, launchTokens, matchers, offersWantedInput, asked, answers, promises, rejected,
                   received, created, changes>>

Next ==
    \/ SetInstanceLaunchTokens
    \/ AddInstanceLaunchTokens
    \/ \E m \in Matchers : AddOrUpdateMatcher(m) \/ RemoveMatcher(m)
    \/ \E o \in Offers : MatchOffer(o)
    \/ \E q \in asked : Answer(q)
    \/ \E a \in answers : ReceiveMatchedInstances(a) \/ ReceiveTooLate(a)
    \/ CleanUpOverdueOffers
    \/ Tick

Spec == Init /\ [][Next]_vars

(* Time passes and the timer fires.  Nothing is assumed of the matchers.   *)
FairSpec == Spec /\ WF_vars(Tick) /\ WF_vars(CleanUpOverdueOffers)

-----------------------------------------------------------------------------
(* Every operation a matcher has made of an offer is, at any time, in one  *)
(* place: in an answer on its way, in the round of its offer, in the       *)
(* result of its offer, or rejected.  None is lost and none is both        *)
(* launched and rejected, also if the answer comes after the safeguard,    *)
(* and no offer gets more than maxInstancesPerOffer of them.               *)
Places ==
    {a.ops : a \in answers}
    \cup {offerQueues[o].ops : o \in DOMAIN offerQueues}
    \cup {promises[o] : o \in DOMAIN promises}
    \cup {rejected}

OpsAccountedFor ==
    /\ UNION Places = 1..created
    /\ \A a \in answers : a.ops \cap rejected = {}
    /\ \A a, c \in answers : a /= c => a.ops \cap c.ops = {}
    /\ \A o \in DOMAIN offerQueues :
          /\ offerQueues[o].ops \cap rejected = {}
          /\ \A a \in answers : offerQueues[o].ops \cap a.ops = {}
    /\ \A o \in DOMAIN promises :
          /\ Cardinality(promises[o]) <= conf.maxInstancesPerOffer
          /\ promises[o] \cap rejected = {}
          /\ \A a \in answers : promises[o] \cap a.ops = {}
          /\ \A p \in DOMAIN offerQueues : promises[o] \cap offerQueues[p].ops = {}

(* A round never stops for lack of a question: the matcher at the head of  *)
(* the queue of an offer in progress, and no other, has been asked or its  *)
(* answer is on its way; at most maxParallelOffers rounds run, and an      *)
(* offer in progress or waiting has no result yet.                         *)
RoundsGoOn ==
    /\ Cardinality(DOMAIN offerQueues) <= conf.maxParallelOffers
    /\ \A o \in DOMAIN offerQueues :
          /\ o \notin DOMAIN promises
          /\ offerQueues[o].matcherQueue /= <<>>
          /\ LET questions == {q \in asked : q.offer = o}
                 replies == {a \in answers : a.offer = o}
             IN  \/ /\ questions = {[offer |-> o, matcher |-> Head(offerQueues[o].matcherQueue)]}
                    /\ replies = {}
                 \/ questions = {} /\ Cardinality(replies) = 1
    /\ \A i \in DOMAIN unprocessedOffers : unprocessedOffers[i].offer \notin DOMAIN promises

(* While offers are wanted the last that was published is that they are:   *)
(* no order of tokens spent, tokens granted and matchers that come and go  *)
(* leaves Marathon without offers.                                         *)
WantedIsPublished == offersWanted => offersWantedInput

(* Every offer is completed, also if all matchers are stuck: there is      *)
(* always a later time at which no offer that has arrived is open.         *)
EveryOfferCompleted == []<>(received = DOMAIN promises)
=============================================================================
