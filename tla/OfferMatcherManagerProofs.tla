----------------------- MODULE OfferMatcherManagerProofs -----------------------
(* Proofs about OfferMatcherManager, for any offers, matchers, limits and  *)
(* numbers of operations.                                                  *)
(*                                                                         *)
(* A step of the actor passes the books through several functions, so the  *)
(* invariant is about books, with what has arrived (got), the answers on   *)
(* their way (an), the rejected operations (rej) and the number of all     *)
(* operations (n) as parameters.                                           *)
EXTENDS OfferMatcherManager, FiniteSetTheorems, TLAPS

Rounds == UNION {[S -> MatchOfferData] : S \in SUBSET Offers}
Results == UNION {[S -> SUBSET Ops] : S \in SUBSET Offers}
Books == [offerQueues : Rounds, unprocessed : Seq(UnprocessedOffer), asked : SUBSET Question,
          promises : Results]

(* An offer is in progress, waits or is completed, and nobody is asked     *)
(* twice about it at the same time.                                        *)
OffersOK(b, an, got) ==
    /\ DOMAIN b.offerQueues \cap DOMAIN b.promises = {}
    /\ DOMAIN b.offerQueues \cup DOMAIN b.promises \subseteq got
    /\ \A i \in DOMAIN b.unprocessed :
          b.unprocessed[i].offer \in got \ (DOMAIN b.offerQueues \cup DOMAIN b.promises)
    /\ \A i, j \in DOMAIN b.unprocessed : b.unprocessed[i].offer = b.unprocessed[j].offer => i = j
    /\ \A q \in b.asked : q.offer \in DOMAIN b.offerQueues \cup DOMAIN b.promises
    /\ \A a \in an : a.offer \in DOMAIN b.offerQueues \cup DOMAIN b.promises
    /\ \A q, r \in b.asked : q.offer = r.offer => q = r
    /\ \A a, c \in an : a.offer = c.offer => a = c
    /\ \A q \in b.asked, a \in an : q.offer /= a.offer

(* The rounds go on, except for those that are open: their next matcher is *)
(* about to be asked.                                                      *)
RoundsOK(b, an, open) ==
    /\ Cardinality(DOMAIN b.offerQueues) <= conf.maxParallelOffers
    /\ \A o \in open : /\ \A q \in b.asked : q.offer /= o
                       /\ \A a \in an : a.offer /= o
    /\ \A o \in DOMAIN b.offerQueues \ open :
          /\ b.offerQueues[o].matcherQueue /= <<>>
          /\ \/ [offer |-> o, matcher |-> Head(b.offerQueues[o].matcherQueue)] \in b.asked
             \/ \E a \in an : a.offer = o

(* Every operation is in one place.                                        *)
LedgerOK(b, an, rej, n) ==
    /\ \A x : x \in 1..n <=> \/ \E a \in an : x \in a.ops
                             \/ \E o \in DOMAIN b.offerQueues : x \in b.offerQueues[o].ops
                             \/ \E o \in DOMAIN b.promises : x \in b.promises[o]
                             \/ x \in rej
    /\ \A a \in an : a.ops \cap rej = {}
    /\ \A a, c \in an : a /= c => a.ops \cap c.ops = {}
    /\ \A o \in DOMAIN b.offerQueues :
          /\ Cardinality(b.offerQueues[o].ops) <= conf.maxInstancesPerOffer
          /\ b.offerQueues[o].ops \cap rej = {}
          /\ \A a \in an : b.offerQueues[o].ops \cap a.ops = {}
          /\ \A p \in DOMAIN b.offerQueues : o /= p => b.offerQueues[o].ops \cap b.offerQueues[p].ops = {}
    /\ \A o \in DOMAIN b.promises :
          /\ Cardinality(b.promises[o]) <= conf.maxInstancesPerOffer
          /\ b.promises[o] \cap rej = {}
          /\ \A a \in an : b.promises[o] \cap a.ops = {}
          /\ \A p \in DOMAIN b.offerQueues : b.promises[o] \cap b.offerQueues[p].ops = {}

BooksOK(b, an, rej, n, got, open) ==
    /\ b \in Books
    /\ OffersOK(b, an, got)
    /\ RoundsOK(b, an, open)
    /\ LedgerOK(b, an, rej, n)

RestOK ==
    /\ conf \in Configurations
    /\ launchTokens \in Nat
    /\ matchers \subseteq Matchers
    /\ offersWantedInput \in BOOLEAN
    /\ answers \subseteq MatchedInstanceOps
    /\ rejected \subseteq Ops
    /\ received \subseteq Offers
    /\ created \in 0..MaxOps
    /\ changes \in 0..MaxChanges

IInv ==
    /\ RestOK
    /\ BooksOK(books, answers, rejected, created, received, {})
    /\ WantedIsPublished

-----------------------------------------------------------------------------
(* Numbers.                                                                *)

(* Of a finite set, at most k elements have fewer than k below them.       *)
LEMMA FirstOnes ==
    ASSUME NEW S \in SUBSET Int, IsFiniteSet(S), NEW k \in Nat
    PROVE  LET T == {y \in S : Cardinality({x \in S : x < y}) < k}
           IN  IsFiniteSet(T) /\ Cardinality(T) \in Nat /\ Cardinality(T) <= k
<1> DEFINE below(y) == {x \in S : x < y}
           T == {y \in S : Cardinality(below(y)) < k}
           rank == [y \in T |-> Cardinality(below(y))]
<1>1. \A y \in S : IsFiniteSet(below(y)) /\ Cardinality(below(y)) \in Nat
  BY FS_Subset, FS_CardinalityType
<1>2. IsFiniteSet(T) /\ Cardinality(T) \in Nat
  BY FS_Subset, FS_CardinalityType
<1>3. ASSUME NEW y \in S, NEW z \in S, y < z
      PROVE  Cardinality(below(y)) < Cardinality(below(z))
  <2>1. below(y) \in SUBSET below(z)
    <3>1. S \subseteq Int
      OBVIOUS
    <3>2. \A x \in S : x < y => x < z
      BY <1>3, <3>1
    <3> QED BY <3>2
  <2>2. y \in below(z) /\ y \notin below(y)
    BY <1>3
  <2>3. Cardinality(below(y)) <= Cardinality(below(z)) /\ Cardinality(below(y)) /= Cardinality(below(z))
    BY <1>1, <2>1, <2>2, FS_Subset
  <2> QED BY <1>1, <2>3
<1>4. rank \in [T -> 0..(k - 1)]
  <2>1. \A y \in T : Cardinality(below(y)) \in Nat /\ Cardinality(below(y)) < k
    BY <1>1
  <2> HIDE DEF below
  <2>2. \A y \in T : Cardinality(below(y)) \in 0..(k - 1)
    BY <2>1
  <2> QED BY <2>2
<1>5. \A y, z \in T : rank[y] = rank[z] => y = z
  <2> SUFFICES ASSUME NEW y \in T, NEW z \in T, y /= z PROVE rank[y] /= rank[z]
    OBVIOUS
  <2>1. y < z \/ z < y
    OBVIOUS
  <2>2. y \in S /\ z \in S /\ Cardinality(below(y)) \in Nat /\ Cardinality(below(z)) \in Nat
    BY <1>1
  <2>3. Cardinality(below(y)) /= Cardinality(below(z))
    BY <1>3, <2>1, <2>2
  <2> QED BY <2>3
<1>6. rank \in Injection(T, 0..(k - 1))
  BY <1>4, <1>5 DEF Injection, IsInjective
<1>7. IsFiniteSet(0..(k - 1)) /\ Cardinality(0..(k - 1)) = k
  <2>1. Cardinality(0..(k - 1)) = IF 0 > k - 1 THEN 0 ELSE k - 1 - 0 + 1
    BY FS_Interval
  <2> QED BY <2>1, FS_Interval
<1>8. Cardinality(T) <= k
  BY <1>6, <1>7, FS_Injection
<1> QED
  BY <1>2, <1>8

LEMMA Together ==
    ASSUME NEW S, NEW T, IsFiniteSet(S), IsFiniteSet(T)
    PROVE  /\ Cardinality(S \cup T) <= Cardinality(S) + Cardinality(T)
           /\ Cardinality(S) \in Nat /\ Cardinality(T) \in Nat /\ Cardinality(S \cup T) \in Nat
<1>1. IsFiniteSet(S \cap T)
  BY FS_Subset
<1>2. /\ IsFiniteSet(S \cup T)
      /\ Cardinality(S \cup T) = Cardinality(S) + Cardinality(T) - Cardinality(S \cap T)
  BY FS_Union
<1>3. /\ Cardinality(S) \in Nat /\ Cardinality(T) \in Nat
      /\ Cardinality(S \cap T) \in Nat /\ Cardinality(S \cup T) \in Nat
  BY <1>1, <1>2, FS_CardinalityType
<1> QED
  BY <1>2, <1>3

(* Sets of operations are finite.                                          *)
LEMMA OpsFinite ==
    ASSUME OfferMatcherAssumption, NEW S \in SUBSET Ops
    PROVE  IsFiniteSet(S) /\ Cardinality(S) \in Nat /\ S \in SUBSET Int
<1>1. IsFiniteSet(Ops)
  BY FS_Interval DEF Ops, OfferMatcherAssumption
<1>2. IsFiniteSet(S) /\ Cardinality(S) \in Nat
  BY <1>1, FS_Subset, FS_CardinalityType
<1>3. S \in SUBSET Int
  BY DEF Ops, OfferMatcherAssumption
<1> QED
  BY <1>2, <1>3

LEMMA UpTo ==
    ASSUME NEW n \in Nat
    PROVE  IsFiniteSet(1..n) /\ Cardinality(1..n) = n
<1>1. Cardinality(1..n) = IF 1 > n THEN 0 ELSE n - 1 + 1
  BY FS_Interval
<1> QED
  BY <1>1, FS_Interval

LEMMA ConfOK ==
    ASSUME OfferMatcherAssumption, conf \in Configurations
    PROVE  /\ conf.maxParallelOffers \in Nat \ {0} /\ conf.maxInstancesPerOffer \in Nat \ {0}
           /\ conf.maxQueuedOffers \in Nat
  BY DEF OfferMatcherAssumption

-----------------------------------------------------------------------------
(* Books.                                                                  *)

LEMMA BooksType ==
    ASSUME NEW b \in Books
    PROVE  /\ b.offerQueues \in [DOMAIN b.offerQueues -> MatchOfferData] /\ DOMAIN b.offerQueues \subseteq Offers
           /\ b.promises \in [DOMAIN b.promises -> SUBSET Ops] /\ DOMAIN b.promises \subseteq Offers
           /\ b.unprocessed \in Seq(UnprocessedOffer)
           /\ b.asked \subseteq Question
<1>1. b.offerQueues \in Rounds /\ b.promises \in Results
      /\ b.unprocessed \in Seq(UnprocessedOffer) /\ b.asked \subseteq Question
  BY DEF Books
<1>2. PICK S \in SUBSET Offers : b.offerQueues \in [S -> MatchOfferData]
  BY <1>1 DEF Rounds
<1>3. PICK T \in SUBSET Offers : b.promises \in [T -> SUBSET Ops]
  BY <1>1 DEF Results
<1> QED
  BY <1>1, <1>2, <1>3

LEMMA RoundsType ==
    ASSUME NEW S \in SUBSET Offers, NEW f \in [S -> MatchOfferData]
    PROVE  f \in Rounds
  BY DEF Rounds

LEMMA ResultsType ==
    ASSUME NEW S \in SUBSET Offers, NEW f \in [S -> SUBSET Ops]
    PROVE  f \in Results
  BY DEF Results

(* Some rounds (stuck) end with what they have, and some offers (dropped)  *)
(* without having been in progress.                                        *)
Closes(b, c, stuck, dropped) ==
    /\ c \in Books
    /\ DOMAIN c.offerQueues = DOMAIN b.offerQueues \ stuck
    /\ \A o \in DOMAIN c.offerQueues : c.offerQueues[o] = b.offerQueues[o]
    /\ c.asked = b.asked
    /\ DOMAIN c.promises = DOMAIN b.promises \cup stuck \cup dropped
    /\ \A o \in DOMAIN b.promises : c.promises[o] = b.promises[o]
    /\ \A o \in stuck : c.promises[o] = b.offerQueues[o].ops
    /\ \A o \in dropped : c.promises[o] = {}
    /\ \A i \in DOMAIN c.unprocessed : /\ i \in DOMAIN b.unprocessed
                                       /\ c.unprocessed[i] = b.unprocessed[i]
                                       /\ c.unprocessed[i].offer \notin dropped

LEMMA Closed ==
    ASSUME OfferMatcherAssumption, conf \in Configurations,
           NEW b, NEW c, NEW an, NEW rej, NEW n, NEW got, NEW open, NEW stuck, NEW dropped,
           BooksOK(b, an, rej, n, got, open),
           Closes(b, c, stuck, dropped),
           stuck \subseteq DOMAIN b.offerQueues, open \subseteq stuck,
           dropped \subseteq got \ (DOMAIN b.offerQueues \cup DOMAIN b.promises)
    PROVE  BooksOK(c, an, rej, n, got, {})
<1>1. OffersOK(c, an, got)
  BY DEF BooksOK, OffersOK, Closes
<1>2. RoundsOK(c, an, {})
  <2>1. Cardinality(DOMAIN c.offerQueues) <= conf.maxParallelOffers
    <3>1. DOMAIN b.offerQueues \subseteq Offers
      BY BooksType DEF BooksOK
    <3>2. IsFiniteSet(DOMAIN b.offerQueues)
      BY <3>1, FS_Subset DEF OfferMatcherAssumption
    <3>3. /\ Cardinality(DOMAIN c.offerQueues) <= Cardinality(DOMAIN b.offerQueues)
          /\ Cardinality(DOMAIN c.offerQueues) \in Nat /\ Cardinality(DOMAIN b.offerQueues) \in Nat
      BY <3>2, FS_Subset, FS_CardinalityType DEF Closes
    <3> QED BY <3>3, ConfOK DEF BooksOK, RoundsOK
  <2>2. \A o \in DOMAIN c.offerQueues :
          /\ c.offerQueues[o].matcherQueue /= <<>>
          /\ \/ [offer |-> o, matcher |-> Head(c.offerQueues[o].matcherQueue)] \in c.asked
             \/ \E a \in an : a.offer = o
    BY DEF BooksOK, RoundsOK, Closes
  <2> QED BY <2>1, <2>2 DEF RoundsOK
<1>3. LedgerOK(c, an, rej, n)
  <2>1. Cardinality({}) = 0
    BY FS_EmptySet
  <2>2. \A o \in DOMAIN c.promises : \/ o \in DOMAIN b.promises /\ c.promises[o] = b.promises[o]
                                     \/ o \in stuck /\ c.promises[o] = b.offerQueues[o].ops
                                     \/ c.promises[o] = {}
    BY DEF Closes
  <2>3. \A o \in DOMAIN c.promises :
          /\ Cardinality(c.promises[o]) <= conf.maxInstancesPerOffer
          /\ c.promises[o] \cap rej = {}
          /\ \A a \in an : c.promises[o] \cap a.ops = {}
    <3> SUFFICES ASSUME NEW o \in DOMAIN c.promises
                 PROVE  /\ Cardinality(c.promises[o]) <= conf.maxInstancesPerOffer
                        /\ c.promises[o] \cap rej = {}
                        /\ \A a \in an : c.promises[o] \cap a.ops = {}
      OBVIOUS
    <3>1. CASE o \in DOMAIN b.promises /\ c.promises[o] = b.promises[o]
      BY <3>1 DEF BooksOK, LedgerOK
    <3>2. CASE o \in stuck /\ c.promises[o] = b.offerQueues[o].ops
      BY <3>2 DEF BooksOK, LedgerOK
    <3>3. CASE c.promises[o] = {}
      BY <2>1, <3>3, ConfOK
    <3> QED BY <2>2, <3>1, <3>2, <3>3
  <2>4. \A o \in DOMAIN c.promises, p \in DOMAIN c.offerQueues : c.promises[o] \cap c.offerQueues[p].ops = {}
    BY <2>2 DEF BooksOK, LedgerOK, Closes
  <2>5. \A x : x \in 1..n <=> \/ \E a \in an : x \in a.ops
                              \/ \E o \in DOMAIN c.offerQueues : x \in c.offerQueues[o].ops
                              \/ \E o \in DOMAIN c.promises : x \in c.promises[o]
                              \/ x \in rej
    <3>1. ASSUME NEW x
          PROVE  (\/ \E o \in DOMAIN c.offerQueues : x \in c.offerQueues[o].ops
                  \/ \E o \in DOMAIN c.promises : x \in c.promises[o])
                 <=> (\/ \E o \in DOMAIN b.offerQueues : x \in b.offerQueues[o].ops
                      \/ \E o \in DOMAIN b.promises : x \in b.promises[o])
      BY <2>2 DEF Closes
    <3> QED BY <3>1 DEF BooksOK, LedgerOK
  <2> QED BY <2>3, <2>4, <2>5 DEF BooksOK, LedgerOK, Closes
<1> QED
  BY <1>1, <1>2, <1>3 DEF BooksOK, Closes

(* completeWithMatchResult ends a round, completeWithNoMatch an offer that *)
(* has none.                                                               *)
LEMMA RoundCompleted ==
    ASSUME NEW b \in Books, NEW o \in DOMAIN b.offerQueues, o \notin DOMAIN b.promises
    PROVE  Closes(b, completeWithMatchResult(b, o, b.offerQueues[o]), {o}, {})
<1> DEFINE c == completeWithMatchResult(b, o, b.offerQueues[o])
           queues == Without(b.offerQueues, {o})
           results == Put(b.promises, o, b.offerQueues[o].ops)
<1>1. /\ b.offerQueues \in [DOMAIN b.offerQueues -> MatchOfferData] /\ DOMAIN b.offerQueues \subseteq Offers
      /\ b.promises \in [DOMAIN b.promises -> SUBSET Ops] /\ DOMAIN b.promises \subseteq Offers
  BY BooksType
<1>2. b.offerQueues[o].ops \in SUBSET Ops
  BY <1>1 DEF MatchOfferData
<1>3. /\ queues \in [DOMAIN b.offerQueues \ {o} -> MatchOfferData]
      /\ \A x \in DOMAIN b.offerQueues \ {o} : queues[x] = b.offerQueues[x]
  BY <1>1 DEF Without
<1>4. /\ results \in [DOMAIN b.promises \cup {o} -> SUBSET Ops]
      /\ results[o] = b.offerQueues[o].ops
      /\ \A x \in DOMAIN b.promises : results[x] = b.promises[x]
  BY <1>1, <1>2 DEF Put
<1>5. queues \in Rounds /\ results \in Results
  <2> HIDE DEF queues, results
  <2>1. queues \in Rounds
    BY <1>1, <1>3, RoundsType
  <2>2. results \in Results
    BY <1>1, <1>4, ResultsType
  <2> QED BY <2>1, <2>2
<1>6. /\ c \in Books /\ c.offerQueues = queues /\ c.promises = results
      /\ c.asked = b.asked /\ c.unprocessed = b.unprocessed
  <2>1. c = [b EXCEPT !.promises = results, !.offerQueues = queues]
    BY DEF completeWithMatchResult, trySuccess
  <2> HIDE DEF c, queues, results
  <2> QED BY <1>5, <2>1 DEF Books
<1> HIDE DEF c, queues, results
<1> QED
  BY <1>3, <1>4, <1>6 DEF Closes, c

LEMMA OfferCompleted ==
    ASSUME NEW b \in Books, NEW o \in Offers, o \notin DOMAIN b.promises,
           \A i \in DOMAIN b.unprocessed : b.unprocessed[i].offer /= o
    PROVE  Closes(b, completeWithNoMatch(b, o), {}, {o})
<1> DEFINE c == completeWithNoMatch(b, o)
           results == Put(b.promises, o, {})
<1>1. b.promises \in [DOMAIN b.promises -> SUBSET Ops] /\ DOMAIN b.promises \subseteq Offers
  BY BooksType
<1>2. /\ results \in [DOMAIN b.promises \cup {o} -> SUBSET Ops]
      /\ results[o] = {}
      /\ \A x \in DOMAIN b.promises : results[x] = b.promises[x]
  BY <1>1 DEF Put
<1>3. results \in Results
  <2> HIDE DEF results
  <2> QED BY <1>1, <1>2, ResultsType
<1>4. /\ c \in Books /\ c.promises = results /\ c.offerQueues = b.offerQueues
      /\ c.asked = b.asked /\ c.unprocessed = b.unprocessed
  <2>1. c = [b EXCEPT !.promises = results]
    BY DEF completeWithNoMatch, trySuccess
  <2> HIDE DEF c, results
  <2> QED BY <1>3, <2>1 DEF Books
<1> HIDE DEF c, results
<1> QED
  BY <1>2, <1>4 DEF Closes, c

(* rejectElapsedOffers.                                                    *)
Overdue(b) ==
    LET valid == Cardinality({i \in DOMAIN b.unprocessed :
                                 \A j \in 1..i : ~ unprocessedOverdue(b.unprocessed[j])})
    IN  {b.unprocessed[i].offer : i \in (valid + 1)..Len(b.unprocessed)}
Stuck(b) == {o \in DOMAIN b.offerQueues : matchersStuck(b.offerQueues[o])}

LEMMA ElapsedRejected ==
    ASSUME NEW b \in Books, NEW an, NEW got, OffersOK(b, an, got)
    PROVE  /\ Closes(b, rejectElapsedOffers(b), Stuck(b), Overdue(b))
           /\ Stuck(b) \subseteq DOMAIN b.offerQueues
           /\ Overdue(b) \subseteq got \ (DOMAIN b.offerQueues \cup DOMAIN b.promises)
<1> DEFINE c == rejectElapsedOffers(b)
           fresh == {i \in DOMAIN b.unprocessed : \A j \in 1..i : ~ unprocessedOverdue(b.unprocessed[j])}
           valid == Cardinality(fresh)
           rest == SubSeq(b.unprocessed, 1, valid)
           queues == Without(b.offerQueues, Stuck(b))
           results == [o \in DOMAIN b.promises \cup Stuck(b) \cup Overdue(b) |->
                          CASE o \in DOMAIN b.promises -> b.promises[o]
                            [] o \in Stuck(b) -> b.offerQueues[o].ops
                            [] OTHER -> {}]
<1>1. /\ b.offerQueues \in [DOMAIN b.offerQueues -> MatchOfferData] /\ DOMAIN b.offerQueues \subseteq Offers
      /\ b.promises \in [DOMAIN b.promises -> SUBSET Ops] /\ DOMAIN b.promises \subseteq Offers
      /\ b.unprocessed \in Seq(UnprocessedOffer)
      /\ \A o \in DOMAIN b.offerQueues : b.offerQueues[o].ops \in SUBSET Ops
  BY BooksType DEF MatchOfferData
<1>2. valid \in 0..Len(b.unprocessed)
  <2>1. Len(b.unprocessed) \in Nat /\ DOMAIN b.unprocessed = 1..Len(b.unprocessed)
    BY <1>1
  <2>2. IsFiniteSet(1..Len(b.unprocessed)) /\ Cardinality(1..Len(b.unprocessed)) = Len(b.unprocessed)
    BY <2>1, UpTo
  <2>3. fresh \in SUBSET (1..Len(b.unprocessed))
    BY <2>1
  <2> HIDE DEF fresh
  <2>4. valid \in Nat /\ valid <= Cardinality(1..Len(b.unprocessed))
    BY <2>2, <2>3, FS_Subset, FS_CardinalityType
  <2> HIDE DEF valid
  <2> QED BY <2>1, <2>2, <2>4
<1>3. Overdue(b) = {b.unprocessed[i].offer : i \in (valid + 1)..Len(b.unprocessed)}
  BY DEF Overdue
<1> HIDE DEF fresh, valid
<1>4. /\ rest \in Seq(UnprocessedOffer)
      /\ \A i \in DOMAIN rest : i \in DOMAIN b.unprocessed /\ i <= valid /\ rest[i] = b.unprocessed[i]
  BY <1>1, <1>2
<1>5. Stuck(b) \subseteq DOMAIN b.offerQueues
  BY DEF Stuck
<1>6. /\ Overdue(b) \subseteq got \ (DOMAIN b.offerQueues \cup DOMAIN b.promises)
      /\ Overdue(b) \subseteq Offers
  <2>1. \A i \in (valid + 1)..Len(b.unprocessed) : i \in DOMAIN b.unprocessed
    BY <1>1, <1>2
  <2>2. \A i \in DOMAIN b.unprocessed : b.unprocessed[i].offer \in Offers
    <3> HIDE DEF rest, queues, results, c
    <3>1. \A i \in DOMAIN b.unprocessed : b.unprocessed[i] \in UnprocessedOffer
      BY <1>1
    <3> QED BY <3>1 DEF UnprocessedOffer
  <2> QED BY <1>3, <2>1, <2>2 DEF OffersOK
<1>7. \A i \in DOMAIN rest : rest[i].offer \notin Overdue(b)
  <2> SUFFICES ASSUME NEW i \in DOMAIN rest, NEW j \in (valid + 1)..Len(b.unprocessed),
                      rest[i].offer = b.unprocessed[j].offer
               PROVE  FALSE
    BY <1>3
  <2>1. i \in DOMAIN b.unprocessed /\ i <= valid /\ rest[i] = b.unprocessed[i] /\ i \in Nat
    BY <1>1, <1>4
  <2>2. j \in DOMAIN b.unprocessed /\ j > valid
    BY <1>1, <1>2
  <2>3. i = j
    BY <2>1, <2>2 DEF OffersOK
  <2> QED BY <1>2, <2>1, <2>2, <2>3
<1>8. /\ queues \in [DOMAIN b.offerQueues \ Stuck(b) -> MatchOfferData]
      /\ \A o \in DOMAIN b.offerQueues \ Stuck(b) : queues[o] = b.offerQueues[o]
  BY <1>1 DEF Without
<1>9. DOMAIN b.promises \cap Stuck(b) = {} /\ Overdue(b) \cap (DOMAIN b.promises \cup Stuck(b)) = {}
  BY <1>5, <1>6 DEF OffersOK
<1>10. /\ results \in [DOMAIN b.promises \cup Stuck(b) \cup Overdue(b) -> SUBSET Ops]
       /\ \A o \in DOMAIN b.promises : results[o] = b.promises[o]
       /\ \A o \in Stuck(b) : results[o] = b.offerQueues[o].ops
       /\ \A o \in Overdue(b) : results[o] = {}
  BY <1>1, <1>5, <1>9
<1>11. c = [b EXCEPT !.unprocessed = rest, !.offerQueues = queues, !.promises = results]
  <2> DEFINE done == (Overdue(b) \cup Stuck(b)) \ DOMAIN b.promises
  <2>1. c = [b EXCEPT !.unprocessed = rest, !.offerQueues = queues,
                      !.promises = [o \in DOMAIN b.promises \cup done |->
                                      CASE o \notin done -> b.promises[o]
                                        [] o \in done \cap Stuck(b) -> b.offerQueues[o].ops
                                        [] OTHER -> {}]]
    BY DEF rejectElapsedOffers, Overdue, Stuck, fresh, valid
  <2>2. [o \in DOMAIN b.promises \cup done |->
            CASE o \notin done -> b.promises[o]
              [] o \in done \cap Stuck(b) -> b.offerQueues[o].ops
              [] OTHER -> {}] = results
    BY <1>9
  <2> QED BY <2>1, <2>2
<1> HIDE DEF c, rest, queues, results
<1>12. queues \in Rounds
  BY <1>1, <1>8, RoundsType
<1>13. results \in Results
  BY <1>1, <1>5, <1>6, <1>10, ResultsType
<1>14. /\ c \in Books /\ c.offerQueues = queues /\ c.promises = results
       /\ c.asked = b.asked /\ c.unprocessed = rest
  BY <1>4, <1>11, <1>12, <1>13 DEF Books
<1>15. Closes(b, c, Stuck(b), Overdue(b))
  BY <1>4, <1>7, <1>8, <1>10, <1>14 DEF Closes
<1> QED
  BY <1>5, <1>6, <1>15 DEF c

(* The next matcher is asked.                                              *)
LEMMA Asked ==
    ASSUME NEW b, NEW an, NEW rej, NEW n, NEW got, NEW o,
           BooksOK(b, an, rej, n, got, {o}),
           o \in DOMAIN b.offerQueues, b.offerQueues[o].matcherQueue /= <<>>
    PROVE  BooksOK(ask(b, o, Head(b.offerQueues[o].matcherQueue)), an, rej, n, got, {})
<1> DEFINE question == [offer |-> o, matcher |-> Head(b.offerQueues[o].matcherQueue)]
           c == ask(b, o, Head(b.offerQueues[o].matcherQueue))
<1>1. b \in Books /\ b.asked \subseteq Question
  BY BooksType DEF BooksOK
<1>2. question \in Question
  <2>1. o \in Offers /\ b.offerQueues[o] \in MatchOfferData
    BY <1>1, BooksType
  <2>2. b.offerQueues[o].matcherQueue \in Seq(Matchers)
    BY <2>1 DEF MatchOfferData
  <2>3. Head(b.offerQueues[o].matcherQueue) \in Matchers
    BY <2>2
  <2> QED BY <2>1, <2>3 DEF Question
<1>3. c = [b EXCEPT !.asked = b.asked \cup {question}]
  BY DEF ask
<1>4. question.offer = o
  OBVIOUS
<1> HIDE DEF question, c
<1>5. /\ c \in Books /\ c.offerQueues = b.offerQueues /\ c.promises = b.promises
      /\ c.asked = b.asked \cup {question} /\ c.unprocessed = b.unprocessed
  BY <1>1, <1>2, <1>3 DEF Books
<1>6. OffersOK(c, an, got)
  BY <1>4, <1>5 DEF BooksOK, OffersOK, RoundsOK
<1>7. RoundsOK(c, an, {})
  <2>1. \A p \in DOMAIN c.offerQueues :
          /\ c.offerQueues[p].matcherQueue /= <<>>
          /\ \/ [offer |-> p, matcher |-> Head(c.offerQueues[p].matcherQueue)] \in c.asked
             \/ \E a \in an : a.offer = p
    BY <1>5 DEF BooksOK, RoundsOK, question
  <2>2. Cardinality(DOMAIN c.offerQueues) <= conf.maxParallelOffers
    BY <1>5 DEF BooksOK, RoundsOK
  <2> QED BY <2>1, <2>2 DEF RoundsOK
<1>8. LedgerOK(c, an, rej, n)
  BY <1>5 DEF BooksOK, LedgerOK
<1> QED
  BY <1>5, <1>6, <1>7, <1>8 DEF BooksOK, c

(* More offers have arrived.                                               *)
LEMMA Arrived ==
    ASSUME NEW b, NEW an, NEW rej, NEW n, NEW got, NEW open, NEW more, got \subseteq more,
           BooksOK(b, an, rej, n, got, open)
    PROVE  BooksOK(b, an, rej, n, more, open)
<1>1. OffersOK(b, an, more)
  BY DEF BooksOK, OffersOK
<1> QED
  BY <1>1 DEF BooksOK

LEMMA MatchersQueue ==
    ASSUME OfferMatcherAssumption, matchers \subseteq Matchers, matchers /= {},
           NEW o, NEW q \in offerMatchers(o)
    PROVE  q \in Seq(Matchers) /\ q /= <<>> /\ q[1] = Head(q)
<1>1. IsFiniteSet(matchers)
  BY FS_Subset DEF OfferMatcherAssumption
<1>2. Cardinality(matchers) \in Nat /\ Cardinality(matchers) /= 0
  BY <1>1, FS_CardinalityType, FS_EmptySet
<1>3. q \in [1..Cardinality(matchers) -> matchers]
  BY DEF offerMatchers
<1>4. PICK n \in Nat \ {0} : q \in [1..n -> matchers]
  BY <1>2, <1>3
<1>5. q \in Seq(Matchers) /\ Len(q) = n
  BY <1>4
<1> QED
  BY <1>4, <1>5

(* The first offer that waits is taken.                                    *)
LEMMA TakenOff ==
    ASSUME NEW b, NEW an, NEW rej, NEW n, NEW got, NEW open,
           BooksOK(b, an, rej, n, got, open), b.unprocessed /= <<>>
    PROVE  LET o == Head(b.unprocessed).offer
               c == [b EXCEPT !.unprocessed = Tail(@)]
           IN  /\ BooksOK(c, an, rej, n, got, open)
               /\ c.offerQueues = b.offerQueues
               /\ o \in Offers /\ o \in got
               /\ o \notin DOMAIN c.offerQueues \cup DOMAIN c.promises
               /\ \A i \in DOMAIN c.unprocessed : c.unprocessed[i].offer /= o
<1> DEFINE o == Head(b.unprocessed).offer
           rest == Tail(b.unprocessed)
           c == [b EXCEPT !.unprocessed = Tail(@)]
<1>1. b \in Books /\ b.unprocessed \in Seq(UnprocessedOffer)
  BY BooksType DEF BooksOK
<1>2. /\ Head(b.unprocessed) = b.unprocessed[1] /\ 1 \in DOMAIN b.unprocessed
      /\ b.unprocessed[1] \in UnprocessedOffer
      /\ rest \in Seq(UnprocessedOffer)
      /\ \A i \in DOMAIN rest : i \in Nat \ {0} /\ i + 1 \in DOMAIN b.unprocessed /\ rest[i] = b.unprocessed[i + 1]
  BY <1>1
<1> HIDE DEF rest
<1>3. /\ c \in Books /\ c.offerQueues = b.offerQueues /\ c.promises = b.promises
      /\ c.asked = b.asked /\ c.unprocessed = rest
  BY <1>1, <1>2 DEF Books, rest
<1> HIDE DEF c
<1>4. o \in Offers /\ o \in got /\ o \notin DOMAIN c.offerQueues \cup DOMAIN c.promises
  BY <1>2, <1>3 DEF BooksOK, OffersOK, UnprocessedOffer
<1>5. \A i \in DOMAIN rest : rest[i].offer /= o
  <2> SUFFICES ASSUME NEW i \in DOMAIN rest, rest[i].offer = o PROVE FALSE
    OBVIOUS
  <2>1. i + 1 = 1
    BY <1>2 DEF BooksOK, OffersOK
  <2> QED BY <1>2, <2>1
<1>6. \A i, j \in DOMAIN rest : rest[i].offer = rest[j].offer => i = j
  <2> SUFFICES ASSUME NEW i \in DOMAIN rest, NEW j \in DOMAIN rest, rest[i].offer = rest[j].offer PROVE i = j
    OBVIOUS
  <2>1. i + 1 = j + 1
    BY <1>2 DEF BooksOK, OffersOK
  <2> QED BY <1>2, <2>1
<1>7. OffersOK(c, an, got)
  BY <1>2, <1>3, <1>6 DEF BooksOK, OffersOK
<1>8. RoundsOK(c, an, open) /\ LedgerOK(c, an, rej, n)
  BY <1>3 DEF BooksOK, RoundsOK, LedgerOK
<1> QED
  BY <1>3, <1>4, <1>5, <1>7, <1>8 DEF BooksOK, c

(* startProcessOffer.                                                      *)
LEMMA Started ==
    ASSUME OfferMatcherAssumption, conf \in Configurations, matchers \subseteq Matchers, matchers /= {},
           NEW b, NEW an, NEW rej, NEW n, NEW got, NEW o \in Offers, NEW q \in offerMatchers(o),
           BooksOK(b, an, rej, n, got, {}),
           o \in got, o \notin DOMAIN b.offerQueues \cup DOMAIN b.promises,
           \A i \in DOMAIN b.unprocessed : b.unprocessed[i].offer /= o,
           Cardinality(DOMAIN b.offerQueues) < conf.maxParallelOffers
    PROVE  BooksOK(startProcessOffer(b, o, q), an, rej, n, got, {})
<1> DEFINE data == [matcherQueue |-> q, ops |-> {}, age |-> 0]
           queues == Put(b.offerQueues, o, data)
           c == [b EXCEPT !.offerQueues = queues]
<1>1. q \in Seq(Matchers) /\ q /= <<>> /\ q[1] = Head(q)
  BY MatchersQueue
<1>2. /\ b \in Books
      /\ b.offerQueues \in [DOMAIN b.offerQueues -> MatchOfferData] /\ DOMAIN b.offerQueues \subseteq Offers
  BY BooksType DEF BooksOK
<1>3. data \in MatchOfferData /\ data.ops = {} /\ data.matcherQueue = q
  BY <1>1 DEF MatchOfferData, Ages, OfferMatcherAssumption
<1> HIDE DEF data
<1>4. /\ queues \in [DOMAIN b.offerQueues \cup {o} -> MatchOfferData]
      /\ queues[o] = data
      /\ \A x \in DOMAIN b.offerQueues : queues[x] = b.offerQueues[x]
  BY <1>2, <1>3 DEF Put
<1>5. DOMAIN queues = DOMAIN b.offerQueues \cup {o} /\ queues \in Rounds
  <2> HIDE DEF queues
  <2> QED BY <1>2, <1>4, RoundsType
<1> HIDE DEF queues
<1>6. /\ c \in Books /\ c.offerQueues = queues /\ c.promises = b.promises
      /\ c.asked = b.asked /\ c.unprocessed = b.unprocessed
  BY <1>2, <1>5 DEF Books
<1> HIDE DEF c
<1>7. OffersOK(c, an, got)
  BY <1>5, <1>6 DEF BooksOK, OffersOK
<1>8. RoundsOK(c, an, {o})
  <2>1. Cardinality(DOMAIN queues) <= conf.maxParallelOffers
    <3>1. IsFiniteSet(DOMAIN b.offerQueues)
      BY <1>2, FS_Subset DEF OfferMatcherAssumption
    <3>2. Cardinality(DOMAIN queues) = Cardinality(DOMAIN b.offerQueues) + 1
      BY <1>5, <3>1, FS_AddElement
    <3>3. Cardinality(DOMAIN b.offerQueues) \in Nat
      BY <3>1, FS_CardinalityType
    <3> QED BY <3>2, <3>3, ConfOK
  <2>2. (\A x \in b.asked : x.offer /= o) /\ (\A a \in an : a.offer /= o)
    BY DEF BooksOK, OffersOK
  <2> QED BY <1>4, <1>5, <1>6, <2>1, <2>2 DEF BooksOK, RoundsOK
<1>9. LedgerOK(c, an, rej, n)
  <2>1. Cardinality({}) <= conf.maxInstancesPerOffer
    BY FS_EmptySet, ConfOK
  <2>2. \A x : (\E p \in DOMAIN c.offerQueues : x \in c.offerQueues[p].ops)
               <=> (\E p \in DOMAIN b.offerQueues : x \in b.offerQueues[p].ops)
    BY <1>3, <1>4, <1>5, <1>6
  <2>3. \A p \in DOMAIN c.offerQueues : \/ p \in DOMAIN b.offerQueues /\ c.offerQueues[p] = b.offerQueues[p]
                                        \/ c.offerQueues[p].ops = {}
    BY <1>3, <1>4, <1>5, <1>6
  <2>4. \A x : x \in 1..n <=> \/ \E a \in an : x \in a.ops
                              \/ \E p \in DOMAIN c.offerQueues : x \in c.offerQueues[p].ops
                              \/ \E p \in DOMAIN c.promises : x \in c.promises[p]
                              \/ x \in rej
    BY <1>6, <2>2 DEF BooksOK, LedgerOK
  <2>5. \A p \in DOMAIN c.offerQueues :
          /\ Cardinality(c.offerQueues[p].ops) <= conf.maxInstancesPerOffer
          /\ c.offerQueues[p].ops \cap rej = {}
          /\ \A a \in an : c.offerQueues[p].ops \cap a.ops = {}
          /\ \A r \in DOMAIN c.offerQueues : p /= r => c.offerQueues[p].ops \cap c.offerQueues[r].ops = {}
    <3>1. ASSUME NEW p \in DOMAIN c.offerQueues
          PROVE  /\ Cardinality(c.offerQueues[p].ops) <= conf.maxInstancesPerOffer
                 /\ c.offerQueues[p].ops \cap rej = {}
                 /\ \A a \in an : c.offerQueues[p].ops \cap a.ops = {}
      <4>1. CASE c.offerQueues[p].ops = {}
        BY <2>1, <4>1
      <4>2. CASE p \in DOMAIN b.offerQueues /\ c.offerQueues[p] = b.offerQueues[p]
        BY <4>2 DEF BooksOK, LedgerOK
      <4> QED BY <2>3, <4>1, <4>2
    <3>2. ASSUME NEW p \in DOMAIN c.offerQueues, NEW r \in DOMAIN c.offerQueues, p /= r
          PROVE  c.offerQueues[p].ops \cap c.offerQueues[r].ops = {}
      <4>1. CASE c.offerQueues[p].ops = {} \/ c.offerQueues[r].ops = {}
        BY <4>1
      <4>2. CASE /\ p \in DOMAIN b.offerQueues /\ c.offerQueues[p] = b.offerQueues[p]
                 /\ r \in DOMAIN b.offerQueues /\ c.offerQueues[r] = b.offerQueues[r]
        BY <3>2, <4>2 DEF BooksOK, LedgerOK
      <4> QED BY <2>3, <4>1, <4>2
    <3> QED BY <3>1, <3>2
  <2>6. \A p \in DOMAIN c.promises, r \in DOMAIN c.offerQueues : c.promises[p] \cap c.offerQueues[r].ops = {}
    BY <1>6, <2>3 DEF BooksOK, LedgerOK
  <2> QED BY <1>6, <2>4, <2>5, <2>6 DEF BooksOK, LedgerOK
<1>10. BooksOK(c, an, rej, n, got, {o})
  BY <1>6, <1>7, <1>8, <1>9 DEF BooksOK
<1>11. o \in DOMAIN c.offerQueues /\ c.offerQueues[o].matcherQueue = q
  BY <1>3, <1>4, <1>5, <1>6
<1>12. startProcessOffer(b, o, q) = ask(c, o, Head(c.offerQueues[o].matcherQueue))
  BY <1>1, <1>11 DEF startProcessOffer, c, queues, data
<1>13. BooksOK(ask(c, o, Head(c.offerQueues[o].matcherQueue)), an, rej, n, got, {})
  BY <1>1, <1>10, <1>11, Asked
<1> QED
  BY <1>12, <1>13

(* startNextUnprocessedOffer.                                              *)
LEMMA StartedNext ==
    ASSUME OfferMatcherAssumption, conf \in Configurations, matchers \subseteq Matchers, matchers /= {},
           NEW b, NEW an, NEW rej, NEW n, NEW got, NEW c \in startNextUnprocessedOffer(b),
           BooksOK(b, an, rej, n, got, {})
    PROVE  BooksOK(c, an, rej, n, got, {})
<1>1. CASE c = b
  BY <1>1
<1>2. CASE c = rejectElapsedOffers(b)
  <2>1. b \in Books /\ OffersOK(b, an, got)
    BY DEF BooksOK
  <2>2. /\ Closes(b, c, Stuck(b), Overdue(b))
        /\ Stuck(b) \subseteq DOMAIN b.offerQueues
        /\ Overdue(b) \subseteq got \ (DOMAIN b.offerQueues \cup DOMAIN b.promises)
    BY <1>2, <2>1, ElapsedRejected
  <2> QED BY <2>2, Closed
<1>3. CASE /\ b.unprocessed /= <<>> /\ Cardinality(DOMAIN b.offerQueues) < conf.maxParallelOffers
           /\ \E q \in offerMatchers(Head(b.unprocessed).offer) :
                 c = startProcessOffer([b EXCEPT !.unprocessed = Tail(@)], Head(b.unprocessed).offer, q)
  <2> DEFINE o == Head(b.unprocessed).offer
             d == [b EXCEPT !.unprocessed = Tail(@)]
  <2>1. PICK q \in offerMatchers(o) : c = startProcessOffer(d, o, q)
    BY <1>3
  <2>2. /\ BooksOK(d, an, rej, n, got, {})
        /\ d.offerQueues = b.offerQueues
        /\ o \in Offers /\ o \in got
        /\ o \notin DOMAIN d.offerQueues \cup DOMAIN d.promises
        /\ \A i \in DOMAIN d.unprocessed : d.unprocessed[i].offer /= o
    BY <1>3, TakenOff
  <2>3. Cardinality(DOMAIN d.offerQueues) < conf.maxParallelOffers
    BY <1>3, <2>2
  <2> HIDE DEF o, d
  <2> QED BY <2>1, <2>2, <2>3, Started
<1> QED
  BY <1>1, <1>2, <1>3 DEF startNextUnprocessedOffer

(* scheduleNextMatcherOrFinish, for a round that is open.                  *)
LEMMA Scheduled ==
    ASSUME OfferMatcherAssumption, conf \in Configurations, matchers \subseteq Matchers,
           NEW b, NEW an, NEW rej, NEW n, NEW got, NEW o, NEW tokens,
           BooksOK(b, an, rej, n, got, {o}), o \in DOMAIN b.offerQueues,
           NEW c \in scheduleNextMatcherOrFinish(b, o, b.offerQueues[o], tokens)
    PROVE  BooksOK(c, an, rej, n, got, {})
<1> DEFINE completed == completeWithMatchResult(b, o, b.offerQueues[o])
<1>1. BooksOK(completed, an, rej, n, got, {})
  <2>1. b \in Books /\ o \notin DOMAIN b.promises
    BY DEF BooksOK, OffersOK
  <2>2. Closes(b, completed, {o}, {})
    BY <2>1, RoundCompleted
  <2> HIDE DEF completed
  <2> QED BY <2>2, Closed
<1>2. CASE c = completed
  BY <1>1, <1>2
<1>3. CASE matchers /= {} /\ c \in startNextUnprocessedOffer(completed)
  <2> HIDE DEF completed
  <2> QED BY <1>1, <1>3, StartedNext
<1>4. CASE /\ b.offerQueues[o].matcherQueue /= <<>>
           /\ c = ask(b, o, Head(b.offerQueues[o].matcherQueue))
  BY <1>4, Asked
<1> QED
  BY <1>2, <1>3, <1>4 DEF scheduleNextMatcherOrFinish

(* An offer that waits.                                                    *)
LEMMA Queued ==
    ASSUME OfferMatcherAssumption,
           NEW b, NEW an, NEW rej, NEW n, NEW got, NEW o \in Offers,
           BooksOK(b, an, rej, n, got, {}),
           o \in got, o \notin DOMAIN b.offerQueues \cup DOMAIN b.promises,
           \A i \in DOMAIN b.unprocessed : b.unprocessed[i].offer /= o
    PROVE  BooksOK([b EXCEPT !.unprocessed = <<[offer |-> o, age |-> 0]>> \o @], an, rej, n, got, {})
<1> DEFINE u == [offer |-> o, age |-> 0]
           longer == <<u>> \o b.unprocessed
           c == [b EXCEPT !.unprocessed = <<[offer |-> o, age |-> 0]>> \o @]
<1>1. b \in Books /\ b.unprocessed \in Seq(UnprocessedOffer)
  BY BooksType DEF BooksOK
<1>2. u \in UnprocessedOffer /\ u.offer = o
  BY DEF UnprocessedOffer, Ages, OfferMatcherAssumption
<1>3. c = [b EXCEPT !.unprocessed = longer]
  OBVIOUS
<1> HIDE DEF u, c
<1>4. /\ longer \in Seq(UnprocessedOffer)
      /\ \A i \in DOMAIN longer : \/ i = 1 /\ longer[i] = u
                                  \/ i - 1 \in DOMAIN b.unprocessed /\ longer[i] = b.unprocessed[i - 1]
      /\ \A i \in DOMAIN longer : i \in Nat
  BY <1>1, <1>2
<1> HIDE DEF longer
<1>5. /\ c \in Books /\ c.offerQueues = b.offerQueues /\ c.promises = b.promises
      /\ c.asked = b.asked /\ c.unprocessed = longer
  BY <1>1, <1>3, <1>4 DEF Books
<1>6. \A i, j \in DOMAIN longer : longer[i].offer = longer[j].offer => i = j
  <2> SUFFICES ASSUME NEW i \in DOMAIN longer, NEW j \in DOMAIN longer, longer[i].offer = longer[j].offer
               PROVE  i = j
    OBVIOUS
  <2>1. CASE i = 1 /\ longer[i] = u /\ j = 1
    BY <2>1
  <2>2. CASE /\ i - 1 \in DOMAIN b.unprocessed /\ longer[i] = b.unprocessed[i - 1]
             /\ j - 1 \in DOMAIN b.unprocessed /\ longer[j] = b.unprocessed[j - 1]
    <3>1. i - 1 = j - 1
      BY <2>2 DEF BooksOK, OffersOK
    <3> QED BY <1>4, <3>1
  <2>3. CASE longer[i] = u /\ j - 1 \in DOMAIN b.unprocessed /\ longer[j] = b.unprocessed[j - 1]
    BY <1>2, <2>3
  <2>4. CASE longer[j] = u /\ i - 1 \in DOMAIN b.unprocessed /\ longer[i] = b.unprocessed[i - 1]
    BY <1>2, <2>4
  <2> QED BY <1>4, <2>1, <2>2, <2>3, <2>4
<1>7. \A i \in DOMAIN longer : longer[i].offer \in got \ (DOMAIN b.offerQueues \cup DOMAIN b.promises)
  BY <1>2, <1>4 DEF BooksOK, OffersOK
<1>8. OffersOK(c, an, got)
  BY <1>5, <1>6, <1>7 DEF BooksOK, OffersOK
<1>9. RoundsOK(c, an, {}) /\ LedgerOK(c, an, rej, n)
  BY <1>5 DEF BooksOK, RoundsOK, LedgerOK
<1> QED
  BY <1>5, <1>8, <1>9 DEF BooksOK, c

(* A matcher answers with k new operations.                                *)
LEMMA Answered ==
    ASSUME NEW b, NEW an, NEW rej, NEW n \in Nat, NEW got, NEW q \in b.asked, NEW k \in Nat,
           BooksOK(b, an, rej, n, got, {})
    PROVE  BooksOK([b EXCEPT !.asked = @ \ {q}],
                   an \cup {[offer |-> q.offer, ops |-> (n + 1)..(n + k)]}, rej, n + k, got, {})
<1> DEFINE reply == [offer |-> q.offer, ops |-> (n + 1)..(n + k)]
           c == [b EXCEPT !.asked = @ \ {q}]
<1>1. reply.offer = q.offer /\ reply.ops = (n + 1)..(n + k)
  OBVIOUS
<1> HIDE DEF reply
<1>2. /\ c \in Books /\ c.offerQueues = b.offerQueues /\ c.promises = b.promises
      /\ c.asked = b.asked \ {q} /\ c.unprocessed = b.unprocessed
  BY DEF BooksOK, Books
<1> HIDE DEF c
<1>3. OffersOK(c, an \cup {reply}, got)
  BY <1>1, <1>2 DEF BooksOK, OffersOK
<1>4. RoundsOK(c, an \cup {reply}, {})
  <2>1. \A o \in DOMAIN c.offerQueues :
          /\ c.offerQueues[o].matcherQueue /= <<>>
          /\ \/ [offer |-> o, matcher |-> Head(c.offerQueues[o].matcherQueue)] \in c.asked
             \/ \E a \in an \cup {reply} : a.offer = o
    <3> SUFFICES ASSUME NEW o \in DOMAIN b.offerQueues
                 PROVE  /\ b.offerQueues[o].matcherQueue /= <<>>
                        /\ \/ [offer |-> o, matcher |-> Head(b.offerQueues[o].matcherQueue)] \in b.asked \ {q}
                           \/ \E a \in an \cup {reply} : a.offer = o
      BY <1>2
    <3>1. CASE q.offer = o
      BY <1>1, <3>1 DEF BooksOK, RoundsOK
    <3>2. CASE q.offer /= o
      BY <3>2 DEF BooksOK, RoundsOK
    <3> QED BY <3>1, <3>2
  <2> QED BY <1>2, <2>1 DEF BooksOK, RoundsOK
<1>5. LedgerOK(c, an \cup {reply}, rej, n + k)
  <2>1. \A x : x \in 1..(n + k) <=> x \in 1..n \/ x \in reply.ops
    BY <1>1
  <2>2. reply.ops \cap (1..n) = {}
    BY <1>1
  <2>3. /\ \A a \in an : a.ops \subseteq 1..n
        /\ \A o \in DOMAIN b.offerQueues : b.offerQueues[o].ops \subseteq 1..n
        /\ \A o \in DOMAIN b.promises : b.promises[o] \subseteq 1..n
        /\ rej \subseteq 1..n
    BY DEF BooksOK, LedgerOK
  <2>4. \A x : x \in 1..(n + k) <=> \/ \E a \in an \cup {reply} : x \in a.ops
                                    \/ \E o \in DOMAIN b.offerQueues : x \in b.offerQueues[o].ops
                                    \/ \E o \in DOMAIN b.promises : x \in b.promises[o]
                                    \/ x \in rej
    <3> SUFFICES ASSUME NEW x
                 PROVE  x \in 1..(n + k) <=> \/ \E a \in an \cup {reply} : x \in a.ops
                                             \/ \E o \in DOMAIN b.offerQueues : x \in b.offerQueues[o].ops
                                             \/ \E o \in DOMAIN b.promises : x \in b.promises[o]
                                             \/ x \in rej
      OBVIOUS
    <3>1. (\E a \in an \cup {reply} : x \in a.ops) <=> (\E a \in an : x \in a.ops) \/ x \in reply.ops
      OBVIOUS
    <3>2. x \in 1..n <=> \/ \E a \in an : x \in a.ops
                         \/ \E o \in DOMAIN b.offerQueues : x \in b.offerQueues[o].ops
                         \/ \E o \in DOMAIN b.promises : x \in b.promises[o]
                         \/ x \in rej
      BY DEF BooksOK, LedgerOK
    <3> QED BY <2>1, <3>1, <3>2
  <2>5. \A a, d \in an \cup {reply} : a /= d => a.ops \cap d.ops = {}
    <3> SUFFICES ASSUME NEW a \in an \cup {reply}, NEW d \in an \cup {reply}, a /= d
                 PROVE  a.ops \cap d.ops = {}
      OBVIOUS
    <3>1. CASE a \in an /\ d \in an
      BY <3>1 DEF BooksOK, LedgerOK
    <3>2. CASE a = reply /\ d \in an
      BY <2>2, <2>3, <3>2
    <3>3. CASE d = reply /\ a \in an
      BY <2>2, <2>3, <3>3
    <3> QED BY <3>1, <3>2, <3>3
  <2>6. \A a \in an \cup {reply} : a.ops \cap rej = {}
    BY <2>2, <2>3 DEF BooksOK, LedgerOK
  <2>7. \A o \in DOMAIN b.offerQueues, a \in an \cup {reply} : b.offerQueues[o].ops \cap a.ops = {}
    BY <2>2, <2>3 DEF BooksOK, LedgerOK
  <2>8. \A o \in DOMAIN b.promises, a \in an \cup {reply} : b.promises[o] \cap a.ops = {}
    BY <2>2, <2>3 DEF BooksOK, LedgerOK
  <2> QED BY <1>2, <2>4, <2>5, <2>6, <2>7, <2>8 DEF BooksOK, LedgerOK
<1> QED
  BY <1>2, <1>3, <1>4, <1>5 DEF BooksOK, c, reply

(* The operations of an answer that are accepted.                          *)
LEMMA Accepted ==
    ASSUME OfferMatcherAssumption, conf \in Configurations, launchTokens \in Nat,
           NEW data \in MatchOfferData, NEW a \in MatchedInstanceOps,
           Cardinality(data.ops) <= conf.maxInstancesPerOffer
    PROVE  LET accepted == acceptedOps(data, a)
           IN  /\ accepted \subseteq a.ops
               /\ Cardinality(accepted) \in Nat /\ Cardinality(accepted) <= launchTokens
               /\ Cardinality(data.ops \cup accepted) <= conf.maxInstancesPerOffer
<1> DEFINE accepted == acceptedOps(data, a)
           count == acceptedCount(data, a)
           room == conf.maxInstancesPerOffer - Cardinality(data.ops)
<1>1. a.ops \in SUBSET Ops /\ data.ops \in SUBSET Ops
  BY DEF MatchOfferData, MatchedInstanceOps
<1>2. /\ IsFiniteSet(a.ops) /\ Cardinality(a.ops) \in Nat /\ a.ops \in SUBSET Int
      /\ IsFiniteSet(data.ops) /\ Cardinality(data.ops) \in Nat
  BY <1>1, OpsFinite
<1>3. room \in Nat
  BY <1>2, ConfOK
<1>4. count \in Nat /\ count <= launchTokens /\ count <= room
  <2> HIDE DEF room
  <2>1. count = LET limit == IF launchTokens < room THEN launchTokens ELSE room
                IN  IF Cardinality(a.ops) < limit THEN Cardinality(a.ops) ELSE limit
    BY DEF acceptedCount, room
  <2> HIDE DEF count
  <2> QED BY <1>2, <1>3, <2>1
<1>5. accepted = {y \in a.ops : Cardinality({x \in a.ops : x < y}) < count}
  BY DEF acceptedOps
<1> HIDE DEF accepted, count
<1>6. IsFiniteSet(accepted) /\ Cardinality(accepted) \in Nat /\ Cardinality(accepted) <= count
  BY <1>2, <1>4, <1>5, FirstOnes
<1>7. /\ Cardinality(data.ops \cup accepted) <= Cardinality(data.ops) + Cardinality(accepted)
      /\ Cardinality(data.ops \cup accepted) \in Nat
  BY <1>2, <1>6, Together
<1>8. Cardinality(data.ops \cup accepted) <= conf.maxInstancesPerOffer
  BY <1>2, <1>3, <1>4, <1>6, <1>7, ConfOK
<1>9. accepted \subseteq a.ops
  BY <1>5
<1>10. Cardinality(accepted) <= launchTokens
  BY <1>4, <1>6
<1> QED
  BY <1>6, <1>8, <1>9, <1>10 DEF accepted

(* An answer is entered in the round of its offer, which is then open.     *)
Updated(b, a) == processAddedInstances(b.offerQueues[a.offer], a)
Refused(b, a) == a.ops \ acceptedOps(b.offerQueues[a.offer], a)
EnteredIn(b, a) == [b EXCEPT !.offerQueues = Put(@, a.offer, Updated(b, a))]

LEMMA Entered ==
    ASSUME OfferMatcherAssumption, conf \in Configurations, launchTokens \in Nat,
           NEW b, NEW an, NEW rej, NEW n, NEW got, NEW a \in an,
           an \subseteq MatchedInstanceOps,
           BooksOK(b, an, rej, n, got, {}), a.offer \in DOMAIN b.offerQueues
    PROVE  LET c == EnteredIn(b, a)
           IN  /\ BooksOK(c, an \ {a}, rej \cup Refused(b, a), n, got, {a.offer})
               /\ a.offer \in DOMAIN c.offerQueues /\ c.offerQueues[a.offer] = Updated(b, a)
<1> DEFINE o == a.offer
           old == b.offerQueues[o]
           data == Updated(b, a)
           accepted == acceptedOps(old, a)
           refused == Refused(b, a)
           queues == Put(b.offerQueues, o, data)
           c == EnteredIn(b, a)
<1>1. /\ b \in Books
      /\ b.offerQueues \in [DOMAIN b.offerQueues -> MatchOfferData] /\ DOMAIN b.offerQueues \subseteq Offers
  BY BooksType DEF BooksOK
<1>2. old \in MatchOfferData /\ a \in MatchedInstanceOps /\ Cardinality(old.ops) <= conf.maxInstancesPerOffer
  BY <1>1 DEF BooksOK, LedgerOK
<1>3. /\ accepted \subseteq a.ops
      /\ Cardinality(old.ops \cup accepted) <= conf.maxInstancesPerOffer
  BY <1>2, Accepted
<1>4. data \in MatchOfferData /\ data.ops = old.ops \cup accepted
  <2>1. /\ old.matcherQueue \in Seq(Matchers) /\ old.ops \subseteq Ops /\ old.age \in Ages
        /\ a.ops \subseteq Ops /\ old.matcherQueue /= <<>>
    BY <1>2 DEF MatchOfferData, MatchedInstanceOps, BooksOK, RoundsOK
  <2>2. /\ Tail(old.matcherQueue) \in Seq(Matchers)
        /\ Append(Tail(old.matcherQueue), Head(old.matcherQueue)) \in Seq(Matchers)
    BY <2>1
  <2> DEFINE next == IF a.ops /= {} THEN Append(Tail(old.matcherQueue), Head(old.matcherQueue))
                                    ELSE Tail(old.matcherQueue)
  <2>3. data = [old EXCEPT !.ops = old.ops \cup accepted, !.matcherQueue = next]
    BY DEF processAddedInstances, Updated
  <2>4. next \in Seq(Matchers)
    BY <2>2
  <2> HIDE DEF next, data, accepted, old
  <2> QED BY <1>2, <1>3, <2>1, <2>3, <2>4 DEF MatchOfferData
<1> HIDE DEF data, accepted
<1>5. /\ queues \in [DOMAIN b.offerQueues -> MatchOfferData]
      /\ queues[o] = data
      /\ \A x \in DOMAIN b.offerQueues \ {o} : queues[x] = b.offerQueues[x]
  BY <1>1, <1>4 DEF Put
<1>6. DOMAIN queues = DOMAIN b.offerQueues /\ queues \in Rounds
  <2> HIDE DEF queues
  <2> QED BY <1>1, <1>5, RoundsType
<1>7. c = [b EXCEPT !.offerQueues = queues]
  BY DEF EnteredIn, data
<1> HIDE DEF queues, c
<1>8. /\ c \in Books /\ c.offerQueues = queues /\ c.promises = b.promises
      /\ c.asked = b.asked /\ c.unprocessed = b.unprocessed
  BY <1>1, <1>6, <1>7 DEF Books
<1>9. OffersOK(c, an \ {a}, got)
  BY <1>6, <1>8 DEF BooksOK, OffersOK
<1>10. RoundsOK(c, an \ {a}, {o})
  <2>1. (\A x \in b.asked : x.offer /= o) /\ (\A d \in an \ {a} : d.offer /= o)
    BY DEF BooksOK, OffersOK
  <2>2. \A p \in DOMAIN b.offerQueues \ {o} :
          /\ b.offerQueues[p].matcherQueue /= <<>>
          /\ \/ [offer |-> p, matcher |-> Head(b.offerQueues[p].matcherQueue)] \in b.asked
             \/ \E d \in an \ {a} : d.offer = p
    BY DEF BooksOK, RoundsOK
  <2>3. Cardinality(DOMAIN b.offerQueues) <= conf.maxParallelOffers
    BY DEF BooksOK, RoundsOK
  <2> QED BY <1>5, <1>6, <1>8, <2>1, <2>2, <2>3 DEF RoundsOK
<1>11. LedgerOK(c, an \ {a}, rej \cup refused, n)
  <2> DEFINE less == an \ {a}
             more == rej \cup refused
  <2>1. /\ \A p \in DOMAIN queues \ {o} : p \in DOMAIN b.offerQueues /\ queues[p].ops = b.offerQueues[p].ops
        /\ queues[o].ops = old.ops \cup accepted
        /\ a.ops = accepted \cup refused /\ accepted \cap refused = {}
        /\ o \in DOMAIN b.offerQueues
    BY <1>3, <1>4, <1>5, <1>6 DEF Refused, accepted
  <2> HIDE DEF refused, old
  <2>2. /\ \A d \in an : d.ops \cap rej = {}
        /\ \A d, e \in an : d /= e => d.ops \cap e.ops = {}
        /\ \A p \in DOMAIN b.offerQueues :
             /\ b.offerQueues[p].ops \cap rej = {}
             /\ \A d \in an : b.offerQueues[p].ops \cap d.ops = {}
             /\ \A r \in DOMAIN b.offerQueues : p /= r => b.offerQueues[p].ops \cap b.offerQueues[r].ops = {}
        /\ \A p \in DOMAIN b.promises :
             /\ Cardinality(b.promises[p]) <= conf.maxInstancesPerOffer
             /\ b.promises[p] \cap rej = {}
             /\ \A d \in an : b.promises[p] \cap d.ops = {}
             /\ \A r \in DOMAIN b.offerQueues : b.promises[p] \cap b.offerQueues[r].ops = {}
        /\ \A p \in DOMAIN b.offerQueues : Cardinality(b.offerQueues[p].ops) <= conf.maxInstancesPerOffer
    BY DEF BooksOK, LedgerOK
  <2>3. \A x : x \in 1..n <=> \/ \E d \in less : x \in d.ops
                              \/ \E p \in DOMAIN queues : x \in queues[p].ops
                              \/ \E p \in DOMAIN b.promises : x \in b.promises[p]
                              \/ x \in more
    <3> SUFFICES ASSUME NEW x
                 PROVE  x \in 1..n <=> \/ \E d \in less : x \in d.ops
                                       \/ \E p \in DOMAIN queues : x \in queues[p].ops
                                       \/ \E p \in DOMAIN b.promises : x \in b.promises[p]
                                       \/ x \in more
      OBVIOUS
    <3>1. x \in 1..n <=> \/ \E d \in an : x \in d.ops
                         \/ \E p \in DOMAIN b.offerQueues : x \in b.offerQueues[p].ops
                         \/ \E p \in DOMAIN b.promises : x \in b.promises[p]
                         \/ x \in rej
      BY DEF BooksOK, LedgerOK
    <3>2. (\E d \in an : x \in d.ops) <=> (\E d \in less : x \in d.ops) \/ x \in accepted \/ x \in refused
      BY <2>1
    <3>3. (\E p \in DOMAIN queues : x \in queues[p].ops)
          <=> (\E p \in DOMAIN b.offerQueues : x \in b.offerQueues[p].ops) \/ x \in accepted
      BY <1>6, <2>1 DEF old
    <3> QED BY <3>1, <3>2, <3>3
  <2>4. (\A d \in less : d.ops \cap more = {}) /\ (\A d, e \in less : d /= e => d.ops \cap e.ops = {})
    BY <2>1, <2>2
  <2>5. \A p \in DOMAIN queues :
          /\ Cardinality(queues[p].ops) <= conf.maxInstancesPerOffer
          /\ queues[p].ops \cap more = {}
          /\ \A d \in less : queues[p].ops \cap d.ops = {}
    <3> SUFFICES ASSUME NEW p \in DOMAIN queues
                 PROVE  /\ Cardinality(queues[p].ops) <= conf.maxInstancesPerOffer
                        /\ queues[p].ops \cap more = {}
                        /\ \A d \in less : queues[p].ops \cap d.ops = {}
      OBVIOUS
    <3>1. CASE p = o
      BY <1>3, <2>1, <2>2, <3>1 DEF old
    <3>2. CASE p /= o
      BY <2>1, <2>2, <3>2
    <3> QED BY <3>1, <3>2
  <2>6. \A p, r \in DOMAIN queues : p /= r => queues[p].ops \cap queues[r].ops = {}
    <3> SUFFICES ASSUME NEW p \in DOMAIN queues, NEW r \in DOMAIN queues, p /= r
                 PROVE  queues[p].ops \cap queues[r].ops = {}
      OBVIOUS
    <3>1. CASE p = o
      BY <2>1, <2>2, <3>1 DEF old
    <3>2. CASE r = o
      BY <2>1, <2>2, <3>2 DEF old
    <3>3. CASE p /= o /\ r /= o
      BY <2>1, <2>2, <3>3
    <3> QED BY <3>1, <3>2, <3>3
  <2>7. \A p \in DOMAIN b.promises :
          /\ Cardinality(b.promises[p]) <= conf.maxInstancesPerOffer
          /\ b.promises[p] \cap more = {}
          /\ \A d \in less : b.promises[p] \cap d.ops = {}
          /\ \A r \in DOMAIN queues : b.promises[p] \cap queues[r].ops = {}
    <3> SUFFICES ASSUME NEW p \in DOMAIN b.promises
                 PROVE  /\ Cardinality(b.promises[p]) <= conf.maxInstancesPerOffer
                        /\ b.promises[p] \cap more = {}
                        /\ \A d \in less : b.promises[p] \cap d.ops = {}
                        /\ \A r \in DOMAIN queues : b.promises[p] \cap queues[r].ops = {}
      OBVIOUS
    <3>1. \A r \in DOMAIN queues : b.promises[p] \cap queues[r].ops = {}
      <4> SUFFICES ASSUME NEW r \in DOMAIN queues PROVE b.promises[p] \cap queues[r].ops = {}
        OBVIOUS
      <4>1. CASE r = o
        BY <2>1, <2>2, <4>1 DEF old
      <4>2. CASE r /= o
        BY <2>1, <2>2, <4>2
      <4> QED BY <4>1, <4>2
    <3> QED BY <2>1, <2>2, <3>1
  <2> HIDE DEF less, more
  <2> QED BY <1>8, <2>3, <2>4, <2>5, <2>6, <2>7 DEF LedgerOK, less, more
<1>12. BooksOK(c, an \ {a}, rej \cup refused, n, got, {o})
  BY <1>8, <1>9, <1>10, <1>11 DEF BooksOK
<1>13. o \in DOMAIN c.offerQueues /\ c.offerQueues[o] = data
  BY <1>5, <1>6, <1>8
<1> QED
  BY <1>12, <1>13 DEF c, data, accepted

(* An answer that comes too late is rejected.                              *)
LEMMA TooLate ==
    ASSUME NEW b, NEW an, NEW rej, NEW n, NEW got, NEW a \in an,
           BooksOK(b, an, rej, n, got, {}), a.offer \notin DOMAIN b.offerQueues
    PROVE  BooksOK(b, an \ {a}, rej \cup a.ops, n, got, {})
<1>1. OffersOK(b, an \ {a}, got)
  BY DEF BooksOK, OffersOK
<1>2. RoundsOK(b, an \ {a}, {})
  BY DEF BooksOK, RoundsOK
<1>3. LedgerOK(b, an \ {a}, rej \cup a.ops, n)
  <2>1. \A x : (x \in rej \cup a.ops \/ \E d \in an \ {a} : x \in d.ops)
               <=> (x \in rej \/ \E d \in an : x \in d.ops)
    OBVIOUS
  <2> QED BY <2>1 DEF BooksOK, LedgerOK
<1> QED
  BY <1>1, <1>2, <1>3 DEF BooksOK

(* Everything gets older.                                                  *)
LEMMA Older ==
    ASSUME OfferMatcherAssumption,
           NEW b, NEW an, NEW rej, NEW n, NEW got, BooksOK(b, an, rej, n, got, {})
    PROVE  LET queues == [o \in DOMAIN b.offerQueues |-> [b.offerQueues[o] EXCEPT !.age = older(@)]]
               waiting == [i \in DOMAIN b.unprocessed |-> [b.unprocessed[i] EXCEPT !.age = older(@)]]
           IN  BooksOK([b EXCEPT !.offerQueues = queues, !.unprocessed = waiting], an, rej, n, got, {})
<1> DEFINE queues == [o \in DOMAIN b.offerQueues |-> [b.offerQueues[o] EXCEPT !.age = older(@)]]
           waiting == [i \in DOMAIN b.unprocessed |-> [b.unprocessed[i] EXCEPT !.age = older(@)]]
           c == [b EXCEPT !.offerQueues = queues, !.unprocessed = waiting]
<1>1. /\ b \in Books
      /\ b.offerQueues \in [DOMAIN b.offerQueues -> MatchOfferData] /\ DOMAIN b.offerQueues \subseteq Offers
      /\ b.unprocessed \in Seq(UnprocessedOffer)
  BY BooksType DEF BooksOK
<1>2. \A age \in Ages : older(age) \in Ages
  BY DEF Ages, older, OfferMatcherAssumption
<1>3. /\ queues \in [DOMAIN b.offerQueues -> MatchOfferData]
      /\ \A o \in DOMAIN b.offerQueues : /\ queues[o].matcherQueue = b.offerQueues[o].matcherQueue
                                         /\ queues[o].ops = b.offerQueues[o].ops
  BY <1>1, <1>2 DEF MatchOfferData
<1>4. /\ waiting \in Seq(UnprocessedOffer) /\ DOMAIN waiting = DOMAIN b.unprocessed
      /\ \A i \in DOMAIN b.unprocessed : waiting[i].offer = b.unprocessed[i].offer
  <2>1. /\ DOMAIN b.unprocessed = 1..Len(b.unprocessed) /\ Len(b.unprocessed) \in Nat
        /\ \A i \in DOMAIN b.unprocessed : b.unprocessed[i] \in UnprocessedOffer
    BY <1>1
  <2>2. \A i \in DOMAIN b.unprocessed : /\ waiting[i] \in UnprocessedOffer
                                        /\ waiting[i].offer = b.unprocessed[i].offer
    BY <1>2, <2>1 DEF UnprocessedOffer
  <2>3. DOMAIN waiting = DOMAIN b.unprocessed /\ waiting = [i \in 1..Len(b.unprocessed) |-> waiting[i]]
    BY <2>1
  <2> HIDE DEF waiting
  <2>4. waiting \in [1..Len(b.unprocessed) -> UnprocessedOffer]
    BY <2>1, <2>2, <2>3
  <2>5. waiting \in Seq(UnprocessedOffer)
    BY <2>1, <2>4
  <2> QED BY <2>2, <2>3, <2>5
<1> HIDE DEF queues, waiting
<1>5. DOMAIN queues = DOMAIN b.offerQueues /\ queues \in Rounds
  BY <1>1, <1>3, RoundsType
<1>6. /\ c \in Books /\ c.offerQueues = queues /\ c.promises = b.promises
      /\ c.asked = b.asked /\ c.unprocessed = waiting
  BY <1>1, <1>4, <1>5 DEF Books
<1> HIDE DEF c
<1>7. OffersOK(c, an, got)
  BY <1>4, <1>5, <1>6 DEF BooksOK, OffersOK
<1>8. RoundsOK(c, an, {})
  BY <1>3, <1>5, <1>6 DEF BooksOK, RoundsOK
<1>9. LedgerOK(c, an, rej, n)
  <2>1. \A x : (\E o \in DOMAIN queues : x \in queues[o].ops)
               <=> (\E o \in DOMAIN b.offerQueues : x \in b.offerQueues[o].ops)
    BY <1>3, <1>5
  <2> QED BY <1>3, <1>5, <1>6, <2>1 DEF BooksOK, LedgerOK
<1> QED
  BY <1>6, <1>7, <1>8, <1>9 DEF BooksOK, c, queues, waiting

-----------------------------------------------------------------------------
(* The steps.                                                              *)

BooksKept == BooksOK(books, answers, rejected, created, received, {})

LEMMA Kept ==
    ASSUME NEW c, keep(c), conf' = conf, BooksOK(c, answers', rejected', created', received', {})
    PROVE  BooksKept'
<1>1. /\ c \in Books
      /\ c = [offerQueues |-> c.offerQueues, unprocessed |-> c.unprocessed, asked |-> c.asked,
              promises |-> c.promises]
  BY DEF BooksOK, Books
<1>2. books' = c
  BY <1>1 DEF books, keep
<1>3. OffersOK(books', answers', received')
  BY <1>2 DEF BooksOK
<1>4. RoundsOK(books, answers, {})'
  <2>1. RoundsOK(c, answers', {})
    BY DEF BooksOK
  <2> QED BY <1>2, <2>1 DEF RoundsOK
<1>5. LedgerOK(books, answers, rejected, created)'
  <2>1. LedgerOK(c, answers', rejected', created')
    BY DEF BooksOK
  <2> QED BY <1>2, <2>1 DEF LedgerOK
<1>6. (books \in Books)'
  BY <1>1, <1>2 DEF Books, Rounds, Results, MatchOfferData, UnprocessedOffer, Question, Ages, Ops
<1> QED
  BY <1>3, <1>4, <1>5, <1>6 DEF BooksKept, BooksOK, OffersOK

LEMMA BooksUntouched ==
    ASSUME BooksKept, UNCHANGED others
    PROVE  BooksKept'
<1>1. BooksOK(books, answers', rejected', created', received', {}) /\ keep(books)
  BY DEF BooksKept, others, keep, books
<1> QED
  BY <1>1, Kept DEF others

(* At the start nothing is on the books.                                   *)
LEMMA InitOK == OfferMatcherAssumption /\ Init => IInv
<1> SUFFICES ASSUME OfferMatcherAssumption, Init PROVE IInv
  OBVIOUS
<1> DEFINE none == [o \in {} |-> {}]
<1>1. none \in Rounds /\ none \in Results /\ DOMAIN none = {}
  <2>1. none \in [{} -> MatchOfferData] /\ none \in [{} -> SUBSET Ops] /\ DOMAIN none = {}
    OBVIOUS
  <2> HIDE DEF none
  <2> QED BY <2>1, RoundsType, ResultsType
<1>2. books = [offerQueues |-> none, unprocessed |-> <<>>, asked |-> {}, promises |-> none]
  BY DEF Init, Nothing, books
<1> HIDE DEF none
<1>3. books \in Books
  BY <1>1, <1>2 DEF Books
<1>4. /\ books.offerQueues = none /\ books.promises = none
      /\ books.asked = {} /\ books.unprocessed = <<>>
  BY <1>2
<1>5. OffersOK(books, answers, received)
  BY <1>1, <1>4 DEF OffersOK, Init
<1>6. RoundsOK(books, answers, {})
  BY <1>1, <1>4, FS_EmptySet, ConfOK DEF RoundsOK, Init
<1>7. LedgerOK(books, answers, rejected, created)
  BY <1>1, <1>4 DEF LedgerOK, Init
<1>8. RestOK
  <2>1. 0 \in Nat /\ 0 \in 0..MaxOps /\ 0 \in 0..MaxChanges
    BY DEF OfferMatcherAssumption
  <2> QED BY <2>1, Zenon DEF RestOK, Init
<1>9. WantedIsPublished
  BY DEF WantedIsPublished, offersWanted, Init
<1> QED
  BY <1>3, <1>5, <1>6, <1>7, <1>8, <1>9 DEF IInv, BooksOK

LEMMA Published ==
    ASSUME updateOffersWanted
    PROVE  offersWantedInput' \in BOOLEAN /\ WantedIsPublished'
  BY Zenon DEF updateOffersWanted, WantedIsPublished, offersWanted

LEMMA RestUntouched ==
    ASSUME RestOK, UNCHANGED others, launchTokens' \in Nat, matchers' \subseteq Matchers,
           offersWantedInput' \in BOOLEAN, changes' \in 0..MaxChanges
    PROVE  RestOK'
  BY Zenon DEF RestOK, others

LEMMA SetInstanceLaunchTokensOK ==
    ASSUME OfferMatcherAssumption, IInv, SetInstanceLaunchTokens
    PROVE  IInv'
<1>1. BooksKept'
  <2>1. BooksKept
    BY DEF IInv, BooksKept
  <2>2. UNCHANGED others
    BY DEF SetInstanceLaunchTokens
  <2> QED BY <2>1, <2>2, BooksUntouched
<1>2. offersWantedInput' \in BOOLEAN /\ WantedIsPublished'
  <2>1. /\ launchTokens' = launchTokensPerInterval /\ matchers' = matchers
        /\ launchTokens \in Nat /\ offersWantedInput \in BOOLEAN /\ WantedIsPublished
    BY DEF SetInstanceLaunchTokens, IInv, RestOK
  <2>2. CASE launchTokens <= 0
    <3>1. updateOffersWanted
      BY <2>2, <2>1 DEF SetInstanceLaunchTokens
    <3> QED BY <3>1, Published
  <2>3. CASE ~ (launchTokens <= 0)
    <3>1. offersWantedInput' = offersWantedInput
      BY <2>3, <2>1 DEF SetInstanceLaunchTokens
    <3>2. launchTokens > 0
      BY <2>3, <2>1
    <3> QED BY <2>1, <3>1, <3>2, Zenon DEF WantedIsPublished, offersWanted
  <2> QED BY <2>2, <2>3
<1>3. RestOK'
  <2>1. launchTokens' \in Nat /\ changes' \in 0..MaxChanges /\ matchers' \subseteq Matchers
    BY DEF SetInstanceLaunchTokens, IInv, RestOK, OfferMatcherAssumption
  <2>2. UNCHANGED others /\ RestOK
    BY DEF SetInstanceLaunchTokens, IInv
  <2> QED BY <1>2, <2>1, <2>2, RestUntouched
<1> QED
  BY <1>1, <1>2, <1>3 DEF IInv, BooksKept

LEMMA AddInstanceLaunchTokensOK ==
    ASSUME OfferMatcherAssumption, IInv, AddInstanceLaunchTokens
    PROVE  IInv'
<1>1. BooksKept'
  <2>1. BooksKept
    BY DEF IInv, BooksKept
  <2>2. UNCHANGED others
    BY DEF AddInstanceLaunchTokens
  <2> QED BY <2>1, <2>2, BooksUntouched
<1>2. offersWantedInput' \in BOOLEAN /\ WantedIsPublished'
  <2>1. /\ launchTokens' = launchTokens + 1 /\ matchers' = matchers
        /\ launchTokens \in Nat /\ offersWantedInput \in BOOLEAN /\ WantedIsPublished
    BY DEF AddInstanceLaunchTokens, IInv, RestOK
  <2>2. CASE launchTokens + 1 = 1
    <3>1. updateOffersWanted
      BY <2>2, <2>1 DEF AddInstanceLaunchTokens
    <3> QED BY <3>1, Published
  <2>3. CASE ~ (launchTokens + 1 = 1)
    <3>1. offersWantedInput' = offersWantedInput
      BY <2>3, <2>1 DEF AddInstanceLaunchTokens
    <3>2. launchTokens > 0
      BY <2>3, <2>1
    <3> QED BY <2>1, <3>1, <3>2, Zenon DEF WantedIsPublished, offersWanted
  <2> QED BY <2>2, <2>3
<1>3. RestOK'
  <2>1. launchTokens' \in Nat /\ changes' \in 0..MaxChanges /\ matchers' \subseteq Matchers
    BY DEF AddInstanceLaunchTokens, IInv, RestOK, OfferMatcherAssumption
  <2>2. UNCHANGED others /\ RestOK
    BY DEF AddInstanceLaunchTokens, IInv
  <2> QED BY <1>2, <2>1, <2>2, RestUntouched
<1> QED
  BY <1>1, <1>2, <1>3 DEF IInv, BooksKept

LEMMA MatchersOK ==
    ASSUME OfferMatcherAssumption, IInv,
           NEW m \in Matchers, AddOrUpdateMatcher(m) \/ RemoveMatcher(m)
    PROVE  IInv'
<1>1. /\ changes < MaxChanges /\ changes' = changes + 1
      /\ matchers' \subseteq Matchers
      /\ UNCHANGED <<launchTokens, others>>
      /\ updateOffersWanted
  BY DEF IInv, RestOK, AddOrUpdateMatcher, RemoveMatcher
<1>2. BooksKept'
  <2>1. BooksKept
    BY DEF IInv, BooksKept
  <2> QED BY <1>1, <2>1, BooksUntouched
<1>3. RestOK'
  BY <1>1 DEF IInv, RestOK, others, updateOffersWanted, OfferMatcherAssumption
<1>4. WantedIsPublished'
  BY <1>1 DEF updateOffersWanted, WantedIsPublished, offersWanted
<1> QED
  BY <1>2, <1>3, <1>4 DEF IInv, BooksKept

LEMMA MatchOfferOK ==
    ASSUME OfferMatcherAssumption, IInv, NEW o \in Offers, MatchOffer(o)
    PROVE  IInv'
<1>1. /\ o \notin received /\ received' = received \cup {o}
      /\ UNCHANGED <<conf, launchTokens, matchers, offersWantedInput, answers, rejected, created, changes>>
  BY DEF MatchOffer
<1>2. /\ BooksOK(books, answers, rejected, created, received', {})
      /\ o \notin DOMAIN books.offerQueues \cup DOMAIN books.promises
      /\ \A i \in DOMAIN books.unprocessed : books.unprocessed[i].offer /= o
      /\ o \in received'
      /\ books \in Books
  <2>1. BooksOK(books, answers, rejected, created, received, {})
    BY DEF IInv
  <2>2. BooksOK(books, answers, rejected, created, received', {})
    BY <1>1, <2>1, Arrived
  <2> QED BY <1>1, <2>1, <2>2 DEF BooksOK, OffersOK
<1>3. ASSUME keep(completeWithNoMatch(books, o))
      PROVE  BooksKept'
  <2>1. Closes(books, completeWithNoMatch(books, o), {}, {o})
    BY <1>2, OfferCompleted
  <2>2. BooksOK(completeWithNoMatch(books, o), answers, rejected, created, received', {})
    BY <1>2, <2>1, Closed DEF IInv, RestOK
  <2> QED BY <1>1, <1>3, <2>2, Kept
<1>4. ASSUME offersWanted, Cardinality(DOMAIN offerQueues) < conf.maxParallelOffers,
             \E q \in offerMatchers(o) : keep(startProcessOffer(books, o, q))
      PROVE  BooksKept'
  <2>1. PICK q \in offerMatchers(o) : keep(startProcessOffer(books, o, q))
    BY <1>4
  <2>2. Cardinality(DOMAIN books.offerQueues) < conf.maxParallelOffers /\ matchers /= {}
    BY <1>4 DEF books, offersWanted
  <2>3. BooksOK(startProcessOffer(books, o, q), answers, rejected, created, received', {})
    BY <1>2, <2>2, Started DEF IInv, RestOK
  <2> QED BY <1>1, <2>1, <2>3, Kept
<1>5. ASSUME keep([books EXCEPT !.unprocessed = <<[offer |-> o, age |-> 0]>> \o @])
      PROVE  BooksKept'
  <2>1. BooksOK([books EXCEPT !.unprocessed = <<[offer |-> o, age |-> 0]>> \o @],
                answers, rejected, created, received', {})
    BY <1>2, Queued
  <2> QED BY <1>1, <1>5, <2>1, Kept
<1>6. BooksKept'
  BY <1>3, <1>4, <1>5 DEF MatchOffer
<1>7. RestOK' /\ WantedIsPublished'
  BY <1>1 DEF IInv, RestOK, WantedIsPublished, offersWanted
<1> QED
  BY <1>6, <1>7 DEF IInv, BooksKept

LEMMA AnswerOK ==
    ASSUME OfferMatcherAssumption, IInv, NEW q \in asked, Answer(q)
    PROVE  IInv'
<1>1. PICK k \in 0..MaxAnswer :
        /\ created + k <= MaxOps /\ created' = created + k
        /\ answers' = answers \cup {[offer |-> q.offer, ops |-> (created + 1)..(created + k)]}
  BY DEF Answer
<1>2. k \in Nat /\ created \in Nat /\ created' \in 0..MaxOps
  BY <1>1 DEF IInv, RestOK, OfferMatcherAssumption
<1>3. /\ asked' = asked \ {q}
      /\ UNCHANGED <<conf, launchTokens, matchers, offerQueues, unprocessedOffers, offersWantedInput,
                     promises, rejected, received, changes>>
  BY DEF Answer
<1>4. q \in books.asked /\ q \in Question
  BY BooksType DEF IInv, BooksOK, books
<1> DEFINE c == [books EXCEPT !.asked = @ \ {q}]
<1>5. BooksOK(c, answers \cup {[offer |-> q.offer, ops |-> (created + 1)..(created + k)]},
              rejected, created + k, received, {})
  BY <1>2, <1>4, Answered DEF IInv
<1>6. keep(c)
  BY <1>3 DEF keep, books
<1> HIDE DEF c
<1>7. BooksOK(c, answers', rejected', created', received', {})
  BY <1>1, <1>3, <1>5
<1>8. BooksKept'
  BY <1>3, <1>6, <1>7, Kept
<1>9. answers' \subseteq MatchedInstanceOps
  <2>1. (created + 1)..(created + k) \subseteq Ops
    BY <1>1, <1>2 DEF Ops, OfferMatcherAssumption
  <2>2. [offer |-> q.offer, ops |-> (created + 1)..(created + k)] \in MatchedInstanceOps
    BY <1>4, <2>1 DEF Question, MatchedInstanceOps
  <2> QED BY <1>1, <2>2 DEF IInv, RestOK
<1>10. RestOK'
  BY <1>2, <1>3, <1>9, Zenon DEF IInv, RestOK
<1>11. WantedIsPublished'
  BY <1>3 DEF IInv, WantedIsPublished, offersWanted
<1> QED
  BY <1>8, <1>10, <1>11 DEF IInv, BooksKept

LEMMA ReceiveMatchedInstancesOK ==
    ASSUME OfferMatcherAssumption, IInv, NEW a \in answers, ReceiveMatchedInstances(a)
    PROVE  IInv'
<1> DEFINE old == books.offerQueues[a.offer]
           data == Updated(books, a)
           accepted == acceptedOps(old, a)
           refused == Refused(books, a)
           tokens == launchTokens - Cardinality(accepted)
           c == EnteredIn(books, a)
<1>1. books.offerQueues = offerQueues
  BY DEF books
<1>2. PICK d \in scheduleNextMatcherOrFinish(c, a.offer, data, tokens) : keep(d)
  BY <1>1 DEF ReceiveMatchedInstances, EnteredIn, Updated
<1>3. /\ a.offer \in DOMAIN books.offerQueues
      /\ launchTokens' = tokens /\ rejected' = rejected \cup refused
      /\ answers' = answers \ {a}
      /\ UNCHANGED <<conf, matchers, offersWantedInput, received, created, changes>>
  BY <1>1 DEF ReceiveMatchedInstances, Refused
<1>4. /\ conf \in Configurations /\ launchTokens \in Nat /\ answers \subseteq MatchedInstanceOps
      /\ matchers \subseteq Matchers
      /\ BooksOK(books, answers, rejected, created, received, {})
  BY DEF IInv, RestOK
<1>5. /\ accepted \subseteq a.ops
      /\ Cardinality(accepted) \in Nat /\ Cardinality(accepted) <= launchTokens
  <2>1. old \in MatchOfferData /\ a \in MatchedInstanceOps /\ Cardinality(old.ops) <= conf.maxInstancesPerOffer
    <3>1. books \in Books /\ LedgerOK(books, answers, rejected, created)
      BY <1>4 DEF BooksOK
    <3>2. old \in MatchOfferData
      BY <1>3, <3>1, BooksType
    <3> QED BY <1>3, <1>4, <3>1, <3>2 DEF LedgerOK
  <2> HIDE DEF old
  <2> QED BY <1>4, <2>1, Accepted
<1>6. /\ BooksOK(c, answers \ {a}, rejected \cup refused, created, received, {a.offer})
      /\ a.offer \in DOMAIN c.offerQueues /\ c.offerQueues[a.offer] = data
  <2>1. a.offer \in DOMAIN books.offerQueues
    BY <1>3
  <2> HIDE DEF c, data, refused, tokens, accepted
  <2> QED BY <1>4, <2>1, Entered DEF c, data, refused
<1> HIDE DEF c, data, refused, tokens, accepted
<1>7. BooksOK(d, answers \ {a}, rejected \cup refused, created, received, {})
  <2>1. d \in scheduleNextMatcherOrFinish(c, a.offer, c.offerQueues[a.offer], tokens)
    BY <1>2, <1>6
  <2> QED BY <1>4, <1>6, <2>1, Scheduled
<1>8. BooksKept'
  <2>1. BooksOK(d, answers', rejected', created', received', {})
    BY <1>3, <1>7
  <2> QED BY <1>2, <1>3, <2>1, Kept
<1>9. tokens \in Nat /\ (tokens > 0 => launchTokens > 0)
  BY <1>4, <1>5 DEF tokens
<1>10. RestOK'
  <2>1. rejected' \subseteq Ops
    BY <1>3, <1>4, <1>5 DEF IInv, RestOK, refused, Refused, MatchedInstanceOps
  <2> QED BY <1>3, <1>9, <2>1, Zenon DEF IInv, RestOK
<1>11. WantedIsPublished'
  BY <1>3, <1>9, Zenon DEF IInv, WantedIsPublished, offersWanted
<1> QED
  BY <1>8, <1>10, <1>11 DEF IInv, BooksKept

LEMMA ReceiveTooLateOK ==
    ASSUME OfferMatcherAssumption, IInv, NEW a \in answers, ReceiveTooLate(a)
    PROVE  IInv'
<1>1. /\ a.offer \notin DOMAIN books.offerQueues
      /\ rejected' = rejected \cup a.ops /\ answers' = answers \ {a}
      /\ UNCHANGED <<conf, launchTokens, matchers, offerQueues, unprocessedOffers, offersWantedInput, asked,
                     promises, received, created, changes>>
  BY DEF ReceiveTooLate, books
<1>2. BooksOK(books, answers \ {a}, rejected \cup a.ops, created, received, {})
  BY <1>1, TooLate DEF IInv
<1>3. BooksOK(books, answers', rejected', created', received', {})
  BY <1>1, <1>2
<1>4. keep(books)
  BY <1>1 DEF keep, books
<1>5. BooksKept'
  BY <1>1, <1>3, <1>4, Kept
<1>6. rejected' \subseteq Ops
  BY <1>1 DEF IInv, RestOK, MatchedInstanceOps
<1>7. RestOK' /\ WantedIsPublished'
  BY <1>1, <1>6 DEF IInv, RestOK, WantedIsPublished, offersWanted
<1> QED
  BY <1>5, <1>7 DEF IInv, BooksKept

LEMMA CleanUpOverdueOffersOK ==
    ASSUME OfferMatcherAssumption, IInv, CleanUpOverdueOffers
    PROVE  IInv'
<1>1. /\ keep(rejectElapsedOffers(books))
      /\ UNCHANGED <<conf, launchTokens, matchers, offersWantedInput, answers, rejected, received, created,
                     changes>>
  BY DEF CleanUpOverdueOffers
<1>2. /\ BooksOK(books, answers, rejected, created, received, {}) /\ conf \in Configurations
      /\ books \in Books /\ OffersOK(books, answers, received)
  BY DEF IInv, RestOK, BooksOK
<1>3. /\ Closes(books, rejectElapsedOffers(books), Stuck(books), Overdue(books))
      /\ Stuck(books) \subseteq DOMAIN books.offerQueues
      /\ Overdue(books) \subseteq received \ (DOMAIN books.offerQueues \cup DOMAIN books.promises)
  BY <1>2, ElapsedRejected
<1>4. BooksOK(rejectElapsedOffers(books), answers, rejected, created, received, {})
  BY <1>2, <1>3, Closed
<1>5. BooksOK(rejectElapsedOffers(books), answers', rejected', created', received', {})
  BY <1>1, <1>4
<1>6. BooksKept'
  BY <1>1, <1>5, Kept
<1>7. RestOK' /\ WantedIsPublished'
  BY <1>1 DEF IInv, RestOK, WantedIsPublished, offersWanted
<1> QED
  BY <1>6, <1>7 DEF IInv, BooksKept

LEMMA TickOK ==
    ASSUME OfferMatcherAssumption, IInv, Tick
    PROVE  IInv'
<1> DEFINE queues == [o \in DOMAIN books.offerQueues |-> [books.offerQueues[o] EXCEPT !.age = older(@)]]
           waiting == [i \in DOMAIN books.unprocessed |-> [books.unprocessed[i] EXCEPT !.age = older(@)]]
           c == [books EXCEPT !.offerQueues = queues, !.unprocessed = waiting]
<1>1. UNCHANGED <<conf, launchTokens, matchers, offersWantedInput, asked, answers, promises, rejected,
                  received, created, changes>>
  BY DEF Tick
<1>2. BooksOK(c, answers, rejected, created, received, {})
  BY Older DEF IInv
<1>3. keep(c)
  <2>1. offerQueues' = queues /\ unprocessedOffers' = waiting
    BY DEF Tick, books
  <2> HIDE DEF queues, waiting
  <2> QED BY <1>1, <2>1 DEF keep, books
<1> HIDE DEF c
<1>4. BooksOK(c, answers', rejected', created', received', {})
  BY <1>1, <1>2
<1>5. BooksKept'
  BY <1>1, <1>3, <1>4, Kept
<1>6. RestOK' /\ WantedIsPublished'
  BY <1>1 DEF IInv, RestOK, WantedIsPublished, offersWanted
<1> QED
  BY <1>5, <1>6 DEF IInv, BooksKept

LEMMA NextOK == OfferMatcherAssumption /\ IInv /\ [Next]_vars => IInv'
<1> SUFFICES ASSUME OfferMatcherAssumption, IInv, [Next]_vars PROVE IInv'
  OBVIOUS
<1>1. CASE UNCHANGED vars
  <2>1. BooksKept /\ UNCHANGED others
    BY <1>1 DEF IInv, BooksKept, vars, others
  <2>2. BooksKept'
    BY <2>1, BooksUntouched
  <2>3. RestOK' /\ WantedIsPublished'
    BY <1>1 DEF IInv, RestOK, WantedIsPublished, offersWanted, vars
  <2> QED BY <2>2, <2>3 DEF IInv, BooksKept
<1>2. ASSUME NEW m \in Matchers, AddOrUpdateMatcher(m) \/ RemoveMatcher(m) PROVE IInv'
  BY <1>2, MatchersOK
<1>3. ASSUME NEW o \in Offers, MatchOffer(o) PROVE IInv'
  BY <1>3, MatchOfferOK
<1>4. ASSUME NEW q \in asked, Answer(q) PROVE IInv'
  BY <1>4, AnswerOK
<1>5. ASSUME NEW a \in answers, ReceiveMatchedInstances(a) \/ ReceiveTooLate(a) PROVE IInv'
  BY <1>5, ReceiveMatchedInstancesOK, ReceiveTooLateOK
<1> QED
  BY <1>1, <1>2, <1>3, <1>4, <1>5, SetInstanceLaunchTokensOK, AddInstanceLaunchTokensOK,
     CleanUpOverdueOffersOK, TickOK
  DEF Next

LEMMA Invariance == OfferMatcherAssumption => (Spec => []IInv)
<1> SUFFICES ASSUME OfferMatcherAssumption PROVE Spec => []IInv
  OBVIOUS
<1>1. Init => IInv
  BY InitOK
<1>2. IInv /\ [Next]_vars => IInv'
  BY NextOK
<1> QED
  BY <1>1, <1>2, PTL DEF Spec

(* The state of the actor is well formed: the queue of a round holds       *)
(* matchers, and a completed offer has operations that were really made.   *)
THEOREM TypeCorrect == Spec => []TypeOK
<1>1. IInv => TypeOK
  <2> SUFFICES ASSUME IInv PROVE TypeOK
    OBVIOUS
  <2>1. books \in Books
    BY DEF IInv, BooksOK
  <2>2. /\ offerQueues \in [DOMAIN offerQueues -> MatchOfferData] /\ DOMAIN offerQueues \subseteq Offers
        /\ promises \in [DOMAIN promises -> SUBSET Ops] /\ DOMAIN promises \subseteq Offers
        /\ unprocessedOffers \in Seq(UnprocessedOffer)
        /\ asked \subseteq Question
    BY <2>1, BooksType DEF books
  <2>3. \A o \in DOMAIN offerQueues : offerQueues[o] \in MatchOfferData
    BY <2>2
  <2>4. \A o \in DOMAIN promises : promises[o] \subseteq Ops
    BY <2>2
  <2> QED BY <2>2, <2>3, <2>4, Zenon DEF IInv, RestOK, TypeOK
<1> QED
  BY <1>1, Invariance, OfferMatcherAssumption, PTL

(* No operation of a matcher is lost, counted twice or launched after it   *)
(* was rejected, whatever the matchers, timeouts and late answers do.      *)
THEOREM OpsCorrect == Spec => []OpsAccountedFor
<1>1. IInv => OpsAccountedFor
  <2> SUFFICES ASSUME IInv PROVE OpsAccountedFor
    OBVIOUS
  <2>1. LedgerOK(books, answers, rejected, created)
    BY DEF IInv, BooksOK
  <2>2. books.offerQueues = offerQueues /\ books.promises = promises
    BY DEF books
  <2>3. UNION Places = 1..created
    <3>1. \A x : x \in 1..created <=> \/ \E a \in answers : x \in a.ops
                                      \/ \E o \in DOMAIN offerQueues : x \in offerQueues[o].ops
                                      \/ \E o \in DOMAIN promises : x \in promises[o]
                                      \/ x \in rejected
      BY <2>1, <2>2 DEF LedgerOK
    <3>2. \A x : x \in UNION Places <=> \/ \E a \in answers : x \in a.ops
                                        \/ \E o \in DOMAIN offerQueues : x \in offerQueues[o].ops
                                        \/ \E o \in DOMAIN promises : x \in promises[o]
                                        \/ x \in rejected
      BY DEF Places
    <3> QED BY <3>1, <3>2
  <2> QED BY <2>1, <2>2, <2>3 DEF LedgerOK, OpsAccountedFor
<1> QED
  BY <1>1, Invariance, OfferMatcherAssumption, PTL

(* A round has exactly one matcher at work, so it cannot stop and cannot   *)
(* be driven by two answers at once; and the limit of rounds is kept.      *)
THEOREM RoundsCorrect == Spec => []RoundsGoOn
<1>1. IInv => RoundsGoOn
  <2> SUFFICES ASSUME IInv PROVE RoundsGoOn
    OBVIOUS
  <2>1. OffersOK(books, answers, received) /\ RoundsOK(books, answers, {})
    BY DEF IInv, BooksOK
  <2>2. /\ books.offerQueues = offerQueues /\ books.promises = promises /\ books.asked = asked
        /\ books.unprocessed = unprocessedOffers
    BY DEF books
  <2>3. Cardinality(DOMAIN offerQueues) <= conf.maxParallelOffers
    BY <2>1, <2>2 DEF RoundsOK
  <2>4. \A i \in DOMAIN unprocessedOffers : unprocessedOffers[i].offer \notin DOMAIN promises
    BY <2>1, <2>2 DEF OffersOK
  <2>5. ASSUME NEW o \in DOMAIN offerQueues
        PROVE  /\ o \notin DOMAIN promises
               /\ offerQueues[o].matcherQueue /= <<>>
               /\ LET questions == {q \in asked : q.offer = o}
                      replies == {a \in answers : a.offer = o}
                  IN  \/ /\ questions = {[offer |-> o, matcher |-> Head(offerQueues[o].matcherQueue)]}
                         /\ replies = {}
                      \/ questions = {} /\ Cardinality(replies) = 1
    <3> DEFINE questions == {q \in asked : q.offer = o}
               replies == {a \in answers : a.offer = o}
               question == [offer |-> o, matcher |-> Head(offerQueues[o].matcherQueue)]
    <3>1. o \notin DOMAIN promises /\ offerQueues[o].matcherQueue /= <<>>
      BY <2>1, <2>2 DEF OffersOK, RoundsOK
    <3>2. CASE question \in asked
      <4>1. question.offer = o
        OBVIOUS
      <4> HIDE DEF question
      <4>2. questions = {question} /\ replies = {}
        BY <2>1, <2>2, <3>2, <4>1 DEF OffersOK
      <4> QED BY <3>1, <4>2 DEF question
    <3>3. CASE \E a \in answers : a.offer = o
      <4>1. PICK a \in answers : a.offer = o
        BY <3>3
      <4>2. replies = {a} /\ questions = {}
        BY <2>1, <2>2, <4>1 DEF OffersOK
      <4>3. Cardinality(replies) = 1
        BY <4>2, FS_Singleton
      <4> QED BY <3>1, <4>2, <4>3
    <3>4. question \in asked \/ \E a \in answers : a.offer = o
      BY <2>1, <2>2 DEF RoundsOK
    <3> QED BY <3>2, <3>3, <3>4
  <2> QED BY <2>3, <2>4, <2>5 DEF RoundsGoOn
<1> QED
  BY <1>1, Invariance, OfferMatcherAssumption, PTL

(* The tokens and the matchers may change in any order: while offers are   *)
(* wanted, the last that was published is that they are.                   *)
THEOREM WantedCorrect == Spec => []WantedIsPublished
<1>1. IInv => WantedIsPublished
  BY DEF IInv
<1> QED
  BY <1>1, Invariance, OfferMatcherAssumption, PTL

==============================================================================
