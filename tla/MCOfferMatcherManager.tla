----------------------- MODULE MCOfferMatcherManager -----------------------
EXTENDS OfferMatcherManager

CONSTANTS o1, o2, o3, m1, m2

(* The first offer carries a reservation for the second matcher.           *)
Reserved == [o \in Offers |-> IF o = o1 THEN {m2} ELSE {}]

(* One round at a time and a queue, or two rounds that share the tokens.   *)
Limits == {[maxParallelOffers |-> 1, maxQueuedOffers |-> 1, maxInstancesPerOffer |-> 2],
           [maxParallelOffers |-> 2, maxQueuedOffers |-> 0, maxInstancesPerOffer |-> 1]}
=============================================================================
