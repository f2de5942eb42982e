--------------------------- MODULE MCTaskLauncher ---------------------------
(* An instance of TaskLauncher for TLC.                                    *)
EXTENDS TaskLauncher

CONSTANTS i1, i2, v1, v2

Of(cond, r) == [cond |-> cond, ref |-> r]
Tracked(x, y) == [i \in Instances |-> IF i = i1 THEN x ELSE y]

(* Two versions that run, so that both may get a delay; one instance that  *)
(* may be matched twice, found in any state by the new leader.             *)
MCScenarios ==
    {[loaded |-> Tracked(Of("launched", v1), Of("launched", v2)), offers |-> 1, events |-> 2]}
    \cup {[loaded |-> Tracked(x, None), offers |-> 2, events |-> 1] :
             x \in {None} \cup {Of(c, v1) : c \in Conditions}}
=============================================================================
