--------------------------- MODULE MCTaskReplace ---------------------------
(* Instances of TaskReplace for TLC.                                       *)
EXTENDS TaskReplace

Upgrade(n, least, over, resident, health, readiness, existing, waiting, wrong) ==
    [instances |-> n, minimumHealthCapacity |-> least, maximumOverCapacity |-> over,
     isResident |-> resident, hasHealthChecks |-> health, hasReadinessChecks |-> readiness,
     existing |-> existing, waiting |-> waiting, faults |-> wrong]

(* Without room for another instance, with one waiting, with room for one, *)
(* on reservations, and with one instance too many; what goes wrong may go *)
(* wrong at any time.                                                      *)
MCUpgrades ==
    {Upgrade(2, 10, 0, FALSE, FALSE, FALSE, 2, 0, 1),
     Upgrade(2, 10, 0, FALSE, FALSE, FALSE, 2, 1, 1),
     Upgrade(1, 10, 0, FALSE, TRUE, FALSE, 1, 0, 2),
     Upgrade(2, 5, 5, FALSE, TRUE, FALSE, 2, 0, 1),
     Upgrade(2, 5, 0, TRUE, FALSE, FALSE, 2, 0, 1),
     Upgrade(1, 5, 0, TRUE, TRUE, FALSE, 1, 0, 1),
     Upgrade(1, 10, 10, FALSE, TRUE, TRUE, 2, 0, 1),
     Upgrade(1, 10, 10, FALSE, FALSE, TRUE, 1, 0, 2)}

(* The default strategy of a run spec with persistent volumes.             *)
ResidentUpgrade == {Upgrade(2, 5, 0, TRUE, FALSE, FALSE, 2, 0, 1)}
=============================================================================
