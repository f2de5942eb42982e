--------------------------- MODULE MCInstanceTracker ---------------------------
(* Instances of InstanceTracker for TLC: an instance of one app that is    *)
(* scheduled, changed twice or changed and expunged, with a query behind   *)
(* the changes, and an instance of another app.                            *)
EXTENDS InstanceTracker

CONSTANTS i1, i2, app1, app2

MCInstances == {i1, i2}
TwoApps == (i1 :> app1) @@ (i2 :> app2)
OneApp == [i \in MCInstances |-> app1]

Calls == [
    schedule |-> [kind |-> "Schedule", instance |-> i1],
    change   |-> [kind |-> "Change", instance |-> i1],
    change2  |-> [kind |-> "Change", instance |-> i1],
    expunge  |-> [kind |-> "Expunge", instance |-> i1],
    other    |-> [kind |-> "Schedule", instance |-> i2],
    query    |-> [kind |-> "Query", instance |-> i1]]

Expunging == {"schedule", "change", "expunge", "query"}
Changing == {"schedule", "change", "change2"}
Blocking == {"schedule", "change", "other"}

MCKindOf == [u \in Updates |-> Calls[u].kind]
MCInstanceOf == [u \in Updates |-> Calls[u].instance]
================================================================================
