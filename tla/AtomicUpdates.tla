---------------------------- MODULE AtomicUpdates ----------------------------
(* What InstanceTracker.process and specInstances(readAfterWrite = true)   *)
(* promise to their callers: an update takes effect at one moment between  *)
(* the call and its answer, or not at all.  Answered "ok" means that it    *)
(* has, "failed" that it never will, "lost" (the leader is gone) leaves it *)
(* open.  A query is answered with the instances at one such moment.       *)
(*                                                                         *)
(* An instance is represented by the set of the updates that made it, so   *)
(* that an update applied twice, dropped or overwritten can be told apart. *)
EXTENDS FiniteSets

CONSTANTS Instances, Updates, KindOf, InstanceOf, AppOf, NoResult

VARIABLES state, outcome, result

vars == <<state, outcome, result>>

Kinds == {"Schedule", "Change", "Expunge", "Query"}
Outcomes == {"none", "open", "applied", "ok", "failed", "lost"}
Absent == {}

(* The updates that change the instance in this state, and the result.     *)
accepts(instance, u) ==
    \/ KindOf[u] = "Schedule" /\ instance = Absent
    \/ KindOf[u] \in {"Change", "Expunge"} /\ instance /= Absent

after(instance, u) == IF KindOf[u] = "Expunge" THEN Absent ELSE instance \cup {u}

(* The updates that may be answered "ok" without a change.                 *)
ignores(instance, u) ==
    \/ KindOf[u] = "Change" /\ instance /= Absent
    \/ KindOf[u] = "Expunge" /\ instance = Absent

specInstances(s, app) == [i \in {j \in Instances : AppOf[j] = app} |-> s[i]]

Init ==
    /\ state = [i \in Instances |-> Absent]
    /\ outcome = [u \in Updates |-> "none"]
    /\ result = [u \in Updates |-> NoResult]

Call(u) ==
    /\ outcome[u] = "none"
    /\ outcome' = [outcome EXCEPT ![u] = "open"]
    /\ UNCHANGED <<state, result>>

TakeEffect(u) ==
    LET i == InstanceOf[u]
    IN  /\ outcome[u] = "open"
        /\ accepts(state[i], u)
        /\ state' = [state EXCEPT ![i] = after(@, u)]
        /\ outcome' = [outcome EXCEPT ![u] = "applied"]
        /\ UNCHANGED result

Acknowledge(u) ==
    /\ \/ outcome[u] = "applied"
       \/ outcome[u] = "open" /\ ignores(state[InstanceOf[u]], u)
    /\ outcome' = [outcome EXCEPT ![u] = "ok"]
    /\ UNCHANGED <<state, result>>

Read(u) ==
    /\ KindOf[u] = "Query"
    /\ outcome[u] = "open"
    /\ outcome' = [outcome EXCEPT ![u] = "ok"]
    /\ result' = [result EXCEPT ![u] = specInstances(state, AppOf[InstanceOf[u]])]
    /\ UNCHANGED state

Refuse(u) ==
    /\ outcome[u] \in {"none", "open"}
    /\ outcome' = [outcome EXCEPT ![u] = "failed"]
    /\ UNCHANGED <<state, result>>

(* The leader is gone: of the calls in progress, any that do not compete   *)
(* for an instance may have taken effect.                                  *)
LoseLeader(landed) ==
    /\ \A u \in landed : outcome[u] = "open" /\ accepts(state[InstanceOf[u]], u)
    /\ \A u, v \in landed : InstanceOf[u] = InstanceOf[v] => u = v
    /\ state' = [i \in Instances |->
                    IF \E u \in landed : InstanceOf[u] = i
                    THEN after(state[i], CHOOSE u \in landed : InstanceOf[u] = i)
                    ELSE state[i]]
    /\ outcome' = [u \in Updates |-> IF outcome[u] \in {"open", "applied"} THEN "lost" ELSE outcome[u]]
    /\ UNCHANGED result

Next ==
    \/ \E u \in Updates : Call(u) \/ TakeEffect(u) \/ Acknowledge(u) \/ Read(u) \/ Refuse(u)
    \/ \E landed \in SUBSET Updates : LoseLeader(landed)

Spec == Init /\ [][Next]_vars
==============================================================================
