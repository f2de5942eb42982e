------------------------- MODULE MCInstanceLifecycle -------------------------
(* Instances of InstanceLifecycle for TLC.                                 *)
EXTENDS InstanceLifecycle

Plain(state) == [state |-> state, reason |-> "REASON_OTHER", healthy |-> "absent", check |-> "absent"]

(* A task that runs, healthy or not, may be lost from sight or forgotten,  *)
(* and ends; it may return from both.                                      *)
AppStatuses ==
    {[Plain("TASK_RUNNING") EXCEPT !.healthy = h] : h \in {"healthy", "unhealthy"}}
    \cup {Plain("TASK_UNREACHABLE"), Plain("TASK_UNKNOWN"), Plain("TASK_FAILED")}

(* A task on a reservation, which ends or whose agent an operator declares *)
(* gone, rightly or by mistake: it may end, and be heard of, after that.   *)
ResidentStatuses == {Plain("TASK_FAILED"), Plain("TASK_GONE_BY_OPERATOR")}

==============================================================================
