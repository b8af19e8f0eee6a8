------------------------------ MODULE TaskTable ------------------------------
(***************************************************************************)
(* What the task API promises about one task row, whoever writes it: the   *)
(* lifecycle table of backend/app/routers/tasks.py (requirement TK6).      *)
(* TaskLifecycle, where request handlers and the task runner read a row    *)
(* and write it back later, is checked against this specification.         *)
(***************************************************************************)
CONSTANT TaskIds

VARIABLE status      \* status[t]: the row's status, "absent" before INSERT

TaskStatus == {"created", "running", "done", "closed"}

(* The successors _VALID_TRANSITIONS allows each status.                   *)
ValidTransitions ==
    [s \in TaskStatus |->
        CASE s = "created" -> {"running", "closed"}
          [] s = "running" -> {"done", "closed"}
          [] s = "done"    -> {"closed"}
          [] s = "closed"  -> {}]

Init == status = [t \in TaskIds |-> "absent"]

(* A row is inserted as new work, or as work already done (a draft that    *)
(* was prepared before its row was written).                               *)
Insert(t) ==
    /\ status[t] = "absent"
    /\ \E s \in {"created", "done"} : status' = [status EXCEPT ![t] = s]

Advance(t) ==
    /\ status[t] # "absent"
    /\ \E s \in ValidTransitions[status[t]] :
          status' = [status EXCEPT ![t] = s]

Next == \E t \in TaskIds : Insert(t) \/ Advance(t)

Spec == Init /\ [][Next]_status
=============================================================================
