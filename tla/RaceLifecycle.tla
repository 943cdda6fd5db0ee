--------------------------- MODULE RaceLifecycle ---------------------------
(***************************************************************************)
(* What the race service promises about a race's status, seen from         *)
(* outside: the transition table of _VALID_TRANSITIONS, one row at a time, *)
(* with at most one race running.  Locks, threads, processes and the       *)
(* check-then-write structure of the implementation are absent here;       *)
(* RaceService shows under which conditions it implements this module.     *)
(***************************************************************************)
CONSTANT Race           \* the race ids

VARIABLE status         \* races.status per id, "absent" when there is no row

Status == {"draft", "ready", "running", "paused", "finished", "cancelled"}
Terminal == {"finished", "cancelled"}

Init == status = [r \in Race |-> "absent"]

Become(r, from, to) ==
    /\ status[r] \in from
    /\ status' = [status EXCEPT ![r] = to]

NoneRunning == \A r \in Race : status[r] # "running"

Create(r)    == Become(r, {"absent"}, "draft")
MarkReady(r) == Become(r, {"draft", "ready"}, "ready")
Start(r)     == NoneRunning /\ Become(r, {"draft", "ready"}, "running")
Pause(r)     == Become(r, {"running"}, "paused")
Resume(r)    == NoneRunning /\ Become(r, {"paused"}, "running")
Finish(r)    == Become(r, {"running", "paused"}, "finished")
Cancel(r)    == Become(r, {"draft", "ready", "running", "paused"}, "cancelled")
Delete(r)    == Become(r, Status \ {"running"}, "absent")

Next == \E r \in Race :
    \/ Create(r) \/ MarkReady(r) \/ Start(r) \/ Pause(r)
    \/ Resume(r) \/ Finish(r) \/ Cancel(r) \/ Delete(r)

Spec == Init /\ [][Next]_status
=============================================================================
