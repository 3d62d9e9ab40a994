----------------------------- MODULE GoalStatus -----------------------------
(***************************************************************************)
(* The statuses of a goal row and the transition table every status write  *)
(* is conditioned on (app/services/goal_lifecycle.py): the active statuses *)
(* move freely, a terminal status is final.                                *)
(***************************************************************************)

Status == {"planning", "executing", "verifying", "waiting_human",
           "waiting_children", "complete", "failed", "cancelled"}

TERMINAL_STATUSES == {"complete", "failed", "cancelled"}

ACTIVE_STATUSES == Status \ TERMINAL_STATUSES

\* Parked rows: only resume_goal (waiting_human) or the wake of the last
\* sub-goal (waiting_children) may move them on.
PARKED_STATUSES == {"waiting_human", "waiting_children"}

\* What the watchdogs look at: a goal some worker should be running.
RUNNING_STATUSES == {"executing", "planning"}

is_valid_transition(from, to) ==
    from \in ACTIVE_STATUSES /\ to \in Status

allowed_predecessors(to) == {from \in Status : is_valid_transition(from, to)}

\* The status after the conditional write of s (GoalService._db_update_goal_status:
\* UPDATE ... WHERE status IN allowed_predecessors(s)) to a row that has status old.
Written(old, s) == IF old \in allowed_predecessors(s) THEN s ELSE old
=============================================================================
