--------------------------- MODULE GoalLifecycle ---------------------------
(***************************************************************************)
(* What the goal table promises to its readers: a goal is submitted in     *)
(* "planning" and from then on its status only takes transitions of the    *)
(* table in GoalStatus, whoever writes it.  GoalRunner, with its workers,   *)
(* reapers and operators, is shown to implement this specification.        *)
(***************************************************************************)
EXTENDS GoalStatus

VARIABLE status

Init == status = "planning"

Write(s) == /\ status \in allowed_predecessors(s)
            /\ status' = s

Next == \E s \in Status : Write(s)

Spec == Init /\ [][Next]_status
=============================================================================
