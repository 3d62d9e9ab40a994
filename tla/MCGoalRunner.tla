---------------------------- MODULE MCGoalRunner ----------------------------
(***************************************************************************)
(* GoalRunner for TLC.  Reapers are interchangeable, and so are operators; *)
(* the runs are not (deliveries are numbered in publication order).        *)
(***************************************************************************)
EXTENDS GoalRunner, TLC

Symmetric == Permutations(Reapers) \cup Permutations(Operators)
=============================================================================
