---------------------------- MODULE MCRetention ----------------------------
(* Retention on small sets of tasks, sessions and attachments.             *)
EXTENDS Retention, TLC

\* Tasks with the same role are alike.
Symmetry == Permutations(Sweeper) \cup Permutations(Task \ Sweeper)
=============================================================================
