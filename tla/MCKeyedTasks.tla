---------------------------- MODULE MCKeyedTasks ----------------------------
(* The small instance of KeyedTasks.                                       *)
EXTENDS KeyedTasks, TLC

Symmetry == Permutations(Agents) \cup Permutations(Keys)
=============================================================================
