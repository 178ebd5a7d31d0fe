--------------------------- MODULE MCSettlement ---------------------------
(* The small instance of Settlement.                                       *)
EXTENDS Settlement, TLC

Symmetry == Permutations(Agents) \cup Permutations(Assignments)
=============================================================================
