------------------------------ MODULE MCAccounts ------------------------------
(* Accounts for TLC.                                                         *)
EXTENDS Accounts, TLC

CONSTANTS a1, a2, p1, p2

Symmetry == Permutations(Agents) \cup Permutations(Processes)
===============================================================================
