------------------------------ MODULE MCReview ------------------------------
(* The small instance of Review: the ids reach two digits.                 *)
EXTENDS Review, TLC

Symmetry == Permutations(Reviewers)
=============================================================================
