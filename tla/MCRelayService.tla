--------------------------- MODULE MCRelayService ---------------------------
(* The small instance of RelayService.                                     *)
EXTENDS RelayService, TLC

Symmetry == Permutations(Callers)
=============================================================================
