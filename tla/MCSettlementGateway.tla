------------------------ MODULE MCSettlementGateway ------------------------
(* The small instances of SettlementGateway.                               *)
EXTENDS SettlementGateway, TLC

Symmetry == Permutations(Handlers)
=============================================================================
