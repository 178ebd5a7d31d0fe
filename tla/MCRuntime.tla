----------------------------- MODULE MCRuntime ------------------------------
(* The small instances of Runtime.                                         *)
EXTENDS Runtime
=============================================================================
