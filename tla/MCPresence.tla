----------------------------- MODULE MCPresence -----------------------------
(* The small instance of Presence.                                         *)
EXTENDS Presence
=============================================================================
