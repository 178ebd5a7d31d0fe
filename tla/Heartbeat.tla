----------------------------- MODULE Heartbeat ------------------------------
(***************************************************************************)
(* HeartbeatCore (src/heartbeat/core.rs): when an agent was last heard of, *)
(* and the events that say it fell silent or came back.                    *)
(*                                                                         *)
(* The core only compares elapsed times with the two timeouts, so the      *)
(* state keeps the time since the last ping, up to the first value beyond  *)
(* the timeout that the agent is measured by.                              *)
(***************************************************************************)
EXTENDS Naturals

CONSTANTS
  Agents,        \* agent ids
  IdleTimeout,   \* how long an idle agent may be silent
  BusyTimeout    \* how long a busy one may

ASSUME HeartbeatAssumption ==
  IdleTimeout \in Nat \ {0} /\ BusyTimeout \in Nat \ {0}

VARIABLE pings   \* PingInfo of every agent that has pinged

TimeoutFor(busy) == IF busy THEN BusyTimeout ELSE IdleTimeout

MaxElapsed == 1 + IF IdleTimeout > BusyTimeout THEN IdleTimeout ELSE BusyTimeout

PingInfo == [elapsed : 0 .. MaxElapsed, busy : BOOLEAN, timedOut : BOOLEAN]

-----------------------------------------------------------------------------

IsLate(a) == pings[a].elapsed > TimeoutFor(pings[a].busy)

HasTimedOut(a) == a \in DOMAIN pings /\ pings[a].timedOut

IsAlive(a) == a \in DOMAIN pings /\ ~pings[a].timedOut /\ ~IsLate(a)

(* fault: the timeout itself counts as late.                               *)
LateAtTimeout ==
  {a \in DOMAIN pings :
     ~pings[a].timedOut /\ pings[a].elapsed >= TimeoutFor(pings[a].busy)}

(* fault: an agent that said it was busy is left alone.                    *)
LateAndIdle ==
  {a \in DOMAIN pings : ~pings[a].timedOut /\ ~pings[a].busy /\ IsLate(a)}

(* Whom the next scan reports: an agent is reported once per silence.      *)
Unreported == {a \in DOMAIN pings : ~pings[a].timedOut /\ IsLate(a)}

HeartbeatInit == pings = [a \in {} |-> {}]

(* The outcome is RecoveredFromTimeout when the agent HasTimedOut.         *)
Ping(a, busy) ==
  pings' = [b \in DOMAIN pings \cup {a} |->
              IF b = a THEN [elapsed |-> 0, busy |-> busy, timedOut |-> FALSE]
                       ELSE pings[b]]

Scan ==
  pings' = [a \in DOMAIN pings |->
              [pings[a] EXCEPT !.timedOut = @ \/ a \in Unreported]]

Forget(a) ==
  /\ a \in DOMAIN pings
  /\ pings' = [b \in DOMAIN pings \ {a} |-> pings[b]]

Elapse ==
  pings' = [a \in DOMAIN pings |->
              [pings[a] EXCEPT !.elapsed = IF IsLate(a) THEN @ ELSE @ + 1]]

HeartbeatNext ==
  \/ \E a \in Agents, busy \in BOOLEAN : Ping(a, busy)
  \/ \E a \in Agents : Forget(a)
  \/ Scan
  \/ Elapse

(* Time goes on and the ticker of the service goes off.                    *)
HeartbeatSpec ==
  /\ HeartbeatInit /\ [][HeartbeatNext]_pings
  /\ WF_pings(Elapse) /\ WF_pings(Scan)

-----------------------------------------------------------------------------
(* Properties.                                                             *)

(* An agent is never reported while is_alive would answer yes: the scan    *)
(* and the query draw the same line (core.rs:52-83).                       *)
NoFalseAlarm ==
  [][\A a \in DOMAIN pings : IsAlive(a) /\ a \in DOMAIN pings'
       => ~HasTimedOut(a)']_pings

(* An agent that fell silent is reported, unless it is heard of again or   *)
(* forgotten before (core.rs:64-83, service.rs:261-270).                   *)
SilenceIsReported ==
  \A a \in Agents :
    (a \in DOMAIN pings) ~>
      (HasTimedOut(a) \/ a \notin DOMAIN pings \/ pings[a].elapsed = 0)

=============================================================================
