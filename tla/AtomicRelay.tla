---------------------------- MODULE AtomicRelay -----------------------------
(***************************************************************************)
(* What a RelayHandle promises: a call takes effect at most once, as one   *)
(* step, between the moment it is made and the moment it is answered, and  *)
(* the answer tells what that step did.  A call that fails with Stopped or *)
(* ResponseDropped had no effect.  A call whose caller has gone away may   *)
(* still take effect, once, at any later time.                             *)
(*                                                                         *)
(* The other modules take a call of any of the services for one action;    *)
(* this is the promise they rely on, and all services are built alike.     *)
(***************************************************************************)
EXTENDS Relay

CONSTANT Callers   \* requests that may be under way at once

VARIABLES
  callers,    \* every caller's call, or what it was told last
  adrift      \* how many callers are gone that made a call

atomicVars == <<relayVars, callers, adrift>>

-----------------------------------------------------------------------------

Idle(outcome) == [state |-> "idle", outcome |-> outcome]
Asking(call) == [state |-> "asking", call |-> call]
IsAsking(c) == callers[c].state = "asking"

Becomes(c, state) == callers' = [callers EXCEPT ![c] = state]

NoneAdrift == [call \in RelayCommand |-> 0]

AtomicInit ==
  /\ RelayInit
  /\ callers = [c \in Callers |-> Idle("nothing")]
  /\ adrift = NoneAdrift

Ask(c) ==
  /\ callers[c].state = "idle" /\ callers'[c].state = "asking"
  /\ \E call \in RelayCommand : Becomes(c, Asking(call))
  /\ UNCHANGED <<relayVars, adrift>>

TakeEffect(c) ==
  /\ IsAsking(c)
  /\ Perform(callers[c].call)
  /\ Becomes(c, Idle(AnswerTo(callers[c].call)))
  /\ UNCHANGED adrift

Fail(c) ==
  /\ IsAsking(c)
  /\ Becomes(c, Idle(Failure))
  /\ UNCHANGED <<relayVars, adrift>>

GoAway(c) ==
  /\ IsAsking(c)
  /\ Becomes(c, Idle("nothing"))
  /\ adrift' \in {adrift, [adrift EXCEPT ![callers[c].call] = @ + 1]}
  /\ UNCHANGED relayVars

TakeLateEffect(call) ==
  /\ adrift[call] > 0
  /\ Perform(call)
  /\ adrift' = [adrift EXCEPT ![call] = @ - 1]
  /\ UNCHANGED callers

(* The service is gone, and with it all it had not begun.                  *)
Stop ==
  /\ adrift' = NoneAdrift
  /\ \E lost \in SUBSET {c \in Callers : IsAsking(c)} :
       callers' = [c \in Callers |-> IF c \in lost THEN Idle(Failure)
                                    ELSE callers[c]]
  /\ UNCHANGED relayVars

AtomicNext ==
  \/ \E c \in Callers : Ask(c) \/ TakeEffect(c) \/ Fail(c) \/ GoAway(c)
  \/ \E call \in RelayCommand : TakeLateEffect(call)
  \/ Stop

AtomicSpec == AtomicInit /\ [][AtomicNext]_atomicVars

=============================================================================
