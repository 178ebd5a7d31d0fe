------------------------------ MODULE Presence ------------------------------
(***************************************************************************)
(* Who can be found: the heartbeat service (src/heartbeat/service.rs), the *)
(* registry service (src/registry/service.rs) and the handlers of          *)
(* src/server/app.rs that register, declare, deregister and ping.          *)
(*                                                                         *)
(* mark_alive and mark_timed_out are sent to the registry and not waited   *)
(* for: they stand in its channel until it comes to them.  A publication   *)
(* is given publish_timeout and then dropped, what is left of it with it.  *)
(* What a publication does besides is the subject of Runtime.  Nothing in  *)
(* the repository calls forget.                                            *)
(***************************************************************************)
EXTENDS Heartbeat, Sequences, FiniteSets

CONSTANTS
  Capabilities, MaxConcurrency,
  Busy,         \* bound of the model: who says that it is busy, and has a load
  MaxMarks,     \* bound of the model: marks in the channel of the registry
  Drops         \* clients may go away in the middle of a ping

ASSUME PresenceAssumption == Agents \subseteq Nat /\ IsFiniteSet(Agents)

VARIABLES
  agents, aliveAgents, capabilityIndex, load,   \* Registry
  events,     \* what the heartbeat service has yet to publish
  marks,      \* the channel of the registry service
  marking,    \* ping handlers that have yet to send mark_alive
  missed      \* history: whom a mark will hide because the news that they are
              \* back was dropped

R == INSTANCE Registry

registryVars == <<agents, aliveAgents, capabilityIndex, load>>
presenceVars == <<pings, registryVars, events, marks, marking, missed>>

-----------------------------------------------------------------------------

AgentTimedOut(a) == [kind |-> "AgentTimedOut", agent |-> a]
AgentRecovered(a) == [kind |-> "AgentRecovered", agent |-> a]

(* The heartbeat service turns to a command or to a scan only when it has  *)
(* published what came before.                                             *)
Published == events = << >>

(* fault: the service forgets who had timed out before it answers.         *)
NothingToTell(a) == << >>

News(a) == IF HasTimedOut(a) THEN <<AgentRecovered(a)>> ELSE << >>

HandlePing(a) ==
  /\ Published
  /\ a \in DOMAIN agents
  /\ Ping(a, a \in Busy)
  /\ events' = News(a)
  /\ marking' = marking \cup {a}
  /\ UNCHANGED <<registryVars, marks, missed>>

(* The agents that timed out are told in the order of a hash map.          *)
ScanPings ==
  /\ Published
  /\ Scan
  /\ \E order \in [1 .. Cardinality(Unreported) -> Unreported] :
       /\ \A i, j \in DOMAIN order : order[i] = order[j] => i = j
       /\ events' = [i \in DOMAIN order |-> AgentTimedOut(order[i])]
  /\ UNCHANGED <<registryVars, marks, marking, missed>>

Silence == Elapse /\ UNCHANGED <<registryVars, events, marks, marking, missed>>

HasRoom == Len(marks) < MaxMarks

(* mark_alive, mark_timed_out: the command is sent and has no answer.      *)
Send(mark) == HasRoom /\ marks' = Append(marks, mark)

(* A mark of the channel hides the agent and none behind it shows it.      *)
WillBeHidden(a) ==
  \E i \in DOMAIN marks :
    /\ marks[i] = AgentTimedOut(a)
    /\ \A j \in DOMAIN marks : i < j => marks[j] # AgentRecovered(a)

(* Whom an event shows again.                                              *)
Back(event) == {a \in Agents : event = AgentRecovered(a)}

(* publish: the first thing the runtime does with an event.                *)
Publish ==
  /\ events # << >>
  /\ Send(Head(events))
  /\ events' = Tail(events)
  /\ missed' = missed \ Back(Head(events))
  /\ UNCHANGED <<pings, registryVars, marking>>

(* The publication takes longer than publish_timeout before the mark is in *)
(* the channel, which calls left out of `marks` may have filled: the event *)
(* is gone.  A mark that was sent is not called back (Publish).            *)
Overrun ==
  /\ events # << >>
  /\ events' = Tail(events)
  /\ missed' = missed \cup {a \in Back(Head(events)) : WillBeHidden(a)}
  /\ UNCHANGED <<pings, registryVars, marks, marking>>

(* The second half of the ping handler.                                    *)
SendMarkAlive(a) ==
  /\ a \in marking
  /\ Send(AgentRecovered(a))
  /\ marking' = marking \ {a}
  /\ missed' = missed \ {a}
  /\ UNCHANGED <<pings, registryVars, events>>

DropPing(a) ==
  /\ Drops
  /\ a \in marking
  /\ marking' = marking \ {a}
  /\ UNCHANGED <<pings, registryVars, events, marks, missed>>

HandleMark ==
  /\ marks # << >>
  /\ LET mark == Head(marks)
     IN  IF mark.kind = "AgentTimedOut" THEN R!MarkTimedOut(mark.agent)
                                        ELSE R!MarkAlive(mark.agent)
  /\ marks' = Tail(marks)
  /\ missed' = {a \in missed : \E i \in DOMAIN marks' : marks'[i] = AgentTimedOut(a)}
  /\ UNCHANGED <<pings, events, marking>>

(* Calls whose answer the caller waits for; who may make them was decided  *)
(* before, and the credentials that some of them change are left out.      *)
otherVars == <<pings, events, marks, marking, missed>>

HandleRegister(a) == R!Register(a) /\ UNCHANGED otherVars

HandleDeclare(a) ==
  /\ \E declared \in R!Declarations : R!DeclareCapabilities(a, declared)
  /\ UNCHANGED otherVars

HandleDeregister(a) == R!Deregister(a) /\ UNCHANGED otherVars

(* The service offers it; no handler calls it.                             *)
HandleSetLoad(a) ==
  /\ a \in Busy
  /\ \E current \in 0 .. MaxConcurrency : R!SetLoad(a, current)
  /\ UNCHANGED otherVars

PresenceInit ==
  /\ HeartbeatInit
  /\ R!RegistryInit
  /\ events = << >>
  /\ marks = << >>
  /\ marking = {}
  /\ missed = {}

PresenceNext ==
  \/ \E a \in Agents :
       \/ HandlePing(a) \/ SendMarkAlive(a) \/ DropPing(a)
       \/ HandleRegister(a) \/ HandleDeregister(a)
       \/ HandleDeclare(a) \/ HandleSetLoad(a)
  \/ ScanPings \/ Silence \/ Publish \/ Overrun \/ HandleMark

(* Time passes, the ticker goes off, and both services go on.              *)
PresenceSpec ==
  /\ PresenceInit /\ [][PresenceNext]_presenceVars
  /\ WF_presenceVars(Silence) /\ WF_presenceVars(ScanPings)
  /\ WF_presenceVars(Publish) /\ WF_presenceVars(HandleMark)

-----------------------------------------------------------------------------
(* Properties.                                                             *)

(* alive_agents only ever has agents that are registered, although marks   *)
(* arrive after the agent went away and pings come from agents that left   *)
(* (registry/core.rs:86-118; design/registry/rust-design.md:96).           *)
AliveAreRegistered == \A a \in aliveAgents : R!IsRegistered(a)

(* Discovery goes by the index and still finds exactly who, by their own   *)
(* records, are registered, alive, offer the capability and have room, or  *)
(* as many of them as were asked for (registry/core.rs:54-107, 139-187).   *)
Suitable(c, includeBusy) ==
  {a \in DOMAIN agents \cap aliveAgents :
     /\ c \in DOMAIN agents[a].capabilities
     /\ includeBusy \/ load[a] < agents[a].capabilities[c]}

DiscoveryIsExact ==
  \A c \in Capabilities, includeBusy \in BOOLEAN,
     limit \in 1 .. Cardinality(Agents) :
    LET found == R!Discover(c, includeBusy, limit)
        suitable == Suitable(c, includeBusy)
    IN  /\ found \subseteq suitable
        /\ \/ found = suitable
           \/ Cardinality(found) = limit /\ limit < Cardinality(suitable)

(* An agent that was heard of after it timed out is hidden at most for a   *)
(* while: when the registry comes to the old mark, the news that it is     *)
(* back is on its way behind.  Two messages bring it, and both must fail:  *)
(* the agent stays hidden only if the publication was cut off and no ping  *)
(* handler has sent its mark_alive behind the old mark                     *)
(* (heartbeat/service.rs:290-337, registry/service.rs:276-287).            *)
WillBeShown(a) ==
  \/ \E i \in DOMAIN marks : marks[i] = AgentRecovered(a)
  \/ \E i \in DOMAIN events : events[i] = AgentRecovered(a)

HiddenOnlyWhenSilent ==
  [][\A a \in aliveAgents :
       a \notin aliveAgents' =>
         \/ HasTimedOut(a)
         \/ ~R!IsRegistered(a)'
         \/ WillBeShown(a)'
         \/ a \in missed]_presenceVars

=============================================================================
