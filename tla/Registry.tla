------------------------------ MODULE Registry ------------------------------
(***************************************************************************)
(* RegistryCore (src/registry/core.rs): who is registered, what everybody  *)
(* can do, who counts as alive, and the index that discovery starts from.  *)
(* The name, the endpoint, the metadata and the media profiles of an agent *)
(* are answered as they were stored and are left out; agents are numbered  *)
(* in the order of their ids.                                              *)
(***************************************************************************)
EXTENDS Naturals, FiniteSets

CONSTANTS
  Agents,          \* agent ids, numbers
  Capabilities,    \* names of capabilities
  MaxConcurrency   \* bound of the model: the largest max_concurrency

VARIABLES
  agents,            \* AgentInfo of every agent that was ever registered
  aliveAgents,       \* who counts as alive
  capabilityIndex,   \* index: who has declared a capability
  load               \* how busy an agent is

registryVars == <<agents, aliveAgents, capabilityIndex, load>>

(* What an agent declares: max_concurrency for some of the capabilities.   *)
Declarations ==
  UNION {[names -> 1 .. MaxConcurrency] : names \in SUBSET Capabilities}

Nothing == [c \in {} |-> 1]

-----------------------------------------------------------------------------

(* agent_info: neither AgentNotFound nor AgentDeregistered.                *)
IsRegistered(a) == a \in DOMAIN agents /\ agents[a].lifecycle = "Registered"

Offers(a) == DOMAIN agents[a].capabilities

MaxCapacity(a) ==
  IF Offers(a) = {} THEN 0
  ELSE CHOOSE n \in 1 .. MaxConcurrency :
         /\ \E c \in Offers(a) : agents[a].capabilities[c] = n
         /\ \A c \in Offers(a) : agents[a].capabilities[c] <= n

RegistryInit ==
  /\ agents = [a \in {} |-> {}]
  /\ aliveAgents = {}
  /\ capabilityIndex = [c \in Capabilities |-> {}]
  /\ load = [a \in {} |-> 0]

(* An agent that comes back finds its load, and no capabilities.           *)
Register(a) ==
  /\ agents' = [b \in DOMAIN agents \cup {a} |->
                  IF b # a THEN agents[b]
                  ELSE IF a \in DOMAIN agents
                  THEN [agents[a] EXCEPT !.lifecycle = "Registered"]
                  ELSE [lifecycle |-> "Registered", capabilities |-> Nothing]]
  /\ load' = [b \in DOMAIN load \cup {a} |->
                IF b \in DOMAIN load THEN load[b] ELSE 0]
  /\ UNCHANGED <<aliveAgents, capabilityIndex>>

(* fault: the old names are taken out after the new ones were put in.      *)
IndexNewThenOld(a, names) ==
  [c \in Capabilities |->
     IF c \in names \ Offers(a) THEN capabilityIndex[c] \cup {a}
                                 ELSE capabilityIndex[c] \ {a}]

(* The index after `a` offers `names` and nothing else.                    *)
IndexWith(a, names) ==
  [c \in Capabilities |->
     IF c \in names THEN capabilityIndex[c] \cup {a} ELSE capabilityIndex[c] \ {a}]

DeclareCapabilities(a, declared) ==
  /\ IsRegistered(a)
  /\ DOMAIN declared # {}
  /\ agents' = [agents EXCEPT ![a].capabilities = declared]
  /\ capabilityIndex' = IndexWith(a, DOMAIN declared)
  /\ UNCHANGED <<aliveAgents, load>>

Deregister(a) ==
  /\ IsRegistered(a)
  /\ agents' = [agents EXCEPT ![a] = [lifecycle |-> "Deregistered",
                                      capabilities |-> Nothing]]
  /\ aliveAgents' = aliveAgents \ {a}
  /\ capabilityIndex' = IndexWith(a, {})
  /\ UNCHANGED load

MayLive(a) == IsRegistered(a)

(* Not an effect when the agent may not live: the event is ignored.        *)
MarkAlive(a) ==
  /\ aliveAgents' = IF MayLive(a) THEN aliveAgents \cup {a} ELSE aliveAgents
  /\ UNCHANGED <<agents, capabilityIndex, load>>

MarkTimedOut(a) ==
  /\ aliveAgents' = aliveAgents \ {a}
  /\ UNCHANGED <<agents, capabilityIndex, load>>

SetLoad(a, current) ==
  /\ IsRegistered(a)
  /\ current <= MaxCapacity(a)
  /\ load' = [load EXCEPT ![a] = current]
  /\ UNCHANGED <<agents, aliveAgents, capabilityIndex>>

(* discover goes through the index in the order of the ids, and looks at   *)
(* the limit after it took an agent: a limit of zero still finds one.      *)
FirstOf(found, limit) ==
  {a \in found : Cardinality({b \in found : b < a}) < (IF limit = 0 THEN 1 ELSE limit)}

Discover(capability, includeBusy, limit) ==
  FirstOf({a \in capabilityIndex[capability] :
             /\ IsRegistered(a)
             /\ a \in aliveAgents
             /\ capability \in Offers(a)
             /\ includeBusy \/ load[a] < agents[a].capabilities[capability]},
          limit)

=============================================================================
