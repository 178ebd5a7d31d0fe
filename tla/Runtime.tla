------------------------------ MODULE Runtime -------------------------------
(***************************************************************************)
(* The runtime's answer to silence (src/runtime/core.rs): the heartbeat    *)
(* service (src/heartbeat/service.rs) publishes that an agent timed out or *)
(* recovered, and Runtime walks through Registry, LiveSession, Settlement  *)
(* and Task, one awaited call after the other, while the HTTP handlers of  *)
(* src/server/app.rs go on.  A publication that takes too long is dropped  *)
(* where it stands; the call it was waiting for may have had its effect.   *)
(*                                                                         *)
(* Every call after the first carries the time the publication began; an   *)
(* HTTP handler carries the time it was read when the request came in.     *)
(***************************************************************************)
EXTENDS Naturals, Sequences, FiniteSets

CONSTANTS
  Publisher, Worker,    \* who pays, and who works and may fall silent
  Task,                 \* the one task
  Funds,                \* what the publisher has deposited
  MaxAssignments, MaxHolds,   \* bounds of the model
  MaxTime,              \* bound of the model: the last timestamp
  CutOffs               \* a publication may outlast its timeout

ASSUME RuntimeAssumption ==
  /\ CutOffs \in BOOLEAN
  /\ Funds \in Nat \ {0} /\ MaxTime \in Nat
  /\ MaxAssignments \in Nat /\ MaxHolds \in Nat

VARIABLES
  pings,                                \* Heartbeat
  alive,                                \* RegistryCore.alive_agents
  sessions, assignments, reply,         \* LiveSession
  holds, balances, ledger, nextHold,    \* Settlement
  tasks, activeTasksByAgent, taskHistoryByAgent,   \* Task
  now,          \* the clock of the server
  events,       \* what the heartbeat service has yet to publish
  service,      \* where the publication of the current event stands
  marking       \* ping handlers that have yet to call mark_alive

Agents == {Publisher, Worker}
AssignmentId == 1 .. MaxAssignments
Price == 1
Output == "artifact"
NoOutput == "no output"

H == INSTANCE Heartbeat WITH IdleTimeout <- 1, BusyTimeout <- 1

L == INSTANCE LiveSession WITH
       Tasks <- {Task}, Outputs <- {Output}, MaxSessions <- 1

S == INSTANCE Settlement WITH
       Tasks <- {Task}, Assignments <- AssignmentId, Reviews <- {},
       Amounts <- {Price, Funds}, MaxBalance <- Funds, MaxDeposits <- 1

T == INSTANCE Task WITH MaxTasks <- 1

liveVars == <<sessions, assignments, reply>>
settlementVars == <<holds, balances, ledger, nextHold>>
taskVars == <<tasks, activeTasksByAgent, taskHistoryByAgent>>
coreVars == <<liveVars, settlementVars, taskVars>>
serviceVars == <<events, service, marking>>
runtimeVars == <<pings, alive, coreVars, now, serviceVars>>

-----------------------------------------------------------------------------
(* The heartbeat service: it runs one command or one scan at a time and    *)
(* publishes every event before it turns to the next.                      *)

Idle == [at |-> "idle"]
Overrun == [at |-> "overrun"]
Waits == service = Idle /\ events = << >>
At(label) == service.at = label

TimedOut(agent) == [kind |-> "AgentTimedOut", agent |-> agent]
Recovered(agent) == [kind |-> "AgentRecovered", agent |-> agent]

(* The ping command of the server's ping handler.                          *)
Ping(agent) ==
  /\ Waits
  /\ H!Ping(agent, FALSE)
  /\ events' = IF H!HasTimedOut(agent) THEN <<Recovered(agent)>> ELSE << >>
  /\ marking' = marking \cup {agent}
  /\ UNCHANGED <<alive, coreVars, now, service>>

(* The second half of the ping handler: registry.mark_alive.               *)
MarkAlive(agent) ==
  /\ agent \in marking
  /\ alive' = alive \cup {agent}
  /\ marking' = marking \ {agent}
  /\ UNCHANGED <<pings, coreVars, now, events, service>>

(* The agents that timed out are told in the order of a hash map.          *)
Scan ==
  /\ Waits
  /\ H!Scan
  /\ \E order \in [1 .. Cardinality(H!Unreported) -> H!Unreported] :
       /\ \A i, j \in DOMAIN order : order[i] = order[j] => i = j
       /\ events' = [i \in DOMAIN order |-> TimedOut(order[i])]
  /\ UNCHANGED <<alive, coreVars, now, service, marking>>

Silence ==
  /\ H!Elapse
  /\ UNCHANGED <<alive, coreVars, now, serviceVars>>

Tick ==
  /\ now < MaxTime
  /\ now' = now + 1
  /\ UNCHANGED <<pings, alive, coreVars, serviceVars>>

-----------------------------------------------------------------------------
(* HTTP handlers; validation reads only what never changes.                *)

Assign(at) ==
  /\ L!Assign(Task, 1, Worker, L!NoTarget, at)
  /\ UNCHANGED <<pings, alive, settlementVars, taskVars, now, serviceVars>>

SubmitArtifact(a, at) ==
  /\ L!SubmitOutput(a, Worker, Output, at)
  /\ UNCHANGED <<pings, alive, settlementVars, taskVars, now, serviceVars>>

Hold(a) ==
  /\ a \in DOMAIN assignments
  /\ S!CreateHold([from |-> Publisher, amount |-> Price, task |-> Task,
                   assignment |-> a, agent |-> Worker, kind |-> "Execute"])
  /\ UNCHANGED <<pings, alive, liveVars, taskVars, now, serviceVars>>

AddParticipant(at) ==
  /\ T!AddParticipant(1, Worker, at)
  /\ UNCHANGED <<pings, alive, liveVars, settlementVars, now, serviceVars>>

(* The publisher takes its money back by hand.                             *)
RefundByHand(h) ==
  /\ S!Refund(h)
  /\ UNCHANGED <<pings, alive, liveVars, taskVars, now, serviceVars>>

-----------------------------------------------------------------------------
(* handle_heartbeat_event_at, one awaited call per step.  A call that      *)
(* fails is logged, and the next one is made.                              *)

Goto(state) == service' = state

(* A call on something that is listed in `todo`, which the call removes.   *)
Next(label, rest) == [service EXCEPT !.at = label, !.todo = rest]

Begin ==
  /\ service = Idle /\ events # << >>
  /\ LET event == Head(events)
     IN  Goto([at |-> IF event.kind = "AgentTimedOut" THEN "markTimedOut"
                                                      ELSE "markAlive",
               agent |-> event.agent, time |-> now,
               todo |-> {}, cancelled |-> {}])
  /\ events' = Tail(events)
  /\ UNCHANGED <<pings, alive, coreVars, now, marking>>

MarkRecovered ==
  /\ At("markAlive")
  /\ alive' = alive \cup {service.agent}
  /\ Goto(Idle)
  /\ UNCHANGED <<pings, coreVars, now, events, marking>>

MarkTimedOut ==
  /\ At("markTimedOut")
  /\ alive' = alive \ {service.agent}
  /\ Goto(Next("listAssignments", {}))
  /\ UNCHANGED <<pings, coreVars, now, events, marking>>

(* assignments_by_agent; what is not Assigned is passed over.              *)
ListAssignments ==
  /\ At("listAssignments")
  /\ Goto(Next("cancel", {a \in L!AssignmentsByAgent(service.agent) :
                            assignments[a].status = "Assigned"}))
  /\ UNCHANGED <<pings, alive, coreVars, now, events, marking>>

(* fault: the status that was listed is not looked at again.               *)
CancelListed(a, at) == L!CancelAssignment(a, at)

CancelCall(a, at) == L!CancelIfAssigned(a, at)

CancelRefused(a, at) ==
  \/ ~L!StatusAt(a, {"Assigned"}, at)
  \/ at < sessions[assignments[a].session].updatedAt

CancelNext ==
  /\ At("cancel")
  /\ IF service.todo = {}
     THEN Goto(Next("listHolds", {})) /\ UNCHANGED liveVars
     ELSE \E a \in service.todo :
            \/ /\ CancelCall(a, service.time)
               /\ Goto([service EXCEPT !.todo = @ \ {a},
                                       !.cancelled = @ \cup {a}])
            \/ /\ CancelRefused(a, service.time)
               /\ Goto(Next("cancel", service.todo \ {a}))
               /\ UNCHANGED liveVars
  /\ UNCHANGED <<pings, alive, settlementVars, taskVars, now, events, marking>>

(* fault: whatever the agent has to do with is refunded.                   *)
AllHoldsOf(agent, cancelled) == S!ActiveHoldsForAgent(agent)

(* fault: holds are looked for on work that is not cancelled.              *)
UnfinishedHolds(agent, cancelled) ==
  {h \in S!ActiveHoldsForAgent(agent) :
     assignments[holds[h].assignment].status = "Assigned"}

RefundableHolds(agent, cancelled) ==
  {h \in S!ActiveHoldsForAgent(agent) :
     holds[h].agent = agent /\ holds[h].assignment \in cancelled}

ListHolds ==
  /\ At("listHolds")
  /\ Goto(Next("refund", RefundableHolds(service.agent, service.cancelled)))
  /\ UNCHANGED <<pings, alive, coreVars, now, events, marking>>

RefundNext ==
  /\ At("refund")
  /\ IF service.todo = {}
     THEN Goto(Next("listTasks", {})) /\ UNCHANGED settlementVars
     ELSE \E h \in service.todo :
            /\ Goto(Next("refund", service.todo \ {h}))
            /\ \/ S!Refund(h)
               \/ ~S!IsActive(h) /\ UNCHANGED settlementVars
  /\ UNCHANGED <<pings, alive, liveVars, taskVars, now, events, marking>>

ListTasks ==
  /\ At("listTasks")
  /\ Goto(Next("leave", activeTasksByAgent[service.agent]))
  /\ UNCHANGED <<pings, alive, coreVars, now, events, marking>>

LeaveNext ==
  /\ At("leave")
  /\ IF service.todo = {}
     THEN Goto(Idle) /\ UNCHANGED taskVars
     ELSE \E t \in service.todo :
            /\ Goto(Next("leave", service.todo \ {t}))
            /\ \/ T!RemoveParticipant(t, service.agent, service.time)
               \/ /\ \/ ~T!ActiveAt(t, service.time)
                     \/ service.agent \notin tasks[t].participants
                  /\ UNCHANGED taskVars
  /\ UNCHANGED <<pings, alive, liveVars, settlementVars, now, events, marking>>

(* publish_timeout: the rest of the publication is not made up for.        *)
CutOff ==
  /\ CutOffs
  /\ service \notin {Idle, Overrun}
  /\ Goto(Overrun)
  /\ UNCHANGED <<pings, alive, coreVars, now, events, marking>>

LogOverrun ==
  /\ service = Overrun
  /\ Goto(Idle)
  /\ UNCHANGED <<pings, alive, coreVars, now, events, marking>>

Publish ==
  \/ Begin \/ MarkRecovered \/ MarkTimedOut
  \/ ListAssignments \/ CancelNext
  \/ ListHolds \/ RefundNext
  \/ ListTasks \/ LeaveNext
  \/ LogOverrun

-----------------------------------------------------------------------------

(* The worker has pinged and takes part in the task, whose session runs.   *)
RuntimeInit ==
  /\ pings = [a \in {Worker} |->
                [elapsed |-> 0, busy |-> FALSE, timedOut |-> FALSE]]
  /\ alive = {Worker}
  /\ sessions = [s \in {1} |->
                   [task |-> Task, status |-> "Running", updatedAt |-> 0]]
  /\ assignments = [a \in {} |-> {}]
  /\ reply = "Ok"
  /\ holds = [h \in {} |-> {}]
  /\ balances = [a \in Agents |-> IF a = Publisher THEN Funds ELSE 0]
  /\ ledger = <<[kind |-> "Deposited", agent |-> Publisher, amount |-> Funds]>>
  /\ nextHold = 0
  /\ tasks = [t \in {1} |->
                [publisher |-> Publisher, participants |-> {Worker},
                 history |-> {Worker}, status |-> "Active", updatedAt |-> 0]]
  /\ activeTasksByAgent = [a \in Agents |-> IF a = Worker THEN {1} ELSE {}]
  /\ taskHistoryByAgent = [a \in Agents |-> IF a = Worker THEN {1} ELSE {}]
  /\ now = 0
  /\ events = << >>
  /\ service = Idle
  /\ marking = {}

RuntimeNext ==
  \/ Ping(Worker) \/ MarkAlive(Worker)
  \/ Scan \/ Silence \/ Tick
  \/ \E at \in 0 .. now :
       \/ Assign(at)
       \/ \E a \in AssignmentId : SubmitArtifact(a, at)
       \/ AddParticipant(at)
  \/ \E a \in AssignmentId : Hold(a)
  \/ \E h \in S!HoldId : RefundByHand(h)
  \/ Publish \/ CutOff

(* The service goes on publishing, and handlers that began are resumed.    *)
RuntimeSpec ==
  /\ RuntimeInit /\ [][RuntimeNext]_runtimeVars
  /\ WF_runtimeVars(Publish) /\ WF_runtimeVars(Scan)
  /\ WF_runtimeVars(MarkAlive(Worker))

-----------------------------------------------------------------------------
(* Properties.                                                             *)

(* The runtime only ever refunds what was held for the agent that timed    *)
(* out, for work that is cancelled and was never delivered, although the   *)
(* work may be delivered and the hold be settled between the calls         *)
(* (core.rs:85-152).                                                       *)
OnlyAbandonedWorkIsRefunded ==
  [][\A h \in S!ActiveHolds :
       service' # service /\ holds'[h] # holds[h] =>
         /\ holds'[h].status = "Refunded"
         /\ holds[h].agent = service.agent
         /\ assignments[holds[h].assignment].status = "Cancelled"
         /\ assignments[holds[h].assignment].output = NoOutput]_runtimeVars

(* Delivered work is never taken away from the agent, even when it is      *)
(* delivered while the agent counts as timed out (core.rs:88-116).         *)
DeliveredWorkIsKept ==
  \A a \in DOMAIN assignments :
    assignments[a].output # NoOutput => assignments[a].status # "Cancelled"

(* When the service learns that an agent timed out, every hold for work    *)
(* that the agent was still to do gets settled, unless the work is         *)
(* delivered after all: cancelling the work alone would strand the hold.   *)
(* Two things may get in the way: the publication overruns its timeout, or *)
(* a handler with a later time has touched the session                     *)
(* (core.rs:67-189; design/coordination.md:171-178).                       *)
Reported(agent) == \E i \in DOMAIN events : events[i] = TimedOut(agent)

IsOpen(h) ==
  h \in S!ActiveHolds /\ assignments[holds[h].assignment].status = "Assigned"

IsStranded(h) ==
  /\ h \in S!ActiveHolds
  /\ assignments[holds[h].assignment].output = NoOutput

IsOvertaken(h) ==
  /\ At("cancel")
  /\ service.time < sessions[assignments[holds[h].assignment].session].updatedAt

AbandonedHoldsAreRefunded ==
  \A h \in S!HoldId :
    (IsOpen(h) /\ Reported(holds[h].agent))
      ~> (IsStranded(h) => service = Overrun \/ IsOvertaken(h))

=============================================================================
