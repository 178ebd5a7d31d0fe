----------------------------- MODULE KeyedTasks -----------------------------
(***************************************************************************)
(* The handlers of src/server/app.rs that create a task and add a          *)
(* participant, each under an idempotency key.  Such a handler makes three *)
(* calls, begin_idempotency, the operation itself and finish_idempotency,  *)
(* and may be dropped or end with an error after each of them; all the     *)
(* other handlers that write are built the same way.                       *)
(***************************************************************************)
EXTENDS Task

CONSTANTS
  Keys, PendingTimeout,
  MaxRecords,  \* bound of the model: idempotency records
  MaxCalls,    \* bound of the model: handlers under way
  Endings      \* bound of the model: how tasks are closed

ASSUME KeyedAssumption ==
  /\ PendingTimeout \in Nat \ {0}
  /\ Endings \subseteq {"Completed", "Cancelled"}

VARIABLES
  idempotency,   \* Storage
  calls          \* the handlers that have begun, and have not answered

I == INSTANCE Idempotency

keyedVars == <<taskVars, idempotency, calls>>

CreateTask == [operation |-> "CreateTask"]
AddTo(t, agent) ==
  [operation |-> "AddParticipant", task |-> t, agent |-> agent]

(* The outcome that a handler has yet to record: none before its effect.   *)
Ok == I!Succeeded(0)

Index(call) == I!IndexOf(call.caller, call.key)
Operation(call) == call.request.operation
HasEffect(call) == call.outcome # I!Pending

-----------------------------------------------------------------------------

(* begin_idempotency, in a handler that began at the time `at`.            *)
BeginCall(caller, key, request, at) ==
  /\ Cardinality(calls) < MaxCalls
  /\ Cardinality(DOMAIN idempotency \cup {I!IndexOf(caller, key)}) <= MaxRecords
  /\ I!Begin(I!IndexOf(caller, key), request.operation, at)
  /\ calls' = calls \cup
       {[caller |-> caller, key |-> key, request |-> request, at |-> at,
         outcome |-> I!Pending]}
  /\ UNCHANGED taskVars

BeginCreateTask(caller, key, at) == BeginCall(caller, key, CreateTask, at)

(* require_publisher.                                                      *)
IsPublisher(caller, t) == t \in DOMAIN tasks /\ tasks[t].publisher = caller

BeginAddParticipant(caller, key, t, agent, at) ==
  /\ IsPublisher(caller, t)
  /\ BeginCall(caller, key, AddTo(t, agent), at)

Answer(call, outcome) ==
  calls' = (calls \ {call}) \cup
             {[caller |-> call.caller, key |-> call.key,
               request |-> call.request, at |-> call.at, outcome |-> outcome]}

DoCreateTask(call) ==
  /\ ~HasEffect(call)
  /\ call.request = CreateTask
  /\ Create(call.caller, call.at)
  /\ Answer(call, I!Succeeded(NextTaskId))
  /\ UNCHANGED idempotency

DoAddParticipant(call) ==
  /\ ~HasEffect(call)
  /\ Operation(call) = "AddParticipant"
  /\ AddParticipant(call.request.task, call.request.agent, call.at)
  /\ Answer(call, Ok)
  /\ UNCHANGED idempotency

(* The error goes to the client; the key stays pending.                    *)
AddingFails(call) ==
  /\ ~HasEffect(call)
  /\ Operation(call) = "AddParticipant"
  /\ ~ActiveAt(call.request.task, call.at)
  /\ calls' = calls \ {call}
  /\ UNCHANGED <<taskVars, idempotency>>

FinishCall(call) ==
  /\ HasEffect(call)
  /\ \/ I!Finish(Index(call), Operation(call), call.outcome, call.at)
     \/ /\ ~I!MayFinish(Index(call), Operation(call), call.at)
        /\ UNCHANGED idempotency
  /\ calls' = calls \ {call}
  /\ UNCHANGED taskVars

(* The client goes away.                                                   *)
Drop(call) ==
  /\ calls' = calls \ {call}
  /\ UNCHANGED <<taskVars, idempotency>>

(* The runtime removes participants; the core also closes tasks.           *)
ElsewhereInTask ==
  /\ \E t \in DOMAIN tasks, at \in Time :
       \/ \E agent \in Agents : RemoveParticipant(t, agent, at)
       \/ \E status \in Endings : Close(t, status, at)
  /\ UNCHANGED <<idempotency, calls>>

KeyedInit ==
  /\ TaskInit
  /\ I!IdempotencyInit
  /\ calls = {}

KeyedNext ==
  \/ \E caller \in Agents, key \in Keys, at \in Time :
       \/ BeginCreateTask(caller, key, at)
       \/ \E t \in TaskId, agent \in Agents :
            BeginAddParticipant(caller, key, t, agent, at)
  \/ \E call \in calls : \/ DoCreateTask(call)
                         \/ DoAddParticipant(call) \/ AddingFails(call)
                         \/ FinishCall(call) \/ Drop(call)
  \/ ElsewhereInTask

KeyedSpec == KeyedInit /\ [][KeyedNext]_keyedVars

-----------------------------------------------------------------------------
(* Properties.                                                             *)

(* A key protects its operation for PendingTimeout: two handlers of one    *)
(* key are that far apart, and a handler finds its key answered only by    *)
(* one that came that much later (storage/core.rs:83-119, 202-219).        *)
OneHandlerPerKey ==
  \A call \in calls :
    /\ \A other \in calls :
         (other # call /\ Index(other) = Index(call)) =>
           \/ call.at >= other.at + PendingTimeout
           \/ other.at >= call.at + PendingTimeout
    /\ I!HasRecord(Index(call))
    /\ LET record == idempotency[Index(call)]
       IN  \/ record.outcome = I!Pending /\ record.updatedAt = call.at
           \/ record.updatedAt >= call.at + PendingTimeout

(* What is recorded for a key is true: the task it names exists and is the *)
(* caller's, and no other key names it, although handlers that were taken  *)
(* for lost may still finish (storage/core.rs:121-168, app.rs:278-292).    *)
Created(i) ==
  /\ idempotency[i].operation = "CreateTask"
  /\ idempotency[i].outcome # I!Pending

AnswersAreTrue ==
  \A i \in {j \in DOMAIN idempotency : Created(j)} :
    LET t == idempotency[i].outcome.answer
    IN  /\ t \in DOMAIN tasks
        /\ tasks[t].publisher = i[1]
        /\ \A j \in {k \in DOMAIN idempotency : Created(k)} :
             idempotency[j].outcome.answer = t => j = i

(* What a key has answered once it answers for good                        *)
(* (storage/core.rs:100-118, 153-163).                                     *)
AnswersAreFinal ==
  [][\A i \in DOMAIN idempotency :
       idempotency[i].outcome # I!Pending =>
         /\ i \in DOMAIN idempotency'
         /\ idempotency'[i] = idempotency[i]]_keyedVars

(* An agent that creates tasks under one key gets one task: the documents  *)
(* say that the keys prevent repeated creation and repeated changes when   *)
(* the network makes a client retry (design/agent/overview.md:27,          *)
(* design/cli/overview.md:311; storage/core.rs:108-112).                   *)
OneTaskPerKey ==
  \A a \in Agents :
    Cardinality({t \in DOMAIN tasks : tasks[t].publisher = a})
      <= Cardinality({i \in DOMAIN idempotency :
                        i[1] = a /\ idempotency[i].operation = "CreateTask"})

=============================================================================
