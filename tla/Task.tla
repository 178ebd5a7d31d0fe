-------------------------------- MODULE Task --------------------------------
(***************************************************************************)
(* TaskCore (src/task/core.rs): tasks, who takes part in them, and the     *)
(* index of the active tasks of every agent that the core keeps beside     *)
(* them.  Every call carries the time its caller read; the server only     *)
(* creates tasks and adds and removes participants, the core also closes.  *)
(***************************************************************************)
EXTENDS Naturals, FiniteSets

CONSTANTS
  Agents,      \* agent ids
  MaxTime,     \* bound of the model: the last timestamp
  MaxTasks     \* bound of the model: task ids that are given out

ASSUME TaskAssumption == MaxTime \in Nat /\ MaxTasks \in Nat

VARIABLES
  tasks,              \* Task records by the number of their id
  activeTasksByAgent, \* index: the active tasks an agent takes part in
  taskHistoryByAgent  \* index: every task it ever took part in

taskVars == <<tasks, activeTasksByAgent, taskHistoryByAgent>>

TaskId == 1 .. MaxTasks
Time == 0 .. MaxTime

TaskRecord ==
  [publisher : Agents, participants : SUBSET Agents, history : SUBSET Agents,
   status : {"Active", "Completed", "Cancelled"}, updatedAt : Time]

-----------------------------------------------------------------------------

(* validate_active_at: TaskNotFound, TaskNotActive or                      *)
(* TimestampWentBackwards.                                                 *)
ActiveAt(t, at) ==
  /\ t \in DOMAIN tasks
  /\ tasks[t].status = "Active"
  /\ at >= tasks[t].updatedAt

TaskInit ==
  /\ tasks = [t \in {} |-> {}]
  /\ activeTasksByAgent = [a \in Agents |-> {}]
  /\ taskHistoryByAgent = [a \in Agents |-> {}]

(* fault: the counter is read before it moves.                             *)
CountBefore == Cardinality(DOMAIN tasks)

NextTaskId == Cardinality(DOMAIN tasks) + 1

Create(publisher, at) ==
  /\ Cardinality(DOMAIN tasks) < MaxTasks
  /\ tasks' = [t \in DOMAIN tasks \cup {NextTaskId} |->
                 IF t = NextTaskId
                 THEN [publisher |-> publisher, participants |-> {},
                       history |-> {}, status |-> "Active", updatedAt |-> at]
                 ELSE tasks[t]]
  /\ UNCHANGED <<activeTasksByAgent, taskHistoryByAgent>>

AddParticipant(t, agent, at) ==
  /\ ActiveAt(t, at)
  /\ tasks' = [tasks EXCEPT ![t].participants = @ \cup {agent},
                            ![t].history = @ \cup {agent},
                            ![t].updatedAt = at]
  /\ activeTasksByAgent' = [activeTasksByAgent EXCEPT ![agent] = @ \cup {t}]
  /\ taskHistoryByAgent' = [taskHistoryByAgent EXCEPT ![agent] = @ \cup {t}]

(* Not an effect when the agent does not take part: Ok(false).             *)
RemoveParticipant(t, agent, at) ==
  /\ ActiveAt(t, at)
  /\ agent \in tasks[t].participants
  /\ tasks' = [tasks EXCEPT ![t].participants = @ \ {agent},
                            ![t].updatedAt = at]
  /\ activeTasksByAgent' = [activeTasksByAgent EXCEPT ![agent] = @ \ {t}]
  /\ UNCHANGED taskHistoryByAgent

(* fault: the participants are cleared before the index is looked after.   *)
IndexAfterClear(t) == activeTasksByAgent

IndexWithout(t) ==
  [a \in Agents |-> IF a \in tasks[t].participants
                    THEN activeTasksByAgent[a] \ {t}
                    ELSE activeTasksByAgent[a]]

(* close: complete and cancel.                                             *)
Close(t, status, at) ==
  /\ ActiveAt(t, at)
  /\ activeTasksByAgent' = IndexWithout(t)
  /\ tasks' = [tasks EXCEPT ![t].participants = {}, ![t].status = status,
                            ![t].updatedAt = at]
  /\ UNCHANGED taskHistoryByAgent

TaskNext ==
  \E at \in Time :
    \/ \E publisher \in Agents : Create(publisher, at)
    \/ \E t \in TaskId, agent \in Agents :
         AddParticipant(t, agent, at) \/ RemoveParticipant(t, agent, at)
    \/ \E t \in TaskId, status \in {"Completed", "Cancelled"} :
         Close(t, status, at)

TaskSpec == TaskInit /\ [][TaskNext]_taskVars

-----------------------------------------------------------------------------
(* Properties.                                                             *)

(* Ids are given out without gaps and every record has its fields' types.  *)
TaskTypeOK ==
  /\ \E n \in 0 .. MaxTasks : tasks \in [1 .. n -> TaskRecord]
  /\ activeTasksByAgent \in [Agents -> SUBSET TaskId]
  /\ taskHistoryByAgent \in [Agents -> SUBSET TaskId]

(* The indexes and the tasks never disagree: an agent is listed under a    *)
(* task exactly while it takes part in it, which only an active task lets  *)
(* it, and in the history of exactly the tasks that remember it            *)
(* (core.rs:48-106, 136-168).  The runtime cleans up along the index.      *)
IndexesMatch ==
  \A a \in Agents :
    /\ activeTasksByAgent[a] =
         {t \in DOMAIN tasks : a \in tasks[t].participants}
    /\ \A t \in activeTasksByAgent[a] : tasks[t].status = "Active"
    /\ taskHistoryByAgent[a] = {t \in DOMAIN tasks : a \in tasks[t].history}
    /\ activeTasksByAgent[a] \subseteq taskHistoryByAgent[a]

(* A closed task is read-only, the history only grows and the clock of a   *)
(* task never runs backwards (core.rs:170-190).                            *)
ClosedTasksAreFinal ==
  [][\A t \in DOMAIN tasks :
       /\ t \in DOMAIN tasks'
       /\ tasks[t].status # "Active" => tasks'[t] = tasks[t]
       /\ tasks[t].history \subseteq tasks'[t].history
       /\ tasks'[t].updatedAt >= tasks[t].updatedAt]_taskVars

=============================================================================
