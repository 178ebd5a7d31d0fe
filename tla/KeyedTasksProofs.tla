-------------------------- MODULE KeyedTasksProofs --------------------------
(***************************************************************************)
(* What the task core keeps of its tasks and indexes, and what the handlers*)
(* that call it under an idempotency key keep of their answers, for all    *)
(* agents, keys, times and numbers of handlers.                            *)
(*                                                                         *)
(* The handlers implement the task core (HandlersImplementTask), so that   *)
(* whatever is proved of Task is true under them too.  That answers are    *)
(* true rests on an invariant about answers that are still on their way: a *)
(* handler carries the task it has created, and no record and no other     *)
(* handler has that task (Truthful).                                       *)
(***************************************************************************)
EXTENDS KeyedTasks, FiniteSetTheorems, TLAPS

(* The invariant of the task core, and what a step of it keeps.            *)
TaskInv == TaskTypeOK /\ IndexesMatch

(* ClosedTasksAreFinal, for one task.                                      *)
StaysFinal(t) ==
  /\ t \in DOMAIN tasks'
  /\ tasks[t].status # "Active" => tasks'[t] = tasks[t]
  /\ tasks[t].history \subseteq tasks'[t].history
  /\ tasks'[t].updatedAt >= tasks[t].updatedAt

Good == TaskInv' /\ \A t \in DOMAIN tasks : StaysFinal(t)

-----------------------------------------------------------------------------

LEMMA TaskRecordsAre ==
  ASSUME TaskTypeOK
  PROVE  /\ tasks = [t \in DOMAIN tasks |-> tasks[t]]
         /\ DOMAIN tasks \subseteq TaskId
         /\ \A t \in DOMAIN tasks : tasks[t] \in TaskRecord
BY TaskAssumption DEF TaskTypeOK, TaskId

(* An index to which t is put under `agent`, from which it is taken, and   *)
(* that has t exactly under S.                                             *)
Put(f, t, agent) == [f EXCEPT ![agent] = @ \cup {t}]
Taken(f, t, agent) == [f EXCEPT ![agent] = @ \ {t}]

IndexBy(f, t, S) ==
  [a \in Agents |-> IF a \in S THEN f[a] \cup {t} ELSE f[a] \ {t}]

(* One that has t exactly under S already is the index with it there.      *)
LEMMA IndexStays ==
  ASSUME NEW f \in [Agents -> SUBSET TaskId], NEW t, NEW S,
         \A a \in Agents : t \in f[a] <=> a \in S
  PROVE  f = IndexBy(f, t, S)
<1>1. \A a \in Agents : a \in S => f[a] \cup {t} = f[a]
  OBVIOUS
<1>2. \A a \in Agents : a \notin S => f[a] \ {t} = f[a]
  OBVIOUS
<1> QED
  BY <1>1, <1>2 DEF IndexBy

(* One task is replaced by a later state of it, and the indexes follow.    *)
LEMMA ReplaceGood ==
  ASSUME TaskInv, NEW t \in DOMAIN tasks, NEW new \in TaskRecord,
         tasks[t].status = "Active",
         tasks' = [tasks EXCEPT ![t] = new],
         tasks[t].history \subseteq new.history,
         new.updatedAt >= tasks[t].updatedAt,
         new.participants # {} => new.status = "Active",
         new.participants \subseteq new.history,
         activeTasksByAgent' = IndexBy(activeTasksByAgent, t, new.participants),
         taskHistoryByAgent' = IndexBy(taskHistoryByAgent, t, new.history)
  PROVE  Good
<1> USE DEF IndexBy
<1>1. /\ t \in TaskId /\ DOMAIN tasks' = DOMAIN tasks
      /\ \A s \in DOMAIN tasks : tasks'[s] = IF s = t THEN new ELSE tasks[s]
  BY TaskRecordsAre DEF TaskInv
<1>2. TaskTypeOK'
  <2>1. PICK n \in 0 .. MaxTasks : tasks \in [1 .. n -> TaskRecord]
    BY DEF TaskInv, TaskTypeOK
  <2>2. tasks' \in [1 .. n -> TaskRecord]
    BY <2>1
  <2>3. /\ activeTasksByAgent' \in [Agents -> SUBSET TaskId]
        /\ taskHistoryByAgent' \in [Agents -> SUBSET TaskId]
    BY <1>1 DEF TaskInv, TaskTypeOK
  <2> QED
    BY <2>1, <2>2, <2>3 DEF TaskTypeOK
<1>3. ASSUME NEW a \in Agents
      PROVE  /\ activeTasksByAgent'[a] =
                  {s \in DOMAIN tasks' : a \in tasks'[s].participants}
             /\ \A s \in activeTasksByAgent'[a] : tasks'[s].status = "Active"
             /\ taskHistoryByAgent'[a] =
                  {s \in DOMAIN tasks' : a \in tasks'[s].history}
             /\ activeTasksByAgent'[a] \subseteq taskHistoryByAgent'[a]
  <2>1. /\ activeTasksByAgent[a] = {s \in DOMAIN tasks : a \in tasks[s].participants}
        /\ \A s \in activeTasksByAgent[a] : tasks[s].status = "Active"
        /\ taskHistoryByAgent[a] = {s \in DOMAIN tasks : a \in tasks[s].history}
        /\ activeTasksByAgent[a] \subseteq taskHistoryByAgent[a]
    BY DEF TaskInv, IndexesMatch
  <2>2. activeTasksByAgent'[a] = {s \in DOMAIN tasks' : a \in tasks'[s].participants}
    BY <1>1, <2>1
  <2>3. taskHistoryByAgent'[a] = {s \in DOMAIN tasks' : a \in tasks'[s].history}
    BY <1>1, <2>1
  <2>4. \A s \in activeTasksByAgent'[a] : tasks'[s].status = "Active"
    BY <1>1, <2>1, <2>2
  <2>5. activeTasksByAgent'[a] \subseteq taskHistoryByAgent'[a]
    BY <2>1
  <2> QED
    BY <2>2, <2>3, <2>4, <2>5
<1>4. IndexesMatch'
  BY <1>3 DEF IndexesMatch
<1>5. \A s \in DOMAIN tasks : StaysFinal(s)
  <2>1. \A s \in DOMAIN tasks : tasks[s].updatedAt \in Nat
    BY TaskRecordsAre DEF TaskInv, TaskRecord, Time
  <2> QED
    BY <1>1, <2>1 DEF StaysFinal
<1> QED
  BY <1>2, <1>4, <1>5 DEF Good, TaskInv

LEMMA CreateGood ==
  ASSUME TaskInv, NEW publisher \in Agents, NEW at \in Time,
         Create(publisher, at)
  PROVE  Good
<1> DEFINE new == [publisher |-> publisher, participants |-> {},
                   history |-> {}, status |-> "Active", updatedAt |-> at]
<1>1. PICK n \in 0 .. MaxTasks : tasks \in [1 .. n -> TaskRecord]
  BY DEF TaskInv, TaskTypeOK
<1>2. n \in Nat /\ Cardinality(DOMAIN tasks) = n
  BY <1>1, FS_Interval, TaskAssumption
<1>3. NextTaskId = n + 1 /\ n + 1 \in 0 .. MaxTasks
  BY <1>2, TaskAssumption DEF NextTaskId, Create
<1>4. /\ DOMAIN tasks' = 1 .. n + 1
      /\ tasks' = [t \in 1 .. n + 1 |-> IF t = n + 1 THEN new ELSE tasks[t]]
  BY <1>1, <1>2, <1>3 DEF Create
<1>5. /\ activeTasksByAgent' = activeTasksByAgent
      /\ taskHistoryByAgent' = taskHistoryByAgent
  BY DEF Create
<1>6. new \in TaskRecord /\ new.participants = {} /\ new.history = {}
  BY DEF TaskRecord
<1>7. /\ \A t \in DOMAIN tasks : t \in 1 .. n + 1 /\ tasks'[t] = tasks[t]
      /\ n + 1 \notin DOMAIN tasks /\ tasks'[n + 1] = new
      /\ \A t \in 1 .. n + 1 : t = n + 1 \/ t \in DOMAIN tasks
  BY <1>1, <1>2, <1>4
<1> HIDE DEF new
<1>8. TaskTypeOK'
  <2>1. tasks' \in [1 .. n + 1 -> TaskRecord]
    BY <1>1, <1>2, <1>4, <1>6
  <2> QED
    BY <1>3, <1>5, <2>1 DEF TaskInv, TaskTypeOK
<1>9. IndexesMatch'
  <2> SUFFICES ASSUME NEW agent \in Agents
               PROVE
         /\ activeTasksByAgent[agent] =
              {t \in DOMAIN tasks' : agent \in tasks'[t].participants}
         /\ \A t \in activeTasksByAgent[agent] : tasks'[t].status = "Active"
         /\ taskHistoryByAgent[agent] =
              {t \in DOMAIN tasks' : agent \in tasks'[t].history}
         /\ activeTasksByAgent[agent] \subseteq taskHistoryByAgent[agent]
    BY <1>5 DEF IndexesMatch
  <2>1. /\ activeTasksByAgent[agent] =
             {t \in DOMAIN tasks : agent \in tasks[t].participants}
        /\ \A t \in activeTasksByAgent[agent] : tasks[t].status = "Active"
        /\ taskHistoryByAgent[agent] =
             {t \in DOMAIN tasks : agent \in tasks[t].history}
        /\ activeTasksByAgent[agent] \subseteq taskHistoryByAgent[agent]
    BY DEF TaskInv, IndexesMatch
  <2>2. {t \in DOMAIN tasks' : agent \in tasks'[t].participants}
          = {t \in DOMAIN tasks : agent \in tasks[t].participants}
    BY <1>4, <1>6, <1>7
  <2>3. {t \in DOMAIN tasks' : agent \in tasks'[t].history}
          = {t \in DOMAIN tasks : agent \in tasks[t].history}
    BY <1>4, <1>6, <1>7
  <2> QED
    BY <1>7, <2>1, <2>2, <2>3
<1>10. \A t \in DOMAIN tasks : StaysFinal(t)
  <2>1. \A t \in DOMAIN tasks : tasks[t].updatedAt \in Nat
    BY TaskRecordsAre DEF TaskInv, TaskRecord, Time
  <2> QED
    BY <1>4, <1>7, <2>1 DEF StaysFinal
<1> QED
  BY <1>8, <1>9, <1>10 DEF Good, TaskInv

(* What a call may touch.                                                  *)
LEMMA ActiveIs ==
  ASSUME TaskInv, NEW t, NEW at \in Time, ActiveAt(t, at)
  PROVE  /\ t \in DOMAIN tasks /\ tasks[t].status = "Active"
         /\ tasks[t] \in TaskRecord
         /\ at >= tasks[t].updatedAt
         /\ tasks[t].participants \subseteq Agents
         /\ tasks[t].history \subseteq Agents
         /\ tasks[t].participants \subseteq tasks[t].history
         /\ \A a \in Agents :
              /\ t \in activeTasksByAgent[a] <=> a \in tasks[t].participants
              /\ t \in taskHistoryByAgent[a] <=> a \in tasks[t].history
<1>1. /\ t \in DOMAIN tasks /\ tasks[t].status = "Active"
      /\ at >= tasks[t].updatedAt /\ tasks[t] \in TaskRecord
  BY TaskRecordsAre DEF ActiveAt, TaskInv
<1>2. tasks[t].participants \subseteq Agents /\ tasks[t].history \subseteq Agents
  BY <1>1 DEF TaskRecord
<1>3. \A a \in Agents :
        /\ t \in activeTasksByAgent[a] <=> a \in tasks[t].participants
        /\ t \in taskHistoryByAgent[a] <=> a \in tasks[t].history
        /\ t \in activeTasksByAgent[a] => t \in taskHistoryByAgent[a]
  BY <1>1 DEF TaskInv, IndexesMatch
<1> QED
  BY <1>1, <1>2, <1>3

LEMMA AddParticipantGood ==
  ASSUME TaskInv, NEW t, NEW agent \in Agents, NEW at \in Time,
         AddParticipant(t, agent, at)
  PROVE  Good
<1> DEFINE new == [tasks[t] EXCEPT !.participants = @ \cup {agent},
                                   !.history = @ \cup {agent},
                                   !.updatedAt = at]
<1>1. ActiveAt(t, at)
  BY DEF AddParticipant
<1>2. tasks[t] \in TaskRecord
  BY <1>1, ActiveIs
<1>3. /\ new \in TaskRecord
      /\ new.participants = tasks[t].participants \cup {agent}
      /\ new.history = tasks[t].history \cup {agent}
      /\ new.status = tasks[t].status /\ new.updatedAt = at
  BY <1>2 DEF TaskRecord
<1>4. tasks' = [tasks EXCEPT ![t] = new]
  BY <1>2 DEF AddParticipant, TaskRecord
<1> HIDE DEF new
<1>5. activeTasksByAgent' = IndexBy(activeTasksByAgent, t, new.participants)
  <2>1. /\ activeTasksByAgent \in [Agents -> SUBSET TaskId]
        /\ \A a \in Agents :
             t \in activeTasksByAgent[a] <=> a \in tasks[t].participants
    BY <1>1, ActiveIs DEF TaskInv, TaskTypeOK
  <2>2. activeTasksByAgent' = Put(activeTasksByAgent, t, agent)
    BY DEF AddParticipant, Put
  <2>3. Put(activeTasksByAgent, t, agent)
          = IndexBy(activeTasksByAgent, t, tasks[t].participants \cup {agent})
    <3> DEFINE f == activeTasksByAgent
               S == tasks[t].participants
    <3>1. \A a \in Agents : a \in S => f[a] \cup {t} = f[a]
      BY <2>1
    <3>2. \A a \in Agents : a \notin S => f[a] \ {t} = f[a]
      BY <2>1
    <3> QED
      BY <2>1, <3>1, <3>2 DEF Put, Taken, IndexBy
  <2> QED
    BY <1>3, <2>2, <2>3
<1>6. taskHistoryByAgent' = IndexBy(taskHistoryByAgent, t, new.history)
  <2>1. /\ taskHistoryByAgent \in [Agents -> SUBSET TaskId]
        /\ \A a \in Agents :
             t \in taskHistoryByAgent[a] <=> a \in tasks[t].history
    BY <1>1, ActiveIs DEF TaskInv, TaskTypeOK
  <2>2. taskHistoryByAgent' = Put(taskHistoryByAgent, t, agent)
    BY DEF AddParticipant, Put
  <2>3. Put(taskHistoryByAgent, t, agent)
          = IndexBy(taskHistoryByAgent, t, tasks[t].history \cup {agent})
    <3> DEFINE f == taskHistoryByAgent
               S == tasks[t].history
    <3>1. \A a \in Agents : a \in S => f[a] \cup {t} = f[a]
      BY <2>1
    <3>2. \A a \in Agents : a \notin S => f[a] \ {t} = f[a]
      BY <2>1
    <3> QED
      BY <2>1, <3>1, <3>2 DEF Put, Taken, IndexBy
  <2> QED
    BY <1>3, <2>2, <2>3
<1>7. /\ tasks[t].history \subseteq new.history
      /\ new.participants \subseteq new.history
      /\ new.status = "Active" /\ new.updatedAt >= tasks[t].updatedAt
      /\ t \in DOMAIN tasks /\ tasks[t].status = "Active"
  BY <1>1, <1>3, ActiveIs
<1> QED
  BY <1>3, <1>4, <1>5, <1>6, <1>7, ReplaceGood

LEMMA RemoveParticipantGood ==
  ASSUME TaskInv, NEW t, NEW agent \in Agents, NEW at \in Time,
         RemoveParticipant(t, agent, at)
  PROVE  Good
<1> DEFINE new == [tasks[t] EXCEPT !.participants = @ \ {agent},
                                   !.updatedAt = at]
<1>1. ActiveAt(t, at)
  BY DEF RemoveParticipant
<1>2. tasks[t] \in TaskRecord
  BY <1>1, ActiveIs
<1>3. /\ new \in TaskRecord
      /\ new.participants = tasks[t].participants \ {agent}
      /\ new.history = tasks[t].history
      /\ new.status = tasks[t].status /\ new.updatedAt = at
  BY <1>2 DEF TaskRecord
<1>4. tasks' = [tasks EXCEPT ![t] = new]
  BY <1>2 DEF RemoveParticipant, TaskRecord
<1> HIDE DEF new
<1>5. activeTasksByAgent' = IndexBy(activeTasksByAgent, t, new.participants)
  <2>1. /\ activeTasksByAgent \in [Agents -> SUBSET TaskId]
        /\ \A a \in Agents :
             t \in activeTasksByAgent[a] <=> a \in tasks[t].participants
    BY <1>1, ActiveIs DEF TaskInv, TaskTypeOK
  <2>2. activeTasksByAgent' = Taken(activeTasksByAgent, t, agent)
    BY DEF RemoveParticipant, Taken
  <2>3. Taken(activeTasksByAgent, t, agent)
          = IndexBy(activeTasksByAgent, t, tasks[t].participants \ {agent})
    <3> DEFINE f == activeTasksByAgent
               S == tasks[t].participants
    <3>1. \A a \in Agents : a \in S => f[a] \cup {t} = f[a]
      BY <2>1
    <3>2. \A a \in Agents : a \notin S => f[a] \ {t} = f[a]
      BY <2>1
    <3> QED
      BY <2>1, <3>1, <3>2 DEF Put, Taken, IndexBy
  <2> QED
    BY <1>3, <2>2, <2>3
<1>6. taskHistoryByAgent' = IndexBy(taskHistoryByAgent, t, new.history)
  <2>1. /\ taskHistoryByAgent \in [Agents -> SUBSET TaskId]
        /\ \A a \in Agents :
             t \in taskHistoryByAgent[a] <=> a \in tasks[t].history
    BY <1>1, ActiveIs DEF TaskInv, TaskTypeOK
  <2>2. taskHistoryByAgent' = taskHistoryByAgent
    BY DEF RemoveParticipant
  <2> QED
    BY <1>3, <2>1, <2>2, IndexStays
<1>7. /\ tasks[t].history \subseteq new.history
      /\ new.participants \subseteq new.history
      /\ new.status = "Active" /\ new.updatedAt >= tasks[t].updatedAt
      /\ t \in DOMAIN tasks /\ tasks[t].status = "Active"
  BY <1>1, <1>3, ActiveIs
<1> QED
  BY <1>3, <1>4, <1>5, <1>6, <1>7, ReplaceGood

LEMMA CloseGood ==
  ASSUME TaskInv, NEW t, NEW status \in {"Completed", "Cancelled"},
         NEW at \in Time, Close(t, status, at)
  PROVE  Good
<1> DEFINE new == [tasks[t] EXCEPT !.participants = {}, !.status = status,
                                   !.updatedAt = at]
<1>1. ActiveAt(t, at)
  BY DEF Close
<1>2. tasks[t] \in TaskRecord
  BY <1>1, ActiveIs
<1>3. /\ new \in TaskRecord
      /\ new.participants = {} /\ new.history = tasks[t].history
      /\ new.updatedAt = at
  BY <1>2 DEF TaskRecord
<1>4. tasks' = [tasks EXCEPT ![t] = new]
  BY <1>2 DEF Close, TaskRecord
<1> HIDE DEF new
<1>5. activeTasksByAgent' = IndexBy(activeTasksByAgent, t, new.participants)
  <2>1. \A a \in Agents :
          a \notin tasks[t].participants => t \notin activeTasksByAgent[a]
    BY <1>1, ActiveIs
  <2>2. \A a \in Agents :
          a \notin tasks[t].participants
            => activeTasksByAgent[a] \ {t} = activeTasksByAgent[a]
    BY <2>1
  <2> QED
    BY <1>3, <2>2 DEF Close, IndexWithout, IndexBy
<1>6. taskHistoryByAgent' = IndexBy(taskHistoryByAgent, t, new.history)
  <2>1. /\ taskHistoryByAgent \in [Agents -> SUBSET TaskId]
        /\ \A a \in Agents :
             t \in taskHistoryByAgent[a] <=> a \in tasks[t].history
    BY <1>1, ActiveIs DEF TaskInv, TaskTypeOK
  <2>2. taskHistoryByAgent' = taskHistoryByAgent
    BY DEF Close
  <2> QED
    BY <1>3, <2>1, <2>2, IndexStays
<1>7. /\ tasks[t].history \subseteq new.history
      /\ new.participants \subseteq new.history
      /\ new.updatedAt >= tasks[t].updatedAt
      /\ t \in DOMAIN tasks /\ tasks[t].status = "Active"
  BY <1>1, <1>3, ActiveIs
<1> QED
  BY <1>3, <1>4, <1>5, <1>6, <1>7, ReplaceGood

-----------------------------------------------------------------------------

LEMMA TaskStep ==
  ASSUME TaskInv, [TaskNext]_taskVars
  PROVE  Good
<1>1. CASE UNCHANGED taskVars
  <2>1. TaskInv'
    BY <1>1 DEF taskVars, TaskInv, TaskTypeOK, IndexesMatch
  <2>2. \A t \in DOMAIN tasks : tasks[t].updatedAt \in Nat
    BY TaskRecordsAre DEF TaskInv, TaskRecord, Time
  <2> QED
    BY <1>1, <2>1, <2>2 DEF taskVars, Good, StaysFinal
<1> QED
  BY <1>1, CreateGood, AddParticipantGood, RemoveParticipantGood, CloseGood
     DEF TaskNext

LEMMA TaskInvInitially == TaskInit => TaskInv
<1> SUFFICES ASSUME TaskInit
             PROVE  TaskInv
  OBVIOUS
<1>1. 0 \in 0 .. MaxTasks /\ tasks \in [1 .. 0 -> TaskRecord]
  BY TaskAssumption DEF TaskInit
<1> QED
  BY <1>1 DEF TaskInit, TaskInv, TaskTypeOK, IndexesMatch

LEMMA TaskInvariant == TaskSpec => []TaskInv
<1>1. TaskInit => TaskInv
  BY TaskInvInitially
<1>2. TaskInv /\ [TaskNext]_taskVars => TaskInv'
  BY TaskStep DEF Good
<1> QED
  BY <1>1, <1>2, PTL DEF TaskSpec

(* Ids are given out without gaps and every task has its fields' types,    *)
(* whatever is called and in whatever order of times (core.rs:24-46).      *)
THEOREM TaskTypeCorrect == TaskSpec => []TaskTypeOK
<1>1. TaskInv => TaskTypeOK
  BY DEF TaskInv
<1> QED
  BY <1>1, TaskInvariant, PTL

(* The two indexes of TaskCore list an agent under exactly the tasks it    *)
(* takes part in, all of them active, and under those that remember it     *)
(* (core.rs:48-106, 136-168).                                              *)
THEOREM IndexesAlwaysMatch == TaskSpec => []IndexesMatch
<1>1. TaskInv => IndexesMatch
  BY DEF TaskInv
<1> QED
  BY <1>1, TaskInvariant, PTL

(* No call, early or late, changes a task that is closed, shortens its     *)
(* history or sets its clock back (core.rs:170-190).                       *)
THEOREM ClosedTasksStayFinal == TaskSpec => ClosedTasksAreFinal
<1>1. TaskInv /\ [TaskNext]_taskVars
        => [\A t \in DOMAIN tasks : StaysFinal(t)]_taskVars
  BY TaskStep DEF Good
<1>2. (\A t \in DOMAIN tasks : StaysFinal(t))
        => \A t \in DOMAIN tasks :
             /\ t \in DOMAIN tasks'
             /\ tasks[t].status # "Active" => tasks'[t] = tasks[t]
             /\ tasks[t].history \subseteq tasks'[t].history
             /\ tasks'[t].updatedAt >= tasks[t].updatedAt
  BY DEF StaysFinal
<1> QED
  BY <1>1, <1>2, TaskInvariant, PTL DEF TaskSpec, ClosedTasksAreFinal

-----------------------------------------------------------------------------
(* The fields that the records and the handlers have; the rest of a field  *)
(* than its presence matters only for the times.                           *)
RecordsOK ==
  /\ idempotency = [i \in DOMAIN idempotency |-> idempotency[i]]
  /\ \A i \in DOMAIN idempotency :
       /\ idempotency[i] = [operation |-> idempotency[i].operation,
                            outcome |-> idempotency[i].outcome,
                            updatedAt |-> idempotency[i].updatedAt]
       /\ idempotency[i].updatedAt \in Nat

CallsOK ==
  \A call \in calls :
    /\ call = [caller |-> call.caller, key |-> call.key,
               request |-> call.request, at |-> call.at,
               outcome |-> call.outcome]
    /\ call.at \in Nat

KeyedInv == RecordsOK /\ CallsOK /\ OneHandlerPerKey

-----------------------------------------------------------------------------
(* Every step either begins a call, finishes one, gives one its outcome,   *)
(* gives one up, or touches neither records nor handlers.                  *)

Begins(caller, key, request, at) ==
  /\ I!Begin(I!IndexOf(caller, key), request.operation, at)
  /\ calls' = calls \cup
       {[caller |-> caller, key |-> key, request |-> request, at |-> at,
         outcome |-> I!Pending]}

Finishes(call) ==
  /\ HasEffect(call)
  /\ I!Finish(Index(call), Operation(call), call.outcome, call.at)
  /\ calls' = calls \ {call}

Answers(call) ==
  /\ DoCreateTask(call) \/ DoAddParticipant(call)
  /\ \E outcome : Answer(call, outcome)
  /\ UNCHANGED idempotency

GivesUp(call) == calls' = calls \ {call} /\ UNCHANGED idempotency

LEMMA StepKinds ==
  ASSUME [KeyedNext]_keyedVars
  PROVE  \/ \E caller, key, request : \E at \in Time :
              Begins(caller, key, request, at)
         \/ \E call \in calls : Finishes(call) \/ Answers(call) \/ GivesUp(call)
         \/ UNCHANGED <<idempotency, calls>>
<1>1. CASE UNCHANGED keyedVars
  BY <1>1 DEF keyedVars
<1>2. ASSUME NEW caller \in Agents, NEW key \in Keys, NEW at \in Time,
             BeginCreateTask(caller, key, at)
      PROVE  Begins(caller, key, CreateTask, at)
  BY <1>2 DEF BeginCreateTask, BeginCall, Begins
<1>3. ASSUME NEW caller \in Agents, NEW key \in Keys, NEW at \in Time,
             NEW t \in TaskId, NEW agent \in Agents,
             BeginAddParticipant(caller, key, t, agent, at)
      PROVE  Begins(caller, key, AddTo(t, agent), at)
  BY <1>3 DEF BeginAddParticipant, BeginCall, Begins
<1>4. ASSUME NEW call \in calls, DoCreateTask(call) \/ DoAddParticipant(call)
      PROVE  Answers(call)
  BY <1>4 DEF DoCreateTask, DoAddParticipant, Answers
<1>5. ASSUME NEW call \in calls, AddingFails(call) \/ Drop(call)
      PROVE  GivesUp(call)
  BY <1>5 DEF AddingFails, Drop, GivesUp
<1>6. ASSUME NEW call \in calls, FinishCall(call)
      PROVE  Finishes(call) \/ GivesUp(call)
  BY <1>6 DEF FinishCall, Finishes, GivesUp
<1>7. CASE ElsewhereInTask
  BY <1>7 DEF ElsewhereInTask
<1> QED
  BY <1>1, <1>2, <1>3, <1>4, <1>5, <1>6, <1>7 DEF KeyedNext

-----------------------------------------------------------------------------

LEMMA BeginsKeeps ==
  ASSUME KeyedInv,
         NEW caller, NEW key, NEW request, NEW at \in Time,
         Begins(caller, key, request, at)
  PROVE  KeyedInv'
<1> DEFINE i == I!IndexOf(caller, key)
           new == [caller |-> caller, key |-> key, request |-> request,
                   at |-> at, outcome |-> I!Pending]
<1>1. at \in Nat /\ PendingTimeout \in Nat /\ PendingTimeout > 0
  BY KeyedAssumption, TaskAssumption DEF Time
<1>2. /\ calls' = calls \cup {new}
      /\ new.at = at /\ Index(new) = i
  BY DEF Begins, Index
<1>3. /\ DOMAIN idempotency' = DOMAIN idempotency \cup {i}
      /\ idempotency'[i] = [operation |-> request.operation,
                            outcome |-> I!Pending, updatedAt |-> at]
      /\ \A j \in DOMAIN idempotency \ {i} : idempotency'[j] = idempotency[j]
      /\ idempotency' = [j \in DOMAIN idempotency' |-> idempotency'[j]]
  BY DEF Begins, I!Begin
<1>4. RecordsOK'
  BY <1>1, <1>3 DEF KeyedInv, RecordsOK
<1>5. CallsOK'
  BY <1>1, <1>2 DEF KeyedInv, CallsOK
<1>6. \A call \in calls : Index(call) = i => at >= call.at + PendingTimeout
  <2> SUFFICES ASSUME NEW call \in calls, Index(call) = i
               PROVE  at >= call.at + PendingTimeout
    OBVIOUS
  <2>1. call.at \in Nat
    BY DEF KeyedInv, CallsOK
  <2>2. /\ i \in DOMAIN idempotency
        /\ idempotency[i].updatedAt \in Nat
        /\ \/ idempotency[i].updatedAt = call.at
           \/ idempotency[i].updatedAt >= call.at + PendingTimeout
    BY DEF KeyedInv, OneHandlerPerKey, RecordsOK, I!HasRecord
  <2>3. at >= idempotency[i].updatedAt + PendingTimeout
    BY <2>2 DEF Begins, I!Begin, I!HasRecord, I!Expired
  <2> QED
    BY <1>1, <2>1, <2>2, <2>3
<1>7. OneHandlerPerKey'
  <2> SUFFICES ASSUME NEW call \in calls'
               PROVE  /\ \A other \in calls' :
                           (other # call /\ Index(other) = Index(call)) =>
                             \/ call.at >= other.at + PendingTimeout
                             \/ other.at >= call.at + PendingTimeout
                      /\ Index(call) \in DOMAIN idempotency'
                      /\ \/ /\ idempotency'[Index(call)].outcome = I!Pending
                            /\ idempotency'[Index(call)].updatedAt = call.at
                         \/ idempotency'[Index(call)].updatedAt
                              >= call.at + PendingTimeout
    BY DEF OneHandlerPerKey, I!HasRecord, I!Pending, Index, I!IndexOf
  <2>1. ASSUME NEW other \in calls', other # call, Index(other) = Index(call)
        PROVE  \/ call.at >= other.at + PendingTimeout
               \/ other.at >= call.at + PendingTimeout
    BY <1>2, <1>6, <2>1 DEF KeyedInv, OneHandlerPerKey
  <2>2. CASE call = new
    BY <1>2, <1>3, <2>1, <2>2
  <2>3. CASE call \in calls /\ Index(call) = i
    BY <1>3, <1>6, <2>1, <2>3
  <2>4. CASE call \in calls /\ Index(call) # i
    <3>1. /\ Index(call) \in DOMAIN idempotency
          /\ \/ /\ idempotency[Index(call)].outcome = I!Pending
                /\ idempotency[Index(call)].updatedAt = call.at
             \/ idempotency[Index(call)].updatedAt >= call.at + PendingTimeout
      BY <2>4 DEF KeyedInv, OneHandlerPerKey, I!HasRecord
    <3> QED
      BY <1>3, <2>1, <2>4, <3>1
  <2> QED
    BY <1>2, <2>2, <2>3, <2>4
<1> QED
  BY <1>4, <1>5, <1>7 DEF KeyedInv

LEMMA FinishesKeeps ==
  ASSUME KeyedInv, NEW done \in calls, Finishes(done)
  PROVE  KeyedInv'
<1> DEFINE i == Index(done)
<1>1. /\ PendingTimeout \in Nat /\ PendingTimeout > 0
      /\ done.at \in Nat
  BY KeyedAssumption DEF KeyedInv, CallsOK
<1>2. calls' = calls \ {done}
  BY DEF Finishes
<1>3. /\ i \in DOMAIN idempotency
      /\ idempotency[i].updatedAt \in Nat
      /\ done.at >= idempotency[i].updatedAt
      /\ idempotency' = [idempotency EXCEPT ![i] =
                           [operation |-> Operation(done),
                            outcome |-> done.outcome, updatedAt |-> done.at]]
  BY DEF Finishes, I!Finish, I!MayFinish, I!HasRecord, KeyedInv, RecordsOK
<1>4. /\ DOMAIN idempotency' = DOMAIN idempotency
      /\ idempotency' = [j \in DOMAIN idempotency' |-> idempotency'[j]]
      /\ idempotency'[i] = [operation |-> Operation(done),
                            outcome |-> done.outcome, updatedAt |-> done.at]
      /\ \A j \in DOMAIN idempotency \ {i} : idempotency'[j] = idempotency[j]
  BY <1>3 DEF KeyedInv, RecordsOK
<1>5. RecordsOK'
  BY <1>1, <1>3, <1>4 DEF KeyedInv, RecordsOK
<1>6. CallsOK'
  BY <1>2 DEF KeyedInv, CallsOK
<1>7. idempotency[i].updatedAt = done.at
  BY <1>1, <1>3 DEF KeyedInv, OneHandlerPerKey
<1>8. OneHandlerPerKey'
  <2> SUFFICES ASSUME NEW call \in calls'
               PROVE  /\ \A other \in calls' :
                           (other # call /\ Index(other) = Index(call)) =>
                             \/ call.at >= other.at + PendingTimeout
                             \/ other.at >= call.at + PendingTimeout
                      /\ Index(call) \in DOMAIN idempotency'
                      /\ \/ /\ idempotency'[Index(call)].outcome = I!Pending
                            /\ idempotency'[Index(call)].updatedAt = call.at
                         \/ idempotency'[Index(call)].updatedAt
                              >= call.at + PendingTimeout
    BY DEF OneHandlerPerKey, I!HasRecord, I!Pending, Index, I!IndexOf
  <2>1. /\ call \in calls /\ call # done /\ call.at \in Nat
        /\ \A other \in calls' :
             (other # call /\ Index(other) = Index(call)) =>
               \/ call.at >= other.at + PendingTimeout
               \/ other.at >= call.at + PendingTimeout
        /\ Index(call) \in DOMAIN idempotency
        /\ \/ /\ idempotency[Index(call)].outcome = I!Pending
              /\ idempotency[Index(call)].updatedAt = call.at
           \/ idempotency[Index(call)].updatedAt >= call.at + PendingTimeout
    BY <1>2 DEF KeyedInv, CallsOK, OneHandlerPerKey, I!HasRecord
  <2>2. CASE Index(call) # i
    BY <1>4, <2>1, <2>2
  <2>3. CASE Index(call) = i
    <3>1. \/ call.at >= done.at + PendingTimeout
          \/ done.at >= call.at + PendingTimeout
      BY <2>1, <2>3 DEF KeyedInv, OneHandlerPerKey
    <3>2. done.at >= call.at + PendingTimeout
      BY <1>1, <1>7, <2>1, <2>3, <3>1
    <3> QED
      BY <1>4, <2>1, <2>3, <3>2
  <2> QED
    BY <2>2, <2>3
<1> QED
  BY <1>5, <1>6, <1>8 DEF KeyedInv

LEMMA AnswersKeeps ==
  ASSUME KeyedInv, NEW call \in calls, Answers(call)
  PROVE  KeyedInv'
<1>1. PICK outcome : Answer(call, outcome)
  BY DEF Answers
<1> DEFINE new == [caller |-> call.caller, key |-> call.key,
                   request |-> call.request, at |-> call.at,
                   outcome |-> outcome]
<1>2. /\ calls' = (calls \ {call}) \cup {new}
      /\ UNCHANGED idempotency
  BY <1>1 DEF Answer, Answers
<1>3. new.at = call.at /\ Index(new) = Index(call)
  BY DEF Index
<1>4. RecordsOK'
  BY <1>2 DEF KeyedInv, RecordsOK
<1>5. CallsOK'
  BY <1>2 DEF KeyedInv, CallsOK
<1> HIDE DEF new
<1>6. OneHandlerPerKey'
  <2> DEFINE old(c) == IF c = new THEN call ELSE c
  <2>1. \A c \in calls' : /\ old(c) \in calls
                          /\ old(c).at = c.at
                          /\ Index(old(c)) = Index(c)
    BY <1>2, <1>3
  <2>2. \A c, other \in calls' : other # c => old(other) # old(c)
    BY <1>2
  <2> SUFFICES ASSUME NEW c \in calls'
               PROVE  /\ \A other \in calls' :
                           (other # c /\ Index(other) = Index(c)) =>
                             \/ c.at >= other.at + PendingTimeout
                             \/ other.at >= c.at + PendingTimeout
                      /\ Index(c) \in DOMAIN idempotency
                      /\ \/ /\ idempotency[Index(c)].outcome = I!Pending
                            /\ idempotency[Index(c)].updatedAt = c.at
                         \/ idempotency[Index(c)].updatedAt
                              >= c.at + PendingTimeout
    BY <1>2 DEF OneHandlerPerKey, I!HasRecord, I!Pending, Index, I!IndexOf
  <2> HIDE DEF old
  <2> QED
    BY <2>1, <2>2 DEF KeyedInv, OneHandlerPerKey, I!HasRecord
<1> QED
  BY <1>4, <1>5, <1>6 DEF KeyedInv

LEMMA GivesUpKeeps ==
  ASSUME KeyedInv, NEW call \in calls, GivesUp(call)
  PROVE  KeyedInv'
  BY DEF KeyedInv, GivesUp, RecordsOK, CallsOK, OneHandlerPerKey,
         I!HasRecord, I!Pending, Index, I!IndexOf

LEMMA KeyedInvInductive == KeyedSpec => []KeyedInv
<1>1. KeyedInit => KeyedInv
  BY DEF KeyedInit, I!IdempotencyInit, KeyedInv, RecordsOK, CallsOK,
         OneHandlerPerKey
<1>2. ASSUME KeyedInv, [KeyedNext]_keyedVars
      PROVE  KeyedInv'
  <2>1. CASE UNCHANGED <<idempotency, calls>>
    BY <1>2, <2>1 DEF KeyedInv, RecordsOK, CallsOK, OneHandlerPerKey,
                      I!HasRecord, I!Pending, Index, I!IndexOf
  <2> QED
    BY <1>2, <2>1, StepKinds, BeginsKeeps, FinishesKeeps, AnswersKeeps,
       GivesUpKeeps
<1> QED
  BY <1>1, <1>2, PTL DEF KeyedSpec

-----------------------------------------------------------------------------
(* Theorems.                                                               *)

(* Two handlers of one key are PendingTimeout apart, whatever the times    *)
(* are that the handlers carry and the order in which they arrive          *)
(* (storage/core.rs:83-119, 202-219).                                      *)
THEOREM HandlersKeepTheirDistance == KeyedSpec => []OneHandlerPerKey
<1>1. KeyedInv => OneHandlerPerKey
  BY DEF KeyedInv
<1> QED
  BY <1>1, KeyedInvInductive, PTL

(* What a key has answered once it answers for good, although handlers     *)
(* that were taken for lost may still try to finish                        *)
(* (storage/core.rs:100-118, 145-163).                                     *)
THEOREM AnswersStayFinal == KeyedSpec => AnswersAreFinal
<1>1. ASSUME KeyedInv, [KeyedNext]_keyedVars,
             NEW i \in DOMAIN idempotency, idempotency[i].outcome # I!Pending
      PROVE  i \in DOMAIN idempotency' /\ idempotency'[i] = idempotency[i]
  <2>1. ASSUME NEW caller, NEW key, NEW request, NEW at \in Time,
               Begins(caller, key, request, at)
        PROVE  i \in DOMAIN idempotency' /\ idempotency'[i] = idempotency[i]
    BY <1>1, <2>1 DEF Begins, I!Begin, I!HasRecord, I!IsPending
  <2>2. ASSUME NEW call \in calls, Finishes(call)
        PROVE  i \in DOMAIN idempotency' /\ idempotency'[i] = idempotency[i]
    BY <1>1, <2>2 DEF Finishes, I!Finish, I!MayFinish, I!HasRecord, I!IsPending
  <2> QED
    BY <1>1, <2>1, <2>2, StepKinds DEF Answers, GivesUp
<1>2. KeyedInv /\ [KeyedNext]_keyedVars
        => [\A i \in DOMAIN idempotency :
              idempotency[i].outcome # I!Pending =>
                /\ i \in DOMAIN idempotency'
                /\ idempotency'[i] = idempotency[i]]_keyedVars
  BY <1>1
<1> QED
  BY <1>2, KeyedInvInductive, PTL DEF KeyedSpec, AnswersAreFinal

-----------------------------------------------------------------------------
(* Handlers change tasks only as TaskCore lets anybody.                    *)

CallsTyped ==
  \A call \in calls :
    /\ call.caller \in Agents /\ call.at \in Time
    /\ \/ call.request = CreateTask
       \/ \E t \in TaskId, agent \in Agents : call.request = AddTo(t, agent)

LEMMA KeyedStepIsTaskStep ==
  ASSUME CallsTyped, TaskTypeOK, [KeyedNext]_keyedVars
  PROVE  CallsTyped' /\ [TaskNext]_taskVars
<1>1. ASSUME NEW caller \in Agents, NEW key, NEW request, NEW at \in Time,
             BeginCall(caller, key, request, at),
             \/ request = CreateTask
             \/ \E t \in TaskId, agent \in Agents : request = AddTo(t, agent)
      PROVE  CallsTyped' /\ UNCHANGED taskVars
  BY <1>1 DEF BeginCall, CallsTyped
<1>2. ASSUME NEW call \in calls, NEW outcome, Answer(call, outcome)
      PROVE  CallsTyped'
  BY <1>2 DEF Answer, CallsTyped
<1>3. ASSUME NEW call \in calls, calls' = calls \ {call}
      PROVE  CallsTyped'
  BY <1>3 DEF CallsTyped
<1>4. ASSUME NEW caller \in Agents, NEW key \in Keys, NEW at \in Time,
             \/ BeginCreateTask(caller, key, at)
             \/ \E t \in TaskId, agent \in Agents :
                  BeginAddParticipant(caller, key, t, agent, at)
      PROVE  CallsTyped' /\ UNCHANGED taskVars
  BY <1>1, <1>4 DEF BeginCreateTask, BeginAddParticipant
<1>5. ASSUME NEW call \in calls, DoCreateTask(call)
      PROVE  CallsTyped' /\ TaskNext
  <2>1. Create(call.caller, call.at) /\ call.caller \in Agents /\ call.at \in Time
    BY <1>5 DEF DoCreateTask, CallsTyped
  <2> QED
    BY <1>2, <1>5, <2>1 DEF DoCreateTask, TaskNext
<1>6. ASSUME NEW call \in calls, DoAddParticipant(call)
      PROVE  CallsTyped' /\ TaskNext
  <2>1. PICK t \in TaskId, agent \in Agents : call.request = AddTo(t, agent)
    BY <1>6 DEF DoAddParticipant, Operation, CallsTyped, CreateTask
  <2>2. AddParticipant(t, agent, call.at) /\ call.at \in Time
    BY <1>6, <2>1 DEF DoAddParticipant, AddTo, CallsTyped
  <2> QED
    BY <1>2, <1>6, <2>1, <2>2 DEF DoAddParticipant, TaskNext
<1>7. ASSUME NEW call \in calls, AddingFails(call) \/ FinishCall(call) \/ Drop(call)
      PROVE  CallsTyped' /\ UNCHANGED taskVars
  BY <1>3, <1>7 DEF AddingFails, FinishCall, Drop
<1>8. CASE ElsewhereInTask
  <2>1. PICK t \in DOMAIN tasks, at \in Time :
          \/ \E agent \in Agents : RemoveParticipant(t, agent, at)
          \/ \E status \in Endings : Close(t, status, at)
    BY <1>8 DEF ElsewhereInTask
  <2>2. t \in TaskId /\ CallsTyped'
    BY <1>8, <2>1, TaskRecordsAre DEF ElsewhereInTask, CallsTyped
  <2>3. \E status \in {"Completed", "Cancelled"} : Close(t, status, at)
          \/ \E agent \in Agents : RemoveParticipant(t, agent, at)
    BY <2>1, KeyedAssumption
  <2> QED
    BY <2>2, <2>3 DEF TaskNext
<1>9. CASE UNCHANGED keyedVars
  BY <1>9 DEF keyedVars, taskVars, CallsTyped
<1> QED
  BY <1>4, <1>5, <1>6, <1>7, <1>8, <1>9 DEF KeyedNext

LEMMA KeyedTasksInv == KeyedSpec => [](CallsTyped /\ TaskInv)
<1>1. KeyedInit => CallsTyped /\ TaskInv
  BY TaskInvInitially DEF KeyedInit, CallsTyped
<1>2. CallsTyped /\ TaskInv /\ [KeyedNext]_keyedVars => (CallsTyped /\ TaskInv)'
  BY KeyedStepIsTaskStep, TaskStep DEF TaskInv, Good
<1> QED
  BY <1>1, <1>2, PTL DEF KeyedSpec

(* Handlers that are dropped, repeated and overtaken do nothing to the     *)
(* tasks but what one caller at a time may do (app.rs:278-292,             *)
(* task/core.rs:24-134).                                                   *)
THEOREM HandlersImplementTask == KeyedSpec => TaskSpec
<1>1. CallsTyped /\ TaskInv /\ [KeyedNext]_keyedVars => [TaskNext]_taskVars
  BY KeyedStepIsTaskStep DEF TaskInv
<1>2. KeyedInit => TaskInit
  BY DEF KeyedInit
<1> QED
  BY <1>1, <1>2, KeyedTasksInv, PTL DEF KeyedSpec, TaskSpec

-----------------------------------------------------------------------------
(* Answers are true.                                                       *)

Creates(call) == call.request = CreateTask /\ HasEffect(call)

(* The call has created a task that nobody else names.                     *)
NamesItsOwn(call) ==
  LET t == call.outcome.answer
  IN  /\ t \in DOMAIN tasks
      /\ tasks[t].publisher = call.caller
      /\ \A other \in calls :
           Creates(other) /\ other.outcome.answer = t => other = call
      /\ \A i \in DOMAIN idempotency :
           Created(i) => idempotency[i].outcome.answer # t

RecordIsTrue(i) ==
  LET t == idempotency[i].outcome.answer
  IN  /\ t \in DOMAIN tasks
      /\ tasks[t].publisher = i[1]
      /\ \A j \in DOMAIN idempotency :
           Created(j) /\ idempotency[j].outcome.answer = t => j = i

Truthful ==
  /\ \A call \in calls : Creates(call) => NamesItsOwn(call)
  /\ \A i \in DOMAIN idempotency : Created(i) => RecordIsTrue(i)

(* Tasks are never lost, nor given to another publisher.                   *)
TasksStay ==
  \A t \in DOMAIN tasks :
    t \in DOMAIN tasks' /\ tasks'[t].publisher = tasks[t].publisher

LEMMA CreatedTaskIsNew ==
  ASSUME TaskTypeOK, NEW publisher, NEW at, Create(publisher, at)
  PROVE  /\ NextTaskId \notin DOMAIN tasks
         /\ NextTaskId \in DOMAIN tasks'
         /\ tasks'[NextTaskId].publisher = publisher
<1>1. PICK n \in 0 .. MaxTasks : DOMAIN tasks = 1 .. n
  BY DEF TaskTypeOK
<1>2. NextTaskId = n + 1
  <2>1. n \in Nat
    BY TaskAssumption
  <2>2. Cardinality(1 .. n) = n
    BY <2>1, FS_Interval
  <2> QED
    BY <1>1, <2>2 DEF NextTaskId
<1>3. NextTaskId \notin DOMAIN tasks
  BY <1>1, <1>2
<1> QED
  BY <1>3 DEF Create

LEMMA TasksStayTheirs ==
  ASSUME TaskTypeOK, [TaskNext]_taskVars
  PROVE  TasksStay
<1>0. \A t \in DOMAIN tasks : tasks[t] \in TaskRecord
  BY DEF TaskTypeOK
<1>1. ASSUME NEW publisher, NEW at, Create(publisher, at)
      PROVE  TasksStay
  BY <1>1, CreatedTaskIsNew DEF Create, TasksStay
<1>2. ASSUME NEW t, NEW agent, NEW at, AddParticipant(t, agent, at)
      PROVE  TasksStay
  BY <1>0, <1>2 DEF AddParticipant, TasksStay, TaskRecord
<1>3. ASSUME NEW t, NEW agent, NEW at, RemoveParticipant(t, agent, at)
      PROVE  TasksStay
  BY <1>0, <1>3 DEF RemoveParticipant, TasksStay, TaskRecord
<1>4. ASSUME NEW t, NEW status, NEW at, Close(t, status, at)
      PROVE  TasksStay
  BY <1>0, <1>4 DEF Close, TasksStay, TaskRecord
<1>5. CASE UNCHANGED taskVars
  BY <1>5 DEF taskVars, TasksStay
<1> QED
  BY <1>1, <1>2, <1>3, <1>4, <1>5 DEF TaskNext

(* Records and handlers of the new state that made promises were there     *)
(* before and made the same ones: nothing else can break them.             *)
LEMMA NothingNewPromised ==
  ASSUME Truthful, TasksStay,
         \A call \in calls' : Creates(call) => call \in calls,
         \A i \in DOMAIN idempotency' :
           Created(i)' => /\ i \in DOMAIN idempotency /\ Created(i)
                          /\ idempotency'[i] = idempotency[i]
  PROVE  Truthful'
<1>1. \A call \in calls' : Creates(call) => NamesItsOwn(call)'
  BY DEF Truthful, TasksStay, NamesItsOwn, Creates, HasEffect, I!Pending
<1>2. \A i \in DOMAIN idempotency' : Created(i)' => RecordIsTrue(i)'
  BY DEF Truthful, TasksStay, RecordIsTrue
<1> QED
  BY <1>1, <1>2 DEF Truthful, Creates, HasEffect, I!Pending

LEMMA BeginsTruthful ==
  ASSUME Truthful, TasksStay, NEW caller, NEW key, NEW request, NEW at,
         Begins(caller, key, request, at)
  PROVE  Truthful'
<1> DEFINE i == I!IndexOf(caller, key)
<1>1. /\ DOMAIN idempotency' = DOMAIN idempotency \cup {i}
      /\ idempotency'[i].outcome = I!Pending
      /\ \A j \in DOMAIN idempotency \ {i} : idempotency'[j] = idempotency[j]
  BY DEF Begins, I!Begin
<1>2. \A call \in calls' : Creates(call) => call \in calls
  BY DEF Begins, Creates, HasEffect
<1> HIDE DEF i
<1>3. \A j \in DOMAIN idempotency' :
        Created(j)' => /\ j \in DOMAIN idempotency /\ Created(j)
                       /\ idempotency'[j] = idempotency[j]
  BY <1>1 DEF Created, I!Pending
<1> QED
  BY <1>2, <1>3, NothingNewPromised

LEMMA FinishesTruthful ==
  ASSUME CallsTyped, Truthful, TasksStay, NEW done \in calls, Finishes(done)
  PROVE  Truthful'
<1> DEFINE i == Index(done)
<1>1. /\ calls' = calls \ {done} /\ HasEffect(done)
      /\ i \in DOMAIN idempotency /\ DOMAIN idempotency' = DOMAIN idempotency
      /\ idempotency'[i].operation = Operation(done)
      /\ idempotency'[i].outcome = done.outcome
      /\ \A j \in DOMAIN idempotency \ {i} : idempotency'[j] = idempotency[j]
      /\ ~Created(i)
  BY DEF Finishes, I!Finish, I!MayFinish, I!HasRecord, I!IsPending, Created
<1>2. CASE Operation(done) # "CreateTask"
  <2>1. ~Created(i)'
    BY <1>1, <1>2 DEF Created
  <2> HIDE DEF i
  <2>2. \A j \in DOMAIN idempotency' :
          Created(j)' => /\ j \in DOMAIN idempotency /\ Created(j)
                         /\ idempotency'[j] = idempotency[j]
    BY <1>1, <2>1 DEF Created
  <2> QED
    BY <1>1, <2>2, NothingNewPromised
<1>3. CASE Operation(done) = "CreateTask"
  <2> DEFINE t == done.outcome.answer
  <2>1. Creates(done)
    <3>1. \/ done.request = CreateTask
          \/ \E a, agent : done.request = AddTo(a, agent)
      BY DEF CallsTyped
    <3>2. \A a, agent : AddTo(a, agent).operation # "CreateTask"
      BY DEF AddTo
    <3> QED
      BY <1>1, <1>3, <3>1, <3>2 DEF Creates, Operation
  <2>2. /\ t \in DOMAIN tasks /\ tasks[t].publisher = done.caller
        /\ \A other \in calls :
             Creates(other) /\ other.outcome.answer = t => other = done
        /\ \A j \in DOMAIN idempotency :
             Created(j) => idempotency[j].outcome.answer # t
    BY <2>1 DEF Truthful, NamesItsOwn
  <2>3. i[1] = done.caller
    BY DEF Index, I!IndexOf
  <2>4. /\ idempotency'[i].outcome.answer = t
        /\ \A j \in DOMAIN idempotency' :
             Created(j)' /\ j # i =>
               Created(j) /\ idempotency'[j] = idempotency[j]
    BY <1>1 DEF Created, I!Pending
  <2> HIDE DEF i, t
  <2>5. ASSUME NEW j \in DOMAIN idempotency', Created(j)'
        PROVE  RecordIsTrue(j)'
    <3>1. CASE j = i
      BY <1>1, <2>2, <2>3, <2>4, <2>5, <3>1 DEF RecordIsTrue, TasksStay
    <3>2. CASE j # i
      <4>1. RecordIsTrue(j) /\ idempotency[j].outcome.answer # t
        BY <1>1, <2>2, <2>4, <2>5, <3>2 DEF Truthful
      <4> QED
        BY <1>1, <2>4, <2>5, <3>2, <4>1 DEF RecordIsTrue, TasksStay
    <3> QED
      BY <3>1, <3>2
  <2>6. ASSUME NEW call \in calls', Creates(call)
        PROVE  NamesItsOwn(call)'
    <3>1. NamesItsOwn(call) /\ call.outcome.answer # t
      BY <1>1, <2>2, <2>6 DEF Truthful
    <3> QED
      BY <1>1, <2>4, <3>1
         DEF NamesItsOwn, TasksStay, Creates, HasEffect, I!Pending
  <2> QED
    BY <2>5, <2>6 DEF Truthful, Creates, HasEffect, I!Pending
<1> QED
  BY <1>2, <1>3

LEMMA AddsTruthful ==
  ASSUME Truthful, TasksStay, NEW call \in calls, DoAddParticipant(call)
  PROVE  Truthful'
<1>1. \A other \in calls' : Creates(other) => other \in calls
  BY DEF DoAddParticipant, Answer, Creates, Operation, CreateTask
<1> QED
  BY <1>1, NothingNewPromised DEF DoAddParticipant, Created, I!Pending

LEMMA CreatesTruthful ==
  ASSUME TaskTypeOK, Truthful, TasksStay, NEW call \in calls, DoCreateTask(call)
  PROVE  Truthful'
<1> PICK t : t = NextTaskId
  OBVIOUS
<1>1. /\ t \notin DOMAIN tasks /\ t \in DOMAIN tasks'
      /\ tasks'[t].publisher = call.caller
  BY CreatedTaskIsNew DEF DoCreateTask
<1> DEFINE new == [caller |-> call.caller, key |-> call.key,
                   request |-> call.request, at |-> call.at,
                   outcome |-> I!Succeeded(t)]
<1>2. /\ calls' = (calls \ {call}) \cup {new}
      /\ idempotency' = idempotency
  BY DEF DoCreateTask, Answer
<1>3. new.outcome.answer = t /\ new.caller = call.caller
  BY DEF I!Succeeded
<1> HIDE DEF new
<1>4. \A other \in calls :
        Creates(other) => NamesItsOwn(other) /\ other.outcome.answer # t
  BY <1>1 DEF Truthful, NamesItsOwn
<1>5. \A i \in DOMAIN idempotency :
        Created(i) => RecordIsTrue(i) /\ idempotency[i].outcome.answer # t
  BY <1>1 DEF Truthful, RecordIsTrue
<1>6. ASSUME NEW other \in calls', Creates(other)
      PROVE  NamesItsOwn(other)'
  <2>1. CASE other = new
    BY <1>1, <1>2, <1>3, <1>4, <1>5, <2>1
       DEF NamesItsOwn, Created, Creates, HasEffect, I!Pending
  <2>2. CASE other # new
    <3>1. NamesItsOwn(other) /\ other.outcome.answer # t
      BY <1>2, <1>4, <1>6, <2>2
    <3> QED
      BY <1>2, <1>3, <3>1
         DEF NamesItsOwn, TasksStay, Created, Creates, HasEffect, I!Pending
  <2> QED
    BY <2>1, <2>2
<1>7. ASSUME NEW i \in DOMAIN idempotency', Created(i)'
      PROVE  RecordIsTrue(i)'
  BY <1>2, <1>5, <1>7 DEF RecordIsTrue, TasksStay, Created, I!Pending
<1> QED
  BY <1>6, <1>7 DEF Truthful, Creates, HasEffect, I!Pending

LEMMA KeyedStepTruthful ==
  ASSUME CallsTyped, TaskTypeOK, Truthful, [KeyedNext]_keyedVars
  PROVE  Truthful'
<1>1. TasksStay
  BY KeyedStepIsTaskStep, TasksStayTheirs
<1>2. ASSUME NEW call \in calls, Answers(call)
      PROVE  Truthful'
  BY <1>1, <1>2, CreatesTruthful, AddsTruthful DEF Answers
<1>3. ASSUME NEW call \in calls, GivesUp(call)
      PROVE  Truthful'
  BY <1>1, <1>3, NothingNewPromised DEF GivesUp, Created, I!Pending
<1>4. CASE UNCHANGED <<idempotency, calls>>
  BY <1>1, <1>4, NothingNewPromised DEF Created, I!Pending
<1>5. ASSUME NEW caller, NEW key, NEW request, NEW at,
             Begins(caller, key, request, at)
      PROVE  Truthful'
  BY <1>1, <1>5, BeginsTruthful
<1>6. ASSUME NEW call \in calls, Finishes(call)
      PROVE  Truthful'
  BY <1>1, <1>6, FinishesTruthful
<1> QED
  BY <1>2, <1>3, <1>4, <1>5, <1>6, StepKinds

(* The task that is recorded for a key exists, belongs to the caller, and  *)
(* is recorded for no other key, although handlers that were taken for lost*)
(* still finish and clients try again (storage/core.rs:121-168,            *)
(* app.rs:278-292).                                                        *)
THEOREM AnswersStayTrue == KeyedSpec => []AnswersAreTrue
<1>1. KeyedInit => Truthful
  BY DEF KeyedInit, I!IdempotencyInit, Truthful
<1>2. CallsTyped /\ TaskInv /\ Truthful /\ [KeyedNext]_keyedVars => Truthful'
  BY KeyedStepTruthful DEF TaskInv
<1>3. Truthful => AnswersAreTrue
  BY DEF Truthful, RecordIsTrue, AnswersAreTrue
<1> QED
  BY <1>1, <1>2, <1>3, KeyedTasksInv, PTL DEF KeyedSpec
====
