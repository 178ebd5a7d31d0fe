---------------------------- MODULE LiveSession ----------------------------
(***************************************************************************)
(* LiveSessionCore (src/livesession/core.rs): the running sessions of a    *)
(* task and the assignments given out in them.                             *)
(*                                                                         *)
(* Every call carries the time its HTTP handler read when it started, and  *)
(* handlers overtake each other, so the times that reach the core are in   *)
(* no particular order: each action takes any `at`.                        *)
(*                                                                         *)
(* The four index maps of the core are written in one place, assign, and   *)
(* never shrink; the queries below read the assignments directly.          *)
(***************************************************************************)
EXTENDS Naturals, FiniteSets

CONSTANTS
  Agents,          \* agent ids
  Tasks,           \* task ids
  Outputs,         \* output hashes an agent may submit
  NoOutput,        \* the output_hash of a new assignment, which is None
  MaxTime,         \* bound of the model: the last timestamp
  MaxSessions,     \* bound of the model: session ids that are given out
  MaxAssignments   \* bound of the model: assignment ids that are given out

ASSUME LiveSessionAssumption ==
  /\ MaxTime \in Nat /\ MaxSessions \in Nat /\ MaxAssignments \in Nat
  /\ NoOutput \notin Outputs

VARIABLES
  sessions,        \* LiveSession records by id
  assignments,     \* Assignment records by id
  reply            \* what the caller of the last effective call was told

liveSessionVars == <<sessions, assignments, reply>>

-----------------------------------------------------------------------------
(* Types.  Ids are the numbers in "session-N" and "assignment-N".          *)

Time == 0 .. MaxTime
SessionId == 1 .. MaxSessions
AssignmentId == 1 .. MaxAssignments

NoTarget == 0               \* the kind is Execute

AssignmentStatus == {"Assigned", "Submitted", "Approved", "Rejected", "Cancelled"}

Session == [task : Tasks, status : {"Running", "Closed"}, updatedAt : Time]

Assignment ==
  [task : Tasks, session : SessionId, agent : Agents,
   target : AssignmentId \cup {NoTarget}, status : AssignmentStatus,
   output : Outputs \cup {NoOutput}, updatedAt : Time]

-----------------------------------------------------------------------------
(* Queries.                                                                *)

IsExecute(a) == assignments[a].target = NoTarget

AssignmentsByAgent(agent) ==
  {a \in DOMAIN assignments : assignments[a].agent = agent}

ReviewAssignmentsForTarget(target) ==
  {a \in DOMAIN assignments : ~IsExecute(a) /\ assignments[a].target = target}

-----------------------------------------------------------------------------
(* Validation.                                                             *)

RunningSessionAt(s, at) ==
  /\ s \in DOMAIN sessions
  /\ sessions[s].status = "Running"
  /\ at >= sessions[s].updatedAt

(* fault: a review targets whatever its caller names.                      *)
NamedTarget(task, target) == target \in AssignmentId \cup {NoTarget}

(* validate_assignment_kind.                                               *)
ValidTarget(task, target) ==
  \/ target = NoTarget
  \/ /\ target \in DOMAIN assignments
     /\ IsExecute(target)
     /\ assignments[target].task = task

(* fault: the assignment's own clock is not checked.                       *)
StatusOnlyAt(a, statuses, at) ==
  a \in DOMAIN assignments /\ assignments[a].status \in statuses

(* validate_assigned_assignment_at, validate_submitted_assignment_at.      *)
StatusAt(a, statuses, at) ==
  /\ a \in DOMAIN assignments
  /\ at >= assignments[a].updatedAt
  /\ assignments[a].status \in statuses

(* fault: the session takes the time of the call, older or not.            *)
OverwriteSession(s, at) ==
  /\ sessions' = [sessions EXCEPT ![s].updatedAt = at]
  /\ reply' = "Ok"

(* touch_session comes last in its callers and may still refuse, after the *)
(* assignment has been changed.                                            *)
TouchSession(s, at) ==
  \/ /\ at >= sessions[s].updatedAt
     /\ sessions' = [sessions EXCEPT ![s].updatedAt = at]
     /\ reply' = "Ok"
  \/ /\ at < sessions[s].updatedAt
     /\ UNCHANGED sessions
     /\ reply' = "TimestampWentBackwards"

-----------------------------------------------------------------------------
(* Operations.                                                             *)

LiveSessionInit ==
  /\ sessions = [s \in {} |-> {}]
  /\ assignments = [a \in {} |-> {}]
  /\ reply = "Ok"

(* fault: the counter is read before it moves.                             *)
CountBefore == Cardinality(DOMAIN assignments)

NextSessionId == Cardinality(DOMAIN sessions) + 1

NextAssignmentId == Cardinality(DOMAIN assignments) + 1

CreateSession(task, at) ==
  /\ Cardinality(DOMAIN sessions) < MaxSessions
  /\ sessions' = [s \in DOMAIN sessions \cup {NextSessionId} |->
                    IF s = NextSessionId
                    THEN [task |-> task, status |-> "Running", updatedAt |-> at]
                    ELSE sessions[s]]
  /\ reply' = "Ok"
  /\ UNCHANGED assignments

CloseSession(s, at) ==
  /\ RunningSessionAt(s, at)
  /\ sessions' = [sessions EXCEPT ![s].status = "Closed", ![s].updatedAt = at]
  /\ reply' = "Ok"
  /\ UNCHANGED assignments

Assign(task, s, agent, target, at) ==
  /\ Cardinality(DOMAIN assignments) < MaxAssignments
  /\ RunningSessionAt(s, at)
  /\ sessions[s].task = task
  /\ ValidTarget(task, target)
  /\ assignments' =
       [a \in DOMAIN assignments \cup {NextAssignmentId} |->
          IF a = NextAssignmentId
          THEN [task |-> task, session |-> s, agent |-> agent,
                target |-> target, status |-> "Assigned",
                output |-> NoOutput, updatedAt |-> at]
          ELSE assignments[a]]
  /\ sessions' = [sessions EXCEPT ![s].updatedAt = at]
  /\ reply' = "Ok"

(* submit_output; submit_artifact reaches it once the manifest is valid.   *)
SubmitOutput(a, agent, output, at) ==
  /\ StatusAt(a, {"Assigned"}, at)
  /\ assignments[a].agent = agent
  /\ assignments' = [assignments EXCEPT ![a].output = output,
                                        ![a].status = "Submitted",
                                        ![a].updatedAt = at]
  /\ TouchSession(assignments[a].session, at)

SetStatus(a, status, at) ==
  assignments' = [assignments EXCEPT ![a].status = status, ![a].updatedAt = at]

(* The runtime's cancel: it looks at the session's clock before it writes. *)
CancelIfAssigned(a, at) ==
  /\ StatusAt(a, {"Assigned"}, at)
  /\ at >= sessions[assignments[a].session].updatedAt
  /\ SetStatus(a, "Cancelled", at)
  /\ TouchSession(assignments[a].session, at)

MarkReviewed(a, status, at) ==
  /\ StatusAt(a, {"Submitted"}, at)
  /\ SetStatus(a, status, at)
  /\ TouchSession(assignments[a].session, at)

CancelAssignment(a, at) ==
  /\ StatusAt(a, AssignmentStatus, at)
  /\ SetStatus(a, "Cancelled", at)
  /\ TouchSession(assignments[a].session, at)

LiveSessionNext ==
  \E at \in Time :
    \/ \E task \in Tasks : CreateSession(task, at)
    \/ \E s \in SessionId : CloseSession(s, at)
    \/ \E task \in Tasks, s \in SessionId, agent \in Agents,
          target \in AssignmentId \cup {NoTarget} :
         Assign(task, s, agent, target, at)
    \/ \E a \in AssignmentId, agent \in Agents, output \in Outputs :
         SubmitOutput(a, agent, output, at)
    \/ \E a \in AssignmentId : CancelIfAssigned(a, at)
    \/ \E a \in AssignmentId, status \in {"Approved", "Rejected"} :
         MarkReviewed(a, status, at)
    \/ \E a \in AssignmentId : CancelAssignment(a, at)

LiveSessionSpec == LiveSessionInit /\ [][LiveSessionNext]_liveSessionVars

-----------------------------------------------------------------------------
(* Properties.                                                             *)

(* Ids are given out without gaps and every record has its fields' types.  *)
LiveSessionTypeOK ==
  /\ \E n \in 0 .. MaxSessions : sessions \in [1 .. n -> Session]
  /\ \E n \in 0 .. MaxAssignments : assignments \in [1 .. n -> Assignment]
  /\ reply \in {"Ok", "TimestampWentBackwards"}

(* An assignment belongs to the task of its session, and a review          *)
(* assignment looks at an older Execute assignment of the same task, even  *)
(* if that was cancelled since: settlement pays along these references     *)
(* without checking them again (core.rs:68-81, 303-332).                   *)
ReferencesSound ==
  \A a \in DOMAIN assignments :
    /\ assignments[a].session \in DOMAIN sessions
    /\ sessions[assignments[a].session].task = assignments[a].task
    /\ ~IsExecute(a) =>
         LET target == assignments[a].target
         IN  /\ target \in DOMAIN assignments
             /\ target < a
             /\ IsExecute(target)
             /\ assignments[target].task = assignments[a].task

(* No assignment is newer than its session, although a refused call moves  *)
(* the assignment and not the session: the clock of the session bounds     *)
(* those of its assignments (core.rs:104-112, 161, 437-454).               *)
SessionClockLeads ==
  \A a \in DOMAIN assignments :
    assignments[a].updatedAt <= sessions[assignments[a].session].updatedAt

(* Statuses only move along the documented arrows, what was submitted      *)
(* stays what it was, the terms of an assignment never change, and neither *)
(* clock runs backwards although calls arrive in any order                 *)
(* (core.rs:135-301).                                                      *)
Successors(status) ==
  {"Cancelled"}
    \cup (IF status = "Assigned" THEN {"Submitted"} ELSE {})
    \cup (IF status = "Submitted" THEN {"Approved", "Rejected"} ELSE {})

AssignmentAdvances(a) ==
  LET old == assignments[a]
      new == assignments'[a]
  IN  /\ new.status \in {old.status} \cup Successors(old.status)
      /\ old.output # NoOutput => new.output = old.output
      /\ new.status \in {"Submitted", "Approved", "Rejected"}
           => new.output # NoOutput
      /\ new.updatedAt >= old.updatedAt
      /\ <<new.task, new.session, new.agent, new.target>>
           = <<old.task, old.session, old.agent, old.target>>

SessionAdvances(s) ==
  /\ sessions'[s].task = sessions[s].task
  /\ sessions'[s].updatedAt >= sessions[s].updatedAt
  /\ sessions[s].status = "Closed" => sessions'[s].status = "Closed"

NothingGoesBack ==
  [][/\ \A a \in DOMAIN assignments : AssignmentAdvances(a)
     /\ \A s \in DOMAIN sessions : SessionAdvances(s)]_liveSessionVars

=============================================================================
