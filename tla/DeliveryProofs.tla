--------------------------- MODULE DeliveryProofs ---------------------------
(***************************************************************************)
(* What the live sessions and the delivery of work never do, for all       *)
(* agents, tasks, manifests, keys, times and numbers of handlers.          *)
(*                                                                         *)
(* The handler that delivers implements the live sessions, so that what is *)
(* proved of LiveSession is true under it too.  What it has stored is tied *)
(* to the manifest by DeliveryInv: every output is the hash of an accepted *)
(* manifest for that assignment, and one handler at most has yet to store a*)
(* locator for it.  That equal files hash alike needs the sorting of files *)
(* (FilesSorted), for lists of every length.                               *)
(***************************************************************************)
EXTENDS Delivery, FiniteSetTheorems, SequenceTheorems,
        WellFoundedInduction, TLAPS

-----------------------------------------------------------------------------
(* Ids.  The counters are derived from the records, which have no gaps.    *)

LEMMA CountedIds ==
  ASSUME NEW n \in Nat
  PROVE  Cardinality(1 .. n) = n
BY FS_Interval

LEMMA NextSession ==
  ASSUME NEW n \in Nat, DOMAIN sessions = 1 .. n
  PROVE  NextSessionId = n + 1 /\ Cardinality(DOMAIN sessions) = n
BY CountedIds DEF NextSessionId

LEMMA NextAssignment ==
  ASSUME NEW n \in Nat, DOMAIN assignments = 1 .. n
  PROVE  NextAssignmentId = n + 1 /\ Cardinality(DOMAIN assignments) = n
BY CountedIds DEF NextAssignmentId

-----------------------------------------------------------------------------
(* What the handlers that change one assignment have in common.            *)

Delivered == {"Submitted", "Approved", "Rejected"}

(* An assignment has an output exactly when it has been delivered; a       *)
(* cancelled one may or may not have one.                                  *)
OutputFollowsStatus ==
  \A a \in DOMAIN assignments :
    /\ assignments[a].status = "Assigned" => assignments[a].output = NoOutput
    /\ assignments[a].status \in Delivered => assignments[a].output # NoOutput

Changed(a, status, output, at) ==
  [assignments[a] EXCEPT !.output = output, !.status = status, !.updatedAt = at]

Changes(a, status, output, at) ==
  /\ a \in DOMAIN assignments
  /\ at >= assignments[a].updatedAt
  /\ status \in Successors(assignments[a].status)
  /\ output \in Outputs \cup {NoOutput}
  /\ assignments[a].output # NoOutput => output = assignments[a].output
  /\ status \in Delivered => output # NoOutput
  /\ assignments' = [assignments EXCEPT ![a] = Changed(a, status, output, at)]
  /\ TouchSession(assignments[a].session, at)

LEMMA InitTypeOK == LiveSessionInit => LiveSessionTypeOK
<1> SUFFICES ASSUME LiveSessionInit
             PROVE  LiveSessionTypeOK
  OBVIOUS
<1>1. 0 \in 0 .. MaxSessions /\ 0 \in 0 .. MaxAssignments /\ 1 .. 0 = {}
  BY LiveSessionAssumption
<1>2. sessions \in [1 .. 0 -> Session] /\ assignments \in [1 .. 0 -> Assignment]
  BY <1>1 DEF LiveSessionInit
<1> QED
  BY <1>1, <1>2 DEF LiveSessionInit, LiveSessionTypeOK

LEMMA AssignmentHasType ==
  ASSUME LiveSessionTypeOK, NEW a \in DOMAIN assignments
  PROVE  assignments[a] \in Assignment
BY DEF LiveSessionTypeOK

LEMMA SubmitChanges ==
  ASSUME LiveSessionTypeOK, OutputFollowsStatus, NEW a, NEW agent \in Agents,
         NEW output \in Outputs, NEW at \in Time,
         SubmitOutput(a, agent, output, at)
  PROVE  Changes(a, "Submitted", output, at)
<1>1. /\ a \in DOMAIN assignments
      /\ at >= assignments[a].updatedAt
      /\ assignments[a].status = "Assigned"
  BY DEF SubmitOutput, StatusAt
<1>2. assignments[a].output = NoOutput /\ output # NoOutput
  BY <1>1, LiveSessionAssumption DEF OutputFollowsStatus
<1>3. assignments[a] \in Assignment
  BY <1>1, AssignmentHasType
<1>4. assignments' =
        [assignments EXCEPT ![a] = Changed(a, "Submitted", output, at)]
  BY <1>1, <1>3 DEF SubmitOutput, Changed, Assignment
<1> QED
  BY <1>1, <1>2, <1>4 DEF SubmitOutput, Changes, Successors, Delivered

(* The other handlers keep the output.                                     *)
LEMMA SetStatusChanges ==
  ASSUME LiveSessionTypeOK, OutputFollowsStatus, NEW a \in DOMAIN assignments,
         NEW status, NEW at \in Time,
         at >= assignments[a].updatedAt,
         status \in Successors(assignments[a].status) \ {"Submitted"},
         SetStatus(a, status, at), TouchSession(assignments[a].session, at)
  PROVE  Changes(a, status, assignments[a].output, at)
<1>1. assignments[a] \in Assignment
  BY AssignmentHasType
<1>2. assignments' =
        [assignments EXCEPT ![a] = Changed(a, status, assignments[a].output, at)]
  BY <1>1 DEF SetStatus, Changed, Assignment
<1>3. status \in Delivered => assignments[a].output # NoOutput
  BY DEF Successors, Delivered, OutputFollowsStatus
<1> QED
  BY <1>1, <1>2, <1>3 DEF Changes, Assignment

(* Every step creates or closes a session, assigns, or changes one         *)
(* assignment.                                                             *)
LEMMA StepCases ==
  ASSUME LiveSessionTypeOK, OutputFollowsStatus, LiveSessionNext
  PROVE  \E at \in Time :
           \/ \E task \in Tasks : CreateSession(task, at)
           \/ \E s \in SessionId : CloseSession(s, at)
           \/ \E task \in Tasks, s \in SessionId, agent \in Agents,
                 target \in AssignmentId \cup {NoTarget} :
                Assign(task, s, agent, target, at)
           \/ \E a \in DOMAIN assignments, status \in AssignmentStatus : \E output :
                Changes(a, status, output, at)
<1>1. PICK at \in Time :
        \/ \E task \in Tasks : CreateSession(task, at)
        \/ \E s \in SessionId : CloseSession(s, at)
        \/ \E task \in Tasks, s \in SessionId, agent \in Agents,
              target \in AssignmentId \cup {NoTarget} :
             Assign(task, s, agent, target, at)
        \/ \E a \in AssignmentId, agent \in Agents, output \in Outputs :
             SubmitOutput(a, agent, output, at)
        \/ \E a \in AssignmentId : CancelIfAssigned(a, at)
        \/ \E a \in AssignmentId, status \in {"Approved", "Rejected"} :
             MarkReviewed(a, status, at)
        \/ \E a \in AssignmentId : CancelAssignment(a, at)
  BY DEF LiveSessionNext
<1>2. ASSUME NEW a, NEW agent \in Agents, NEW output \in Outputs,
             SubmitOutput(a, agent, output, at)
      PROVE  a \in DOMAIN assignments /\ Changes(a, "Submitted", output, at)
  BY <1>2, SubmitChanges DEF Changes
<1>3. ASSUME NEW a, CancelIfAssigned(a, at)
      PROVE  /\ a \in DOMAIN assignments
             /\ Changes(a, "Cancelled", assignments[a].output, at)
  BY <1>3, SetStatusChanges DEF CancelIfAssigned, StatusAt, Successors
<1>4. ASSUME NEW a, NEW status \in {"Approved", "Rejected"},
             MarkReviewed(a, status, at)
      PROVE  /\ a \in DOMAIN assignments
             /\ Changes(a, status, assignments[a].output, at)
  BY <1>4, SetStatusChanges DEF MarkReviewed, StatusAt, Successors
<1>5. ASSUME NEW a, CancelAssignment(a, at)
      PROVE  /\ a \in DOMAIN assignments
             /\ Changes(a, "Cancelled", assignments[a].output, at)
  BY <1>5, SetStatusChanges
     DEF CancelAssignment, StatusAt, AssignmentStatus, Successors
<1> QED
  BY <1>1, <1>2, <1>3, <1>4, <1>5 DEF AssignmentStatus

-----------------------------------------------------------------------------
(* Type correctness.                                                       *)

SessionsOK == \E n \in 0 .. MaxSessions : sessions \in [1 .. n -> Session]

AssignmentsOK ==
  \E n \in 0 .. MaxAssignments : assignments \in [1 .. n -> Assignment]

LEMMA TouchTypeOK ==
  ASSUME SessionsOK, NEW s \in DOMAIN sessions, NEW at \in Time,
         TouchSession(s, at)
  PROVE  SessionsOK' /\ reply' \in {"Ok", "TimestampWentBackwards"}
<1>1. PICK n \in 0 .. MaxSessions : sessions \in [1 .. n -> Session]
  BY DEF SessionsOK
<1>2. [sessions[s] EXCEPT !.updatedAt = at] \in Session
  BY <1>1 DEF Session
<1>3. sessions' \in [1 .. n -> Session]
  BY <1>1, <1>2 DEF TouchSession
<1> QED
  BY <1>3 DEF SessionsOK, TouchSession

LEMMA CreateTypeOK ==
  ASSUME LiveSessionTypeOK, NEW task \in Tasks, NEW at \in Time,
         CreateSession(task, at)
  PROVE  LiveSessionTypeOK'
<1>1. PICK n \in 0 .. MaxSessions : sessions \in [1 .. n -> Session]
  BY DEF LiveSessionTypeOK
<1>2. NextSessionId = n + 1 /\ n + 1 \in 0 .. MaxSessions
  BY <1>1, NextSession, LiveSessionAssumption DEF CreateSession
<1>3. [task |-> task, status |-> "Running", updatedAt |-> at] \in Session
  BY DEF Session
<1>4. sessions' \in [1 .. n + 1 -> Session]
  BY <1>1, <1>2, <1>3 DEF CreateSession
<1> QED
  BY <1>2, <1>4 DEF CreateSession, LiveSessionTypeOK

LEMMA CloseTypeOK ==
  ASSUME LiveSessionTypeOK, NEW s, NEW at \in Time, CloseSession(s, at)
  PROVE  LiveSessionTypeOK'
<1>1. PICK n \in 0 .. MaxSessions : sessions \in [1 .. n -> Session]
  BY DEF LiveSessionTypeOK
<1>2. s \in 1 .. n
  BY <1>1 DEF CloseSession, RunningSessionAt
<1>3. [sessions[s] EXCEPT !.status = "Closed", !.updatedAt = at] \in Session
  BY <1>1, <1>2 DEF Session
<1>4. sessions' = [sessions EXCEPT ![s] =
                     [sessions[s] EXCEPT !.status = "Closed", !.updatedAt = at]]
  BY <1>1, <1>2 DEF CloseSession, Session
<1>5. sessions' \in [1 .. n -> Session]
  BY <1>1, <1>3, <1>4
<1> QED
  BY <1>5 DEF CloseSession, LiveSessionTypeOK

LEMMA AssignTypeOK ==
  ASSUME LiveSessionTypeOK, NEW task \in Tasks, NEW s \in SessionId,
         NEW agent \in Agents, NEW target \in AssignmentId \cup {NoTarget},
         NEW at \in Time, Assign(task, s, agent, target, at)
  PROVE  LiveSessionTypeOK'
<1>1. PICK n \in 0 .. MaxAssignments : assignments \in [1 .. n -> Assignment]
  BY DEF LiveSessionTypeOK
<1>2. NextAssignmentId = n + 1 /\ n + 1 \in 0 .. MaxAssignments
  BY <1>1, NextAssignment, LiveSessionAssumption DEF Assign
<1>3. [task |-> task, session |-> s, agent |-> agent, target |-> target,
       status |-> "Assigned", output |-> NoOutput, updatedAt |-> at]
        \in Assignment
  BY DEF Assignment, AssignmentStatus
<1>4. assignments' \in [1 .. n + 1 -> Assignment]
  BY <1>1, <1>2, <1>3 DEF Assign
<1>5. PICK m \in 0 .. MaxSessions : sessions \in [1 .. m -> Session]
  BY DEF LiveSessionTypeOK
<1>6. s \in 1 .. m
  BY <1>5 DEF Assign, RunningSessionAt
<1>7. [sessions[s] EXCEPT !.updatedAt = at] \in Session
  BY <1>5, <1>6 DEF Session
<1>8. sessions' \in [1 .. m -> Session]
  BY <1>5, <1>7 DEF Assign
<1> QED
  BY <1>2, <1>4, <1>8 DEF Assign, LiveSessionTypeOK

LEMMA ChangeTypeOK ==
  ASSUME LiveSessionTypeOK, ReferencesSound, NEW a \in DOMAIN assignments,
         NEW status \in AssignmentStatus, NEW output, NEW at \in Time,
         Changes(a, status, output, at)
  PROVE  LiveSessionTypeOK'
<1>1. PICK n \in 0 .. MaxAssignments : assignments \in [1 .. n -> Assignment]
  BY DEF LiveSessionTypeOK
<1>2. Changed(a, status, output, at) \in Assignment
  <2>1. assignments[a] \in Assignment /\ output \in Outputs \cup {NoOutput}
    BY <1>1 DEF Changes
  <2> QED
    BY <2>1 DEF Changed, Assignment
<1>3. assignments' \in [1 .. n -> Assignment]
  BY <1>1, <1>2 DEF Changes
<1>4. SessionsOK' /\ reply' \in {"Ok", "TimestampWentBackwards"}
  BY TouchTypeOK DEF Changes, ReferencesSound, LiveSessionTypeOK, SessionsOK
<1> QED
  BY <1>3, <1>4 DEF LiveSessionTypeOK, SessionsOK

-----------------------------------------------------------------------------
(* The inductive invariant.                                                *)

Invariant ==
  /\ LiveSessionTypeOK
  /\ OutputFollowsStatus
  /\ ReferencesSound
  /\ SessionClockLeads

LEMMA InitInvariant == LiveSessionInit => Invariant
<1> SUFFICES ASSUME LiveSessionInit
             PROVE  Invariant
  OBVIOUS
<1>1. DOMAIN assignments = {}
  BY DEF LiveSessionInit
<1> QED
  BY <1>1, InitTypeOK
     DEF Invariant, OutputFollowsStatus, ReferencesSound, SessionClockLeads

(* Sessions keep their ids and tasks, and their clocks only move forward,  *)
(* when an assignment is changed.                                          *)
LEMMA TouchAdvances ==
  ASSUME LiveSessionTypeOK, NEW s \in DOMAIN sessions, NEW at \in Time,
         TouchSession(s, at)
  PROVE  /\ DOMAIN sessions' = DOMAIN sessions
         /\ \A q \in DOMAIN sessions :
              /\ sessions'[q].task = sessions[q].task
              /\ sessions'[q].status = sessions[q].status
              /\ sessions'[q].updatedAt >= sessions[q].updatedAt
         /\ sessions'[s].updatedAt >= at
<1>1. PICK n \in 0 .. MaxSessions : sessions \in [1 .. n -> Session]
  BY DEF LiveSessionTypeOK
<1>2. \A q \in DOMAIN sessions : sessions[q] \in Session
  BY <1>1
<1>3. \A q \in DOMAIN sessions : sessions[q].updatedAt \in Nat
  BY <1>2, LiveSessionAssumption DEF Session, Time
<1>4. at \in Nat
  BY LiveSessionAssumption DEF Time
<1>5. CASE at >= sessions[s].updatedAt
  <2>1. sessions' = [sessions EXCEPT ![s] = [sessions[s] EXCEPT !.updatedAt = at]]
    BY <1>5, <1>3, <1>4 DEF TouchSession
  <2> QED
    BY <2>1, <1>2, <1>3, <1>4, <1>5 DEF Session
<1>6. CASE at < sessions[s].updatedAt
  BY <1>6, <1>3, <1>4 DEF TouchSession
<1> QED
  BY <1>3, <1>4, <1>5, <1>6

LEMMA NextInvariant ==
  Invariant /\ [LiveSessionNext]_liveSessionVars => Invariant'
<1> SUFFICES ASSUME Invariant, [LiveSessionNext]_liveSessionVars
             PROVE  Invariant'
  OBVIOUS
<1> USE DEF Invariant
<1>t. \A a \in DOMAIN assignments :
        /\ assignments[a] \in Assignment
        /\ assignments[a].updatedAt \in Nat
        /\ a \in Nat
  BY AssignmentHasType, LiveSessionAssumption
     DEF LiveSessionTypeOK, Assignment, Time
<1>1. ASSUME NEW task \in Tasks, NEW at \in Time, CreateSession(task, at)
      PROVE  Invariant'
  <2>1. LiveSessionTypeOK'
    BY <1>1, CreateTypeOK
  <2>2. PICK n \in 0 .. MaxSessions : sessions \in [1 .. n -> Session]
    BY DEF LiveSessionTypeOK
  <2>3. \A s \in DOMAIN sessions : s \in DOMAIN sessions' /\ sessions'[s] = sessions[s]
    BY <1>1, <2>2, NextSession DEF CreateSession
  <2> QED
    BY <1>1, <2>1, <2>3 DEF CreateSession, OutputFollowsStatus, ReferencesSound,
         SessionClockLeads, IsExecute
<1>2. ASSUME NEW s, NEW at \in Time, CloseSession(s, at)
      PROVE  Invariant'
  <2>1. LiveSessionTypeOK'
    BY <1>2, CloseTypeOK
  <2>2. PICK n \in 0 .. MaxSessions : sessions \in [1 .. n -> Session]
    BY DEF LiveSessionTypeOK
  <2>3. \A q \in DOMAIN sessions :
          /\ q \in DOMAIN sessions'
          /\ sessions'[q].task = sessions[q].task
          /\ sessions'[q].updatedAt >= sessions[q].updatedAt
          /\ sessions[q].updatedAt \in Nat /\ sessions'[q].updatedAt \in Nat
    BY <1>2, <2>2, LiveSessionAssumption
       DEF CloseSession, RunningSessionAt, Session, Time
  <2>4. SessionClockLeads'
    BY <1>2, <1>t, <2>3 DEF CloseSession, SessionClockLeads, ReferencesSound
  <2> QED
    BY <1>2, <2>1, <2>3, <2>4
       DEF CloseSession, OutputFollowsStatus, ReferencesSound, IsExecute
<1>3. ASSUME NEW task \in Tasks, NEW s \in SessionId, NEW agent \in Agents,
             NEW target \in AssignmentId \cup {NoTarget}, NEW at \in Time,
             Assign(task, s, agent, target, at)
      PROVE  Invariant'
  <2>1. LiveSessionTypeOK'
    BY <1>3, AssignTypeOK
  <2>2. PICK n \in 0 .. MaxSessions : sessions \in [1 .. n -> Session]
    BY DEF LiveSessionTypeOK
  <2>3. PICK m \in 0 .. MaxAssignments :
          assignments \in [1 .. m -> Assignment]
    BY DEF LiveSessionTypeOK
  <2>4. NextAssignmentId = m + 1
    BY <2>3, NextAssignment
  <2>5. /\ DOMAIN assignments' = 1 .. m + 1
        /\ \A a \in 1 .. m : assignments'[a] = assignments[a]
        /\ assignments'[m + 1] =
             [task |-> task, session |-> s, agent |-> agent, target |-> target,
              status |-> "Assigned", output |-> NoOutput, updatedAt |-> at]
    BY <1>3, <2>3, <2>4 DEF Assign
  <2>6. /\ DOMAIN sessions' = DOMAIN sessions
        /\ \A q \in DOMAIN sessions :
             /\ sessions'[q].task = sessions[q].task
             /\ sessions'[q].updatedAt >= sessions[q].updatedAt
             /\ sessions[q].updatedAt \in Nat /\ sessions'[q].updatedAt \in Nat
        /\ s \in DOMAIN sessions /\ sessions[s].task = task
        /\ sessions'[s].updatedAt = at
    BY <1>3, <2>2, LiveSessionAssumption
       DEF Assign, RunningSessionAt, Session, Time
  <2>7. OutputFollowsStatus'
    BY <2>3, <2>5 DEF OutputFollowsStatus, Delivered
  <2>8. SessionClockLeads'
    <3> SUFFICES ASSUME NEW a \in 1 .. m + 1
                 PROVE  assignments'[a].updatedAt
                          <= sessions'[assignments'[a].session].updatedAt
      BY <2>5 DEF SessionClockLeads
    <3>1. at \in Nat
      BY LiveSessionAssumption DEF Time
    <3>2. CASE a = m + 1
      BY <2>5, <2>6, <3>1, <3>2
    <3>3. CASE a \in 1 .. m
      <4>1. assignments'[a] = assignments[a] /\ a \in DOMAIN assignments
        BY <2>3, <2>5, <3>3
      <4> DEFINE q == assignments[a].session
      <4>2. /\ q \in DOMAIN sessions
            /\ assignments[a].updatedAt <= sessions[q].updatedAt
            /\ assignments[a].updatedAt \in Nat
        BY <1>t, <4>1 DEF SessionClockLeads, ReferencesSound
      <4> HIDE DEF q
      <4>3. assignments[a].updatedAt <= sessions'[q].updatedAt
        BY <2>6, <4>2
      <4> QED
        BY <4>1, <4>3 DEF q
    <3> QED
      BY <3>2, <3>3
  <2>9. ReferencesSound'
    <3> SUFFICES ASSUME NEW a \in 1 .. m + 1
                 PROVE  /\ assignments'[a].session \in DOMAIN sessions'
                        /\ sessions'[assignments'[a].session].task
                             = assignments'[a].task
                        /\ assignments'[a].target # NoTarget =>
                             /\ assignments'[a].target \in 1 .. m + 1
                             /\ assignments'[a].target < a
                             /\ assignments'[assignments'[a].target].target
                                  = NoTarget
                             /\ assignments'[assignments'[a].target].task
                                  = assignments'[a].task
      BY <2>5 DEF ReferencesSound, IsExecute
    <3>1. CASE a \in 1 .. m
      <4>1. assignments'[a] = assignments[a] /\ a \in DOMAIN assignments
        BY <3>1, <2>3, <2>5
      <4>2. assignments[a].target # NoTarget =>
              /\ assignments[a].target \in 1 .. m
              /\ assignments[a].target < a
              /\ assignments[assignments[a].target].target = NoTarget
              /\ assignments[assignments[a].target].task = assignments[a].task
        BY <4>1, <2>3 DEF ReferencesSound, IsExecute
      <4>3. assignments[a].target \in 1 .. m =>
              assignments'[assignments[a].target]
                = assignments[assignments[a].target]
        BY <2>5
      <4> QED
        BY <4>1, <4>2, <4>3, <2>6 DEF ReferencesSound
    <3>2. CASE a = m + 1
      <4>1. /\ assignments'[a].session = s /\ assignments'[a].task = task
            /\ assignments'[a].target = target
        BY <2>5, <3>2
      <4>2. target # NoTarget =>
              /\ target \in 1 .. m /\ assignments[target].target = NoTarget
              /\ assignments[target].task = task
        BY <1>3, <2>3 DEF Assign, ValidTarget, IsExecute
      <4>3. target # NoTarget =>
              /\ target \in 1 .. m + 1 /\ target < a
              /\ assignments'[target] = assignments[target]
        BY <2>3, <2>5, <3>2, <4>2
      <4> QED
        BY <2>6, <4>1, <4>2, <4>3
    <3> QED
      BY <3>1, <3>2
  <2> QED
    BY <2>1, <2>7, <2>8, <2>9
<1>4. ASSUME NEW a \in DOMAIN assignments, NEW status \in AssignmentStatus,
             NEW output, NEW at \in Time, Changes(a, status, output, at)
      PROVE  Invariant'
  <2>1. LiveSessionTypeOK'
    BY <1>4, ChangeTypeOK
  <2>2. assignments[a].session \in DOMAIN sessions
    BY DEF ReferencesSound
  <2>3. /\ DOMAIN sessions' = DOMAIN sessions
        /\ \A q \in DOMAIN sessions :
             /\ sessions'[q].task = sessions[q].task
             /\ sessions'[q].updatedAt >= sessions[q].updatedAt
        /\ sessions'[assignments[a].session].updatedAt >= at
    BY <1>4, <2>2, TouchAdvances DEF Changes
  <2>4. /\ DOMAIN assignments' = DOMAIN assignments
        /\ \A b \in DOMAIN assignments \ {a} : assignments'[b] = assignments[b]
        /\ assignments'[a] = Changed(a, status, output, at)
    BY <1>4 DEF Changes
  <2>5. /\ assignments'[a].task = assignments[a].task
        /\ assignments'[a].session = assignments[a].session
        /\ assignments'[a].target = assignments[a].target
        /\ assignments'[a].status = status
        /\ assignments'[a].output = output
        /\ assignments'[a].updatedAt = at
    BY <1>t, <2>4 DEF Changed, Assignment
  <2>6. ReferencesSound'
    BY <2>3, <2>4, <2>5 DEF ReferencesSound, IsExecute
  <2>7. OutputFollowsStatus'
    BY <1>4, <2>4, <2>5 DEF OutputFollowsStatus, Changes, Successors
  <2>8. SessionClockLeads'
    <3>1. \A q \in DOMAIN sessions :
            sessions[q].updatedAt \in Nat /\ sessions'[q].updatedAt \in Nat
      <4>1. /\ \A q \in DOMAIN sessions : sessions[q] \in Session
            /\ \A q \in DOMAIN sessions' : sessions'[q] \in Session
        BY <2>1 DEF LiveSessionTypeOK
      <4> QED
        BY <4>1, <2>3, LiveSessionAssumption DEF Session, Time
    <3> QED
      BY <1>t, <2>3, <2>4, <2>5, <3>1, LiveSessionAssumption
         DEF SessionClockLeads, ReferencesSound, Time
  <2> QED
    BY <2>1, <2>6, <2>7, <2>8
<1>5. CASE UNCHANGED liveSessionVars
  BY <1>5 DEF liveSessionVars, LiveSessionTypeOK, OutputFollowsStatus,
       ReferencesSound, SessionClockLeads, IsExecute
<1> QED
  BY <1>1, <1>2, <1>3, <1>4, <1>5, StepCases

LEMMA InvariantHolds == LiveSessionSpec => []Invariant
BY InitInvariant, NextInvariant, PTL DEF LiveSessionSpec

-----------------------------------------------------------------------------
(* The action property.                                                    *)

LEMMA NextGoesForward ==
  Invariant /\ [LiveSessionNext]_liveSessionVars =>
    [/\ \A a \in DOMAIN assignments : AssignmentAdvances(a)
     /\ \A s \in DOMAIN sessions : SessionAdvances(s)]_liveSessionVars
<1> SUFFICES ASSUME Invariant, LiveSessionNext
             PROVE  /\ \A a \in DOMAIN assignments : AssignmentAdvances(a)
                    /\ \A s \in DOMAIN sessions : SessionAdvances(s)
  OBVIOUS
<1> USE DEF Invariant
<1>t. /\ \A a \in DOMAIN assignments :
           /\ assignments[a] \in Assignment
           /\ assignments[a].updatedAt \in Nat
           /\ a \in Nat
      /\ \A s \in DOMAIN sessions : sessions[s].updatedAt \in Nat
  <2>1. \A s \in DOMAIN sessions : sessions[s] \in Session
    BY DEF LiveSessionTypeOK
  <2> QED
    BY <2>1, AssignmentHasType, LiveSessionAssumption
       DEF LiveSessionTypeOK, Assignment, Session, Time
<1>u. \A a \in DOMAIN assignments :
        assignments'[a] = assignments[a] => AssignmentAdvances(a)
  BY <1>t DEF AssignmentAdvances, OutputFollowsStatus, Delivered
<1>v. \A s \in DOMAIN sessions :
        sessions'[s] = sessions[s] => SessionAdvances(s)
  BY <1>t DEF SessionAdvances
<1>1. ASSUME NEW task \in Tasks, NEW at \in Time, CreateSession(task, at)
      PROVE  /\ \A a \in DOMAIN assignments : AssignmentAdvances(a)
             /\ \A s \in DOMAIN sessions : SessionAdvances(s)
  <2>1. PICK n \in 0 .. MaxSessions : sessions \in [1 .. n -> Session]
    BY DEF LiveSessionTypeOK
  <2>2. \A s \in DOMAIN sessions : sessions'[s] = sessions[s]
    BY <1>1, <2>1, NextSession DEF CreateSession
  <2> QED
    BY <1>1, <1>u, <1>v, <2>2 DEF CreateSession
<1>2. ASSUME NEW s, NEW at \in Time, CloseSession(s, at)
      PROVE  /\ \A a \in DOMAIN assignments : AssignmentAdvances(a)
             /\ \A q \in DOMAIN sessions : SessionAdvances(q)
  <2>1. PICK n \in 0 .. MaxSessions : sessions \in [1 .. n -> Session]
    BY DEF LiveSessionTypeOK
  <2>2. SessionAdvances(s)
    BY <1>2, <1>t, <2>1
       DEF CloseSession, RunningSessionAt, SessionAdvances, Session
  <2>3. \A q \in DOMAIN sessions \ {s} : sessions'[q] = sessions[q]
    BY <1>2 DEF CloseSession
  <2> QED
    BY <1>2, <1>u, <1>v, <2>2, <2>3 DEF CloseSession
<1>3. ASSUME NEW task \in Tasks, NEW s \in SessionId, NEW agent \in Agents,
             NEW target \in AssignmentId \cup {NoTarget}, NEW at \in Time,
             Assign(task, s, agent, target, at)
      PROVE  /\ \A a \in DOMAIN assignments : AssignmentAdvances(a)
             /\ \A q \in DOMAIN sessions : SessionAdvances(q)
  <2>1. PICK m \in 0 .. MaxAssignments :
          assignments \in [1 .. m -> Assignment]
    BY DEF LiveSessionTypeOK
  <2>2. \A a \in DOMAIN assignments : assignments'[a] = assignments[a]
    BY <1>3, <2>1, NextAssignment DEF Assign
  <2>3. PICK n \in 0 .. MaxSessions : sessions \in [1 .. n -> Session]
    BY DEF LiveSessionTypeOK
  <2>4. SessionAdvances(s)
    BY <1>3, <1>t, <2>3 DEF Assign, RunningSessionAt, SessionAdvances, Session
  <2>5. \A q \in DOMAIN sessions \ {s} : sessions'[q] = sessions[q]
    BY <1>3 DEF Assign
  <2> QED
    BY <1>u, <1>v, <2>2, <2>4, <2>5
<1>4. ASSUME NEW a \in DOMAIN assignments, NEW status \in AssignmentStatus,
             NEW output, NEW at \in Time, Changes(a, status, output, at)
      PROVE  /\ \A b \in DOMAIN assignments : AssignmentAdvances(b)
             /\ \A s \in DOMAIN sessions : SessionAdvances(s)
  <2>1. assignments[a].session \in DOMAIN sessions
    BY DEF ReferencesSound
  <2>2. \A s \in DOMAIN sessions : SessionAdvances(s)
    BY <1>4, <2>1, TouchAdvances DEF Changes, SessionAdvances
  <2>3. assignments'[a] = Changed(a, status, output, at)
    BY <1>4 DEF Changes
  <2>4. AssignmentAdvances(a)
    BY <1>4, <1>t, <2>3
       DEF Changes, Changed, AssignmentAdvances, Assignment, Delivered
  <2>5. \A b \in DOMAIN assignments \ {a} : assignments'[b] = assignments[b]
    BY <1>4 DEF Changes
  <2> QED
    BY <1>u, <2>2, <2>4, <2>5
<1> QED
  BY <1>1, <1>2, <1>3, <1>4, StepCases

-----------------------------------------------------------------------------
(* The theorems.                                                           *)

(* Every record that a sequence of calls can produce is well formed, and   *)
(* ids are never given out twice (core.rs:28-42, 59-133).                  *)
THEOREM LiveSessionTypeCorrect == LiveSessionSpec => []LiveSessionTypeOK
BY InvariantHolds, PTL DEF Invariant

(* The references that settlement pays along stay sound: every assignment  *)
(* belongs to the task of its session, every review to Execute work of its *)
(* own task (core.rs:68-81, 303-332).                                      *)
THEOREM ReferencesStaySound == LiveSessionSpec => []ReferencesSound
BY InvariantHolds, PTL DEF Invariant

(* No call, not even one that was refused half way, leaves an assignment   *)
(* newer than its session (core.rs:135-301, 437-454).                      *)
THEOREM SessionClocksLead == LiveSessionSpec => []SessionClockLeads
BY InvariantHolds, PTL DEF Invariant

(* Statuses only move along the documented arrows, what was delivered is   *)
(* never replaced and no clock runs backwards, in whatever order calls     *)
(* arrive (core.rs:135-301).                                               *)
THEOREM EverythingGoesForward == LiveSessionSpec => NothingGoesBack
BY InvariantHolds, NextGoesForward, PTL DEF LiveSessionSpec, NothingGoesBack

-----------------------------------------------------------------------------
(* Artifacts: what the hash of a valid manifest is about.                  *)

(* A nonempty set of numbers has a least one: the induction of this part.  *)
LEMMA LeastNumber ==
  ASSUME NEW N \in SUBSET Nat, N # {}
  PROVE  \E n \in N : \A m \in N : n <= m
<1> DEFINE R == OpToRel(<, Nat)
<1>1. IsWellFoundedOn(R, Nat)
  BY NatLessThanWellFounded
<1>2. \A m, n \in Nat : m < n => <<m, n>> \in R
  BY Zenon DEF OpToRel
<1> HIDE DEF R
<1>3. \E n \in N : \A m \in N : <<m, n>> \notin R
  BY <1>1, WFMin
<1>4. PICK n \in N : \A m \in N : <<m, n>> \notin R
  BY <1>3
<1>5. \A m \in N : n <= m
  <2> TAKE m \in N
  <2>1. m \in Nat /\ n \in Nat /\ ~(m < n)
    BY <1>2, <1>4
  <2> QED
    BY <2>1
<1> QED
  BY <1>5

(* An order of n numbers in which none is less than the one before it.     *)
IsOrder(p, g, n) ==
  /\ p \in [1 .. n -> 1 .. n]
  /\ \A i, j \in 1 .. n : p[i] = p[j] => i = j
  /\ \A k \in 1 .. n : \E i \in 1 .. n : p[i] = k
  /\ \A i, j \in 1 .. n : i < j => g[p[i]] <= g[p[j]]

CanBeOrdered(n) == \A g \in [1 .. n -> Nat] : \E p : IsOrder(p, g, n)

(* One number more goes where the first greater one is.                    *)
LEMMA Insertion ==
  ASSUME NEW n \in Nat, CanBeOrdered(n)
  PROVE  CanBeOrdered(n + 1)
<1> SUFFICES ASSUME NEW g \in [1 .. n + 1 -> Nat]
             PROVE  \E p : IsOrder(p, g, n + 1)
  BY DEF CanBeOrdered
<1> DEFINE f == [i \in 1 .. n |-> g[i]]
<1>1. f \in [1 .. n -> Nat]
  OBVIOUS
<1>2. PICK p : IsOrder(p, f, n)
  BY <1>1 DEF CanBeOrdered
<1>3. /\ p \in [1 .. n -> 1 .. n]
      /\ \A i, j \in 1 .. n : i < j => g[p[i]] <= g[p[j]]
      /\ \A i, j \in 1 .. n : p[i] = p[j] => i = j
      /\ \A k \in 1 .. n : \E i \in 1 .. n : p[i] = k
  BY <1>2 DEF IsOrder
<1> HIDE DEF f
<1> DEFINE Places == {k \in 1 .. n + 1 : k = n + 1 \/ g[p[k]] > g[n + 1]}
<1>h. PICK h : h = [i \in 1 .. n |-> g[p[i]]]
  OBVIOUS
<1>x. PICK x : x = g[n + 1]
  OBVIOUS
<1>y. /\ x \in Nat
      /\ \A i \in 1 .. n : /\ p[i] \in 1 .. n /\ p[i] \in 1 .. n + 1
                           /\ h[i] \in Nat /\ h[i] = g[p[i]]
      /\ \A i, j \in 1 .. n : i < j => h[i] <= h[j]
  <2>1. \A i \in 1 .. n : p[i] \in 1 .. n /\ p[i] \in 1 .. n + 1
    <3>1. \A i \in 1 .. n : p[i] \in 1 .. n
      BY <1>3
    <3>2. \A i \in 1 .. n : i \in 1 .. n + 1
      OBVIOUS
    <3> QED
      BY ONLY <3>1, <3>2
  <2>2. \A i \in 1 .. n : h[i] \in Nat /\ h[i] = g[p[i]]
    BY <1>h, <2>1
  <2>3. \A i, j \in 1 .. n : i < j => h[i] <= h[j]
    BY <1>3, <2>2
  <2>4. x \in Nat
    BY <1>x
  <2> QED
    BY <2>1, <2>2, <2>3, <2>4
<1>4. PICK k \in Places : \A m \in Places : k <= m
  <2>1. Places \in SUBSET Nat /\ n + 1 \in Places
    OBVIOUS
  <2> QED
    BY <2>1, LeastNumber
<1>5. /\ k \in 1 .. n + 1
      /\ \A i \in 1 .. n : i < k => h[i] <= x
      /\ \A i \in 1 .. n : i >= k => x <= h[i]
  <2>1. k \in 1 .. n + 1 /\ (k # n + 1 => h[k] > x)
    BY <1>4, <1>x, <1>y
  <2>2. \A i \in 1 .. n : i < k => i \notin Places
    BY <1>4
  <2>3. \A i \in 1 .. n : i < k => h[i] <= x
    BY <1>x, <1>y, <2>1, <2>2
  <2>4. \A i \in 1 .. n : i >= k => x <= h[i]
    <3> SUFFICES ASSUME NEW i \in 1 .. n, i >= k
                 PROVE  x <= h[i]
      OBVIOUS
    <3>1. k \in 1 .. n /\ h[k] > x
      BY <2>1
    <3>2. h[k] <= h[i]
      BY <1>y, <3>1
    <3> QED
      BY <1>y, <3>1, <3>2
  <2> QED
    BY <2>1, <2>3, <2>4
<1> HIDE DEF Places
<1> DEFINE q == [i \in 1 .. n + 1 |-> IF i < k THEN p[i]
                                      ELSE IF i = k THEN n + 1 ELSE p[i - 1]]
<1>7. /\ \A i \in 1 .. n + 1 : i < k => i \in 1 .. n /\ q[i] = p[i]
      /\ q[k] = n + 1
      /\ \A i \in 1 .. n + 1 : i > k => i - 1 \in 1 .. n /\ q[i] = p[i - 1]
      /\ \A i \in 1 .. n + 1 : i < k \/ i = k \/ i > k
      /\ DOMAIN q = 1 .. n + 1
      /\ q = [i \in 1 .. n + 1 |-> q[i]]
  BY <1>5
<1> HIDE DEF q
<1>8. q \in [1 .. n + 1 -> 1 .. n + 1]
  <2>1. \A i \in 1 .. n + 1 : q[i] \in 1 .. n + 1
    BY <1>3, <1>7
  <2> QED
    BY <1>7, <2>1
<1>9. \A i, j \in 1 .. n + 1 : q[i] = q[j] => i = j
  <2>1. \A i \in 1 .. n + 1 : i # k => q[i] \in 1 .. n
    BY <1>y, <1>7
  <2>2. ~(n + 1 \in 1 .. n)
    OBVIOUS
  <2> SUFFICES ASSUME NEW i \in 1 .. n + 1, NEW j \in 1 .. n + 1, i < j
               PROVE  q[i] # q[j]
    BY <1>7
  <2>3. CASE i = k \/ j = k
    <3>1. \A l \in 1 .. n + 1 : l # k => q[l] # n + 1
      BY <2>1, <2>2
    <3>2. CASE i = k
      <4>1. j # k /\ q[i] = n + 1
        BY <1>7, <3>2
      <4> QED
        BY <3>1, <4>1
    <3>3. CASE j = k
      <4>1. i # k /\ q[j] = n + 1
        BY <1>7, <3>3
      <4> QED
        BY <3>1, <4>1
    <3> QED
      BY <2>3, <3>2, <3>3
  <2>4. CASE j < k
    <3>1. i < k /\ i # j
      BY <1>5, <2>4
    <3>2. i \in 1 .. n /\ j \in 1 .. n /\ q[i] = p[i] /\ q[j] = p[j]
      BY <1>7, <2>4, <3>1
    <3> QED
      BY <1>3, <3>1, <3>2
  <2>5. CASE i < k /\ j > k
    <3>1. j - 1 # i /\ i \in 1 .. n /\ j - 1 \in 1 .. n
      BY <1>5, <1>7, <2>5
    <3> QED
      BY <1>3, <1>7, <2>5, <3>1
  <2>6. CASE i > k
    <3>1. i - 1 # j - 1 /\ i - 1 \in 1 .. n /\ j - 1 \in 1 .. n /\ j > k
      BY <1>5, <1>7, <2>6
    <3>2. q[i] = p[i - 1] /\ q[j] = p[j - 1]
      BY <1>7, <2>6, <3>1
    <3>3. p[i - 1] # p[j - 1]
      BY <1>3, <3>1
    <3> QED
      BY <3>2, <3>3
  <2> QED
    BY <1>5, <2>3, <2>4, <2>5, <2>6
<1>10. \A m \in 1 .. n + 1 : \E i \in 1 .. n + 1 : q[i] = m
  <2> TAKE m \in 1 .. n + 1
  <2>1. CASE m = n + 1
    BY <1>5, <1>7, <2>1
  <2>2. CASE m # n + 1
    <3>1. PICK i \in 1 .. n : p[i] = m
      BY <1>3, <2>2
    <3>2. CASE i < k
      BY <1>7, <3>1, <3>2
    <3>3. CASE i >= k
      <4>1. i + 1 \in 1 .. n + 1 /\ i + 1 > k /\ (i + 1) - 1 = i
        BY <1>5, <3>3
      <4> QED
        BY <1>7, <3>1, <4>1
    <3> QED
      BY <1>5, <3>2, <3>3
  <2> QED
    BY <2>1, <2>2
<1>11. \A i, j \in 1 .. n + 1 : i < j => g[q[i]] <= g[q[j]]
  <2>1. /\ \A i \in 1 .. n + 1 : i < k => i \in 1 .. n /\ g[q[i]] = h[i]
        /\ g[q[k]] = x
        /\ \A i \in 1 .. n + 1 : i > k => i - 1 \in 1 .. n /\ g[q[i]] = h[i - 1]
    BY <1>x, <1>y, <1>7
  <2> SUFFICES ASSUME NEW i \in 1 .. n + 1, NEW j \in 1 .. n + 1, i < j
               PROVE  g[q[i]] <= g[q[j]]
    OBVIOUS
  <2>2. CASE j < k
    <3>1. i < k /\ i \in 1 .. n /\ j \in 1 .. n
      BY <1>5, <2>1, <2>2
    <3> QED
      BY <1>y, <2>1, <2>2, <3>1
  <2>3. CASE j = k
    BY <1>5, <2>1, <2>3
  <2>4. CASE i < k /\ j > k
    <3>1. i \in 1 .. n /\ j - 1 \in 1 .. n /\ j - 1 >= k
      BY <1>5, <2>1, <2>4
    <3>2. h[i] <= x /\ x <= h[j - 1]
      BY <1>5, <2>4, <3>1
    <3> QED
      BY <1>y, <2>1, <2>4, <3>1, <3>2
  <2>5. CASE i = k
    <3>1. j - 1 \in 1 .. n /\ j - 1 >= k /\ j > k
      BY <1>5, <2>1, <2>5
    <3> QED
      BY <1>5, <2>1, <2>5, <3>1
  <2>6. CASE i > k
    <3>1. j > k /\ i - 1 \in 1 .. n /\ j - 1 \in 1 .. n /\ i - 1 < j - 1
      BY <1>5, <2>1, <2>6
    <3> QED
      BY <1>y, <2>1, <2>6, <3>1
  <2> QED
    BY <1>5, <2>2, <2>3, <2>4, <2>5, <2>6
<1> QED
  BY <1>8, <1>9, <1>10, <1>11 DEF IsOrder

(* The numbers that cannot be ordered have no least one: there are none.   *)
LEMMA OrderExists ==
  ASSUME NEW n \in Nat
  PROVE  CanBeOrdered(n)
<1>1. CanBeOrdered(0)
  <2> SUFFICES ASSUME NEW g \in [1 .. 0 -> Nat]
               PROVE  \E p : IsOrder(p, g, 0)
    BY DEF CanBeOrdered
  <2>1. IsOrder([i \in {} |-> i], g, 0)
    BY DEF IsOrder
  <2> QED
    BY <2>1
<1> DEFINE Wrong == {m \in Nat : ~CanBeOrdered(m)}
<1>2. CASE Wrong = {}
  BY <1>2
<1>3. CASE Wrong # {}
  <2>1. PICK m \in Wrong : \A k \in Wrong : m <= k
    BY <1>3, LeastNumber
  <2>2. m # 0
    BY <1>1, <2>1
  <2>3. m - 1 \in Nat /\ CanBeOrdered(m - 1) /\ (m - 1) + 1 = m
    BY <2>1, <2>2
  <2> QED
    BY <2>1, <2>3, Insertion
<1> QED
  BY <1>2, <1>3

LEMMA FilesSorted ==
  ASSUME NEW n \in Nat, NEW files, files = [i \in 1 .. n |-> files[i]],
         \A i \in 1 .. n : files[i].path \in Nat
  PROVE  \E order \in Bijection(1 .. n, 1 .. n) :
           /\ Sorts(order, files)
           /\ ByPath(files) = [i \in 1 .. n |-> files[order[i]]]
<1> DEFINE g == [i \in 1 .. n |-> files[i].path]
<1>1. DOMAIN files = 1 .. n
  OBVIOUS
<1>2. PICK p : IsOrder(p, g, n)
  BY OrderExists DEF CanBeOrdered
<1>3. p \in Bijection(1 .. n, 1 .. n) /\ Sorts(p, files)
  BY <1>1, <1>2 DEF IsOrder, Bijection, Injection, Surjection, IsInjective, Sorts
<1>4. PICK order : order = CHOOSE r \in Bijection(1 .. n, 1 .. n) :
                             Sorts(r, files)
  OBVIOUS
<1>5. order \in Bijection(1 .. n, 1 .. n) /\ Sorts(order, files)
  BY <1>3, <1>4
<1>6. ByPath(files) = [i \in 1 .. n |-> files[order[i]]]
  BY <1>1, <1>4 DEF ByPath
<1> QED
  BY <1>5, <1>6

(* What a valid manifest says of its files, and how its payload lists them. *)
DescribedFiles(m) == {Described(m.files[i]) : i \in DOMAIN m.files}

Lists(files, described) ==
  \E n \in Nat \ {0} :
    /\ DOMAIN files = 1 .. n
    /\ files = [i \in 1 .. n |-> files[i]]
    /\ {files[i] : i \in 1 .. n} = described
    /\ \A i \in 1 .. n : files[i].path \in Nat /\ files[i].uri # Blank
    /\ \A i, j \in 1 .. n : i < j => files[i].path < files[j].path

LEMMA DescribedKeeps ==
  ASSUME NEW file, IsFile(file)
  PROVE  Described(file).path = file.path /\ Described(file).uri = file.uri
<1>1. PICK path, uri, content, profile, type, schema, size, properties :
        /\ file = [path |-> path, uri |-> uri, content |-> content,
                   profile |-> profile, type |-> type, schema |-> schema,
                   size |-> size, properties |-> properties]
  BY DEF IsFile, File
<1> QED
  BY <1>1 DEF Described

(* What a valid shape says of the files of a manifest.                     *)
AreFiles(files, n) ==
  /\ files = [i \in 1 .. n |-> files[i]]
  /\ \A i \in 1 .. n : IsFile(files[i]) /\ files[i].uri # Blank
  /\ \A i, j \in 1 .. n : i # j => files[i].path # files[j].path

LEMMA ValidFiles ==
  ASSUME NEW m, IsManifest(m), ValidShape(m)
  PROVE  \E n \in Nat \ {0} : AreFiles(m.files, n)
<1> DEFINE files == m.files
           n == Len(m.files)
<1>1. /\ files \in Seq({files[i] : i \in DOMAIN files})
      /\ \A i \in DOMAIN files : IsFile(files[i])
  BY DEF IsManifest
<1>2. n \in Nat /\ DOMAIN files = 1 .. n /\ files = [i \in 1 .. n |-> files[i]]
  BY <1>1
<1>3. files # << >>
  BY DEF ValidShape
<1>4. n # 0
  BY <1>1, <1>3
<1>5. \A i \in 1 .. n : files[i].uri # Blank
  BY <1>2 DEF ValidShape, ValidFile
<1>6. \A i, j \in 1 .. n : i # j => files[i].path # files[j].path
  <2>1. CASE m.kind = "Single"
    BY <2>1 DEF ValidShape
  <2>2. CASE m.kind = "Bundle"
    <3>1. \A i \in 1 .. n : \A j \in 1 .. i - 1 : files[j].path # files[i].path
      BY <1>2, <2>2 DEF ValidShape, ValidFile, PathIsNew
    <3> SUFFICES ASSUME NEW i \in 1 .. n, NEW j \in 1 .. n, i # j
                 PROVE  files[i].path # files[j].path
      OBVIOUS
    <3>2. j \in 1 .. i - 1 \/ i \in 1 .. j - 1
      BY <1>2
    <3> QED
      BY <3>1, <3>2
  <2> QED
    BY <2>1, <2>2 DEF IsManifest
<1>7. \A i \in 1 .. n : IsFile(files[i])
  BY <1>1, <1>2
<1>8. n \in Nat \ {0}
  BY <1>2, <1>4
<1>9. AreFiles(files, n)
  BY <1>2, <1>5, <1>6, <1>7 DEF AreFiles
<1> QED
  BY <1>8, <1>9

LEMMA PayloadLists ==
  ASSUME NEW m, IsManifest(m), ValidShape(m)
  PROVE  Lists(Payload(m).files, DescribedFiles(m))
<1>1. PICK n \in Nat \ {0} : AreFiles(m.files, n)
  BY ValidFiles
<1>2. PICK given : given = m.files
  OBVIOUS
<1>3. /\ DOMAIN given = 1 .. n
      /\ \A i \in 1 .. n : /\ IsFile(given[i]) /\ given[i].uri # Blank
                           /\ given[i].path \in Nat
      /\ \A i, j \in 1 .. n : i # j => given[i].path # given[j].path
  BY <1>1, <1>2 DEF AreFiles, IsFile
<1>a. given = [i \in 1 .. n |-> given[i]] /\ n \in Nat
  BY <1>1, <1>2 DEF AreFiles
<1>b. \A i \in 1 .. n : given[i].path \in Nat
  BY <1>3
<1>4. PICK order \in Bijection(1 .. n, 1 .. n) :
        /\ Sorts(order, given)
        /\ ByPath(given) = [i \in 1 .. n |-> given[order[i]]]
  BY ONLY <1>a, <1>b, FilesSorted
<1>5. /\ \A i \in 1 .. n : order[i] \in 1 .. n
      /\ \A i, j \in 1 .. n : order[i] = order[j] => i = j
      /\ \A k \in 1 .. n : \E i \in 1 .. n : order[i] = k
  BY <1>4 DEF Bijection, Injection, Surjection, IsInjective
<1>6. PICK files : files = Payload(m).files
  OBVIOUS
<1>7. files = [i \in 1 .. n |-> Described(given[order[i]])]
  BY <1>2, <1>4, <1>6 DEF Payload
<1>8. \A i \in 1 .. n :
        /\ files[i] = Described(given[order[i]])
        /\ files[i].path = given[order[i]].path
        /\ files[i].uri = given[order[i]].uri
        /\ files[i].path \in Nat /\ files[i].uri # Blank
  <2> TAKE i \in 1 .. n
  <2>1. order[i] \in 1 .. n /\ IsFile(given[order[i]])
    BY <1>3, <1>5
  <2>2. files[i] = Described(given[order[i]])
    BY <1>7
  <2> QED
    BY <1>3, <2>1, <2>2, DescribedKeeps
<1>9. \A i, j \in 1 .. n : i < j => files[i].path < files[j].path
  <2> SUFFICES ASSUME NEW i \in 1 .. n, NEW j \in 1 .. n, i < j
               PROVE  files[i].path < files[j].path
    OBVIOUS
  <2>0. i # j
    OBVIOUS
  <2>1. files[i].path <= files[j].path
    <3>1. given[order[i]].path <= given[order[j]].path
      BY <1>3, <1>4 DEF Sorts
    <3> QED
      BY <1>8, <3>1
  <2>2. order[i] # order[j] /\ order[i] \in 1 .. n /\ order[j] \in 1 .. n
    BY ONLY <1>5, <2>0, i \in 1 .. n, j \in 1 .. n
  <2>3. files[i].path # files[j].path
    BY <1>3, <1>8, <2>2
  <2> QED
    BY <1>8, <2>1, <2>3
<1>10. {files[i] : i \in 1 .. n} = DescribedFiles(m)
  <2>1. DescribedFiles(m) = {Described(given[i]) : i \in 1 .. n}
    BY <1>2, <1>3 DEF DescribedFiles
  <2>2. \A i \in 1 .. n : files[i] \in DescribedFiles(m)
    <3> TAKE i \in 1 .. n
    <3>1. order[i] \in 1 .. n /\ files[i] = Described(given[order[i]])
      BY <1>5, <1>8
    <3> QED
      BY <2>1, <3>1
  <2>3. \A k \in 1 .. n : \E i \in 1 .. n : Described(given[k]) = files[i]
    <3> TAKE k \in 1 .. n
    <3>1. PICK i \in 1 .. n : order[i] = k
      BY <1>5
    <3> QED
      BY <1>8, <3>1
  <2>4. DescribedFiles(m) \subseteq {files[i] : i \in 1 .. n}
    BY <2>1, <2>3, Zenon
  <2>5. {files[i] : i \in 1 .. n} \subseteq DescribedFiles(m)
    BY <2>2, Zenon
  <2> QED
    BY <2>4, <2>5, Zenon
<1>11. DOMAIN files = 1 .. n /\ files = [i \in 1 .. n |-> files[i]]
  BY <1>7
<1>12. \A i \in 1 .. n : files[i].path \in Nat /\ files[i].uri # Blank
  BY <1>8
<1>13. Lists(files, DescribedFiles(m))
  BY <1>9, <1>10, <1>11, <1>12 DEF Lists
<1> QED
  BY <1>6, <1>13

(* Two lists of the same files are the same list: the least place in which *)
(* they differed would leave no place for the file that comes first.       *)
LEMMA OneList ==
  ASSUME NEW described, NEW s, NEW t, Lists(s, described), Lists(t, described)
  PROVE  s = t
<1>1. PICK n \in Nat \ {0} :
        /\ s = [i \in 1 .. n |-> s[i]]
        /\ {s[i] : i \in 1 .. n} = described
        /\ \A i \in 1 .. n : s[i].path \in Nat
        /\ \A i, j \in 1 .. n : i < j => s[i].path < s[j].path
  BY DEF Lists
<1>2. PICK m \in Nat \ {0} :
        /\ t = [i \in 1 .. m |-> t[i]]
        /\ {t[i] : i \in 1 .. m} = described
        /\ \A i \in 1 .. m : t[i].path \in Nat
        /\ \A i, j \in 1 .. m : i < j => t[i].path < t[j].path
  BY DEF Lists
<1>a. /\ \A i \in 1 .. n : s[i].path \in Nat
      /\ \A i, j \in 1 .. n : i < j => s[i].path < s[j].path
      /\ \A i \in 1 .. m : t[i].path \in Nat
      /\ \A i, j \in 1 .. m : i < j => t[i].path < t[j].path
  BY <1>1, <1>2
<1>3. /\ \A i \in 1 .. n : \E j \in 1 .. m : t[j] = s[i]
      /\ \A i \in 1 .. m : \E j \in 1 .. n : s[j] = t[i]
  <2>1. {s[i] : i \in 1 .. n} = {t[i] : i \in 1 .. m}
    BY <1>1, <1>2
  <2> QED
    BY ONLY <2>1
<1> DEFINE Differ(i) == \/ i \in 1 .. n /\ i \notin 1 .. m
                        \/ i \in 1 .. m /\ i \notin 1 .. n
                        \/ i \in 1 .. n /\ i \in 1 .. m /\ s[i] # t[i]
           Places == {i \in Nat : Differ(i)}
<1>4. CASE Places = {}
  <2>1. n = m
    BY <1>4
  <2>2. \A i \in 1 .. n : s[i] = t[i]
    BY <1>4, <2>1
  <2> QED
    BY <1>1, <1>2, <2>1, <2>2
<1>5. CASE Places # {}
  <2>1. PICK i \in Places : \A k \in Places : i <= k
    BY <1>5, LeastNumber
  <2>2. \A k \in 1 .. i - 1 : k \in 1 .. n /\ k \in 1 .. m /\ s[k] = t[k]
    <3> SUFFICES ASSUME NEW k \in 1 .. i - 1
                 PROVE  k \in 1 .. n /\ k \in 1 .. m /\ s[k] = t[k]
      OBVIOUS
    <3>1. ~Differ(k) /\ k < i /\ k \in Nat
      BY <2>1
    <3>2. i \in 1 .. n \/ i \in 1 .. m
      BY <2>1
    <3> QED
      BY <3>1, <3>2
  <2>3. i \in 1 .. n => \E j \in 1 .. m : t[j] = s[i] /\ (i \in 1 .. m => j > i)
                                          /\ j >= i
    <3> SUFFICES ASSUME i \in 1 .. n
                 PROVE  \E j \in 1 .. m : t[j] = s[i] /\ (i \in 1 .. m => j > i)
                                          /\ j >= i
      OBVIOUS
    <3>1. PICK j \in 1 .. m : t[j] = s[i]
      BY <1>3
    <3>2. ~(j < i)
      BY <1>a, <2>2, <3>1
    <3>3. i \in 1 .. m => j # i
      BY <2>1, <3>1
    <3> QED
      BY <3>1, <3>2, <3>3
  <2>4. i \in 1 .. m => \E j \in 1 .. n : s[j] = t[i] /\ (i \in 1 .. n => j > i)
                                          /\ j >= i
    <3> SUFFICES ASSUME i \in 1 .. m
                 PROVE  \E j \in 1 .. n : s[j] = t[i] /\ (i \in 1 .. n => j > i)
                                          /\ j >= i
      OBVIOUS
    <3>1. PICK j \in 1 .. n : s[j] = t[i]
      BY <1>3
    <3>2. ~(j < i)
      BY <1>a, <2>2, <3>1
    <3>3. i \in 1 .. n => j # i
      BY <2>1, <3>1
    <3> QED
      BY <3>1, <3>2, <3>3
  <2>5. i \in 1 .. n /\ i \in 1 .. m
    BY <2>1, <2>3, <2>4
  <2>6. PICK j \in 1 .. m : t[j] = s[i] /\ j > i
    BY <2>3, <2>5
  <2>7. PICK k \in 1 .. n : s[k] = t[i] /\ k > i
    BY <2>4, <2>5
  <2>8. t[i].path < t[j].path /\ s[i].path < s[k].path
    BY <1>a, <2>5, <2>6, <2>7
  <2> QED
    BY <1>a, <2>5, <2>6, <2>7, <2>8
<1> QED
  BY <1>4, <1>5

(* Manifests of the same work have the same hash exactly when they         *)
(* describe the same files as the same artifact.                           *)
LEMMA HashTellsFilesApart ==
  ASSUME NEW m, IsManifest(m), ValidShape(m),
         NEW n, IsManifest(n), ValidShape(n),
         m.assignment = n.assignment => m.task = n.task /\ m.producer = n.producer
  PROVE  ManifestHash(m) = ManifestHash(n) <=>
           /\ m.artifact = n.artifact /\ m.createdAt = n.createdAt
           /\ m.assignment = n.assignment
           /\ m.kind = n.kind
           /\ DescribedFiles(m) = DescribedFiles(n)
<1>1. \A x, y : Digest(x) = Digest(y) <=> x = y
  BY DEF Digest
<1>2. Payload(m) = Payload(n) <=>
        /\ m.artifact = n.artifact /\ m.createdAt = n.createdAt
        /\ m.task = n.task /\ m.assignment = n.assignment
        /\ m.producer = n.producer /\ m.kind = n.kind
        /\ Payload(m).files = Payload(n).files
  BY DEF Payload, ValidShape
<1>3. /\ Lists(Payload(m).files, DescribedFiles(m))
      /\ Lists(Payload(n).files, DescribedFiles(n))
  BY PayloadLists
<1>4. Payload(m).files = Payload(n).files <=> DescribedFiles(m) = DescribedFiles(n)
  <2>1. ASSUME DescribedFiles(m) = DescribedFiles(n)
        PROVE  Payload(m).files = Payload(n).files
    BY <1>3, <2>1, OneList
  <2>2. \A s, d : Lists(s, d) => d = {s[i] : i \in DOMAIN s}
    BY DEF Lists
  <2> QED
    BY <1>3, <2>1, <2>2
<1> QED
  BY <1>1, <1>2, <1>4 DEF ManifestHash

-----------------------------------------------------------------------------
(* The delivery.  Its handlers make calls of the live sessions.            *)

IsHashOf(m, a) ==
  /\ m \in Manifests
  /\ ValidSubmission(m, assignments[a].task, a, assignments[a].agent)
  /\ assignments[a].output = ManifestHash(m)

OutputsHashed ==
  \A a \in DOMAIN assignments :
    assignments[a].output # NoOutput => \E m \in Manifests : IsHashOf(m, a)

CallStands(call) ==
  /\ call.stage \in {"begun", "submitted", "stored"}
  /\ call.at \in Time
  /\ call.assignment \in DOMAIN assignments
  /\ call.caller = assignments[call.assignment].agent
  /\ call.stage = "begun" => call.manifest \in Manifests
  /\ call.stage # "begun" => assignments[call.assignment].output # NoOutput
  /\ call.stage = "stored" => call.assignment \in DOMAIN locators

(* Only one handler gets past the submission of a piece of work.           *)
OneSubmits ==
  \A call \in calls :
    call.stage = "submitted" =>
      /\ call.assignment \notin DOMAIN locators
      /\ \A other \in calls \ {call} :
           other.assignment = call.assignment => other.stage = "begun"

LocatorStands(a) ==
  /\ a \in DOMAIN assignments
  /\ locators[a].hash = assignments[a].output
  /\ locators[a].hash # NoOutput
  /\ locators[a].producer = assignments[a].agent

AnswerStands(i) ==
  ~I!IsPending(i) =>
    /\ idempotency[i].outcome.answer \in DOMAIN locators
    /\ locators[idempotency[i].outcome.answer].producer = i[1]

DeliveryInv ==
  /\ Invariant
  /\ OutputsHashed
  /\ \A call \in calls : CallStands(call)
  /\ OneSubmits
  /\ \A a \in DOMAIN locators : LocatorStands(a)
  /\ \A i \in DOMAIN idempotency : AnswerStands(i)

(* What a step keeps of the work, and that it delivers none.               *)
WorkStays ==
  \A a \in DOMAIN assignments :
    /\ a \in DOMAIN assignments'
    /\ assignments'[a].task = assignments[a].task
    /\ assignments'[a].agent = assignments[a].agent
    /\ assignments[a].output # NoOutput =>
         assignments'[a].output = assignments[a].output

NoneDelivered ==
  \A a \in DOMAIN assignments' :
    assignments'[a].output # NoOutput =>
      /\ a \in DOMAIN assignments
      /\ assignments'[a].output = assignments[a].output

LEMMA StepKeepsWork ==
  ASSUME Invariant, LiveSessionNext
  PROVE  WorkStays
<1>1. \A a \in DOMAIN assignments : a \in DOMAIN assignments'
  <2>1. PICK at \in Time :
           \/ \E task \in Tasks : CreateSession(task, at)
           \/ \E s \in SessionId : CloseSession(s, at)
           \/ \E task \in Tasks, s \in SessionId, agent \in Agents,
                 target \in AssignmentId \cup {NoTarget} :
                Assign(task, s, agent, target, at)
           \/ \E a \in DOMAIN assignments, status \in AssignmentStatus : \E output :
                Changes(a, status, output, at)
    BY StepCases DEF Invariant
  <2> QED
    BY <2>1 DEF CreateSession, CloseSession, Assign, Changes
<1>2. \/ \A a \in DOMAIN assignments : AssignmentAdvances(a)
      \/ UNCHANGED liveSessionVars
  BY NextGoesForward
<1> QED
  BY <1>1, <1>2 DEF AssignmentAdvances, WorkStays, liveSessionVars

LEMMA ElsewhereIsLive ==
  ASSUME ElsewhereInLiveSession
  PROVE  LiveSessionNext
BY DEF ElsewhereInLiveSession, LiveSessionNext

LEMMA ElsewhereDeliversNone ==
  ASSUME Invariant, ElsewhereInLiveSession
  PROVE  NoneDelivered
<1> USE DEF Invariant, NoneDelivered
<1>1. \A a \in DOMAIN assignments : assignments[a] \in Assignment
  BY AssignmentHasType
<1>2. PICK at \in Time :
       \/ \E task \in Tasks : CreateSession(task, at)
       \/ \E s \in SessionId : CloseSession(s, at)
       \/ \E task \in Tasks, s \in SessionId, agent \in Agents,
             target \in AssignmentId \cup {NoTarget} :
            Assign(task, s, agent, target, at)
       \/ \E a \in AssignmentId : CancelIfAssigned(a, at) \/ CancelAssignment(a, at)
       \/ \E a \in AssignmentId, status \in {"Approved", "Rejected"} :
            MarkReviewed(a, status, at)
  BY DEF ElsewhereInLiveSession
<1>3. ASSUME NEW a \in DOMAIN assignments, NEW status, SetStatus(a, status, at)
      PROVE  NoneDelivered
  BY <1>1, <1>3 DEF SetStatus, Assignment
<1>4. ASSUME NEW task \in Tasks, NEW s \in SessionId, NEW agent \in Agents,
             NEW target, Assign(task, s, agent, target, at)
      PROVE  NoneDelivered
  BY <1>4 DEF Assign
<1>5. ASSUME UNCHANGED assignments
      PROVE  NoneDelivered
  BY <1>5
<1> QED
  BY <1>2, <1>3, <1>4, <1>5
     DEF CreateSession, CloseSession, CancelIfAssigned, CancelAssignment,
         MarkReviewed, StatusAt

(* A step that delivers nothing keeps what was delivered.                  *)
LEMMA HashesStay ==
  ASSUME OutputsHashed, WorkStays, NoneDelivered
  PROVE  OutputsHashed'
BY DEF OutputsHashed, WorkStays, NoneDelivered, IsHashOf

LEMMA CallStays ==
  ASSUME WorkStays, NEW call, CallStands(call),
         DOMAIN locators \subseteq DOMAIN locators'
  PROVE  CallStands(call)'
BY DEF CallStands, WorkStays

LEMMA LocatorStays ==
  ASSUME WorkStays, NEW a, LocatorStands(a), locators'[a] = locators[a]
  PROVE  LocatorStands(a)'
BY DEF LocatorStands, WorkStays

LEMMA QuietStep ==
  ASSUME DeliveryInv, Invariant', WorkStays, NoneDelivered,
         UNCHANGED <<idempotency, locators>>, calls' \subseteq calls
  PROVE  DeliveryInv'
<1>1. OutputsHashed'
  BY HashesStay DEF DeliveryInv
<1>2. \A call \in calls' : CallStands(call)'
  BY CallStays DEF DeliveryInv
<1>3. OneSubmits'
  BY DEF DeliveryInv, OneSubmits
<1>4. \A a \in DOMAIN locators' : LocatorStands(a)'
  BY LocatorStays DEF DeliveryInv
<1>5. \A i \in DOMAIN idempotency' : AnswerStands(i)'
  BY DEF DeliveryInv, AnswerStands, I!IsPending
<1> QED
  BY <1>1, <1>2, <1>3, <1>4, <1>5 DEF DeliveryInv

LEMMA Unmoved ==
  ASSUME Invariant, UNCHANGED liveSessionVars
  PROVE  Invariant' /\ WorkStays /\ NoneDelivered
BY NextInvariant DEF liveSessionVars, WorkStays, NoneDelivered

LEMMA BeginStep ==
  ASSUME DeliveryInv, NEW a \in AssignmentId, NEW key, NEW m \in Manifests,
         NEW uri, NEW at \in Time, BeginSubmit(a, key, m, uri, at)
  PROVE  DeliveryInv'
<1>1. /\ a \in DOMAIN assignments
      /\ UNCHANGED <<liveSessionVars, locators>>
  BY DEF BeginSubmit
<1>2. Invariant' /\ WorkStays /\ NoneDelivered
  BY <1>1, Unmoved DEF DeliveryInv
<1>3. PICK new : new = [stage |-> "begun", caller |-> assignments[a].agent,
                        key |-> key, assignment |-> a, manifest |-> m,
                        uri |-> uri, at |-> at]
  OBVIOUS
<1>4. calls' = calls \cup {new}
  BY <1>3 DEF BeginSubmit
<1>5. CallStands(new) /\ new.stage = "begun"
  BY <1>1, <1>3 DEF CallStands
<1>6. \A call \in calls' : CallStands(call)'
  BY <1>1, <1>2, <1>4, <1>5, CallStays DEF DeliveryInv
<1>7. OneSubmits'
  BY <1>1, <1>4, <1>5 DEF DeliveryInv, OneSubmits
<1>8. \A i \in DOMAIN idempotency' : AnswerStands(i)'
  <2>1. PICK j : I!Begin(j, SubmitArtifact, at)
    BY DEF BeginSubmit
  <2>2. \A i \in DOMAIN idempotency' :
          \/ idempotency'[i].outcome = I!Pending
          \/ i \in DOMAIN idempotency /\ idempotency'[i] = idempotency[i]
    BY <2>1 DEF I!Begin
  <2> QED
    BY <1>1, <2>2 DEF DeliveryInv, AnswerStands, I!IsPending
<1>9. \A b \in DOMAIN locators' : LocatorStands(b)'
  BY <1>1, <1>2, LocatorStays DEF DeliveryInv
<1> QED
  BY <1>2, <1>6, <1>7, <1>8, <1>9, HashesStay DEF DeliveryInv

LEMMA SubmitIsLive ==
  ASSUME DeliveryInv, NEW call \in calls, Submit(call)
  PROVE  /\ LiveSessionNext
         /\ call.manifest \in Manifests
         /\ ManifestHash(call.manifest) \in Outputs
<1>1. /\ call.at \in Time /\ call.manifest \in Manifests
      /\ call.assignment \in DOMAIN assignments
      /\ call.caller = assignments[call.assignment].agent
  BY DEF DeliveryInv, CallStands, Submit
<1>2. assignments[call.assignment] \in Assignment
  BY <1>1, AssignmentHasType DEF DeliveryInv, Invariant
<1>3. call.assignment \in AssignmentId /\ call.caller \in Agents
  BY <1>1, <1>2, LiveSessionAssumption
     DEF DeliveryInv, Invariant, LiveSessionTypeOK, AssignmentId, Assignment
<1>4. ManifestHash(call.manifest) \in Outputs
  BY <1>1, DeliveryAssumption
     DEF Submit, Accepts, ValidSubmission, ValidManifest
<1>5. SubmitOutput(call.assignment, call.caller, ManifestHash(call.manifest),
                   call.at)
  BY DEF Submit
<1> QED
  BY <1>1, <1>3, <1>4, <1>5 DEF LiveSessionNext

LEMMA SubmitStep ==
  ASSUME DeliveryInv, NEW call \in calls, Submit(call)
  PROVE  DeliveryInv'
<1>1. PICK a, hash : a = call.assignment /\ hash = ManifestHash(call.manifest)
  OBVIOUS
<1>2. Invariant' /\ WorkStays
  BY SubmitIsLive, NextInvariant, StepKeepsWork DEF DeliveryInv
<1>3. /\ a \in DOMAIN assignments /\ call.caller = assignments[a].agent
      /\ call.manifest \in Manifests /\ hash \in Outputs /\ hash # NoOutput
      /\ call.stage = "begun" /\ call.at \in Time
      /\ UNCHANGED <<idempotency, locators>>
  BY <1>1, SubmitIsLive, LiveSessionAssumption DEF DeliveryInv, CallStands, Submit
<1>4. assignments[a].output = NoOutput
  <2>1. assignments[a].status = "Assigned"
    BY <1>1 DEF Submit, SubmitOutput, StatusAt
  <2> QED
    BY <1>3, <2>1 DEF DeliveryInv, Invariant, OutputFollowsStatus
<1>5. /\ DOMAIN assignments' = DOMAIN assignments
      /\ assignments'[a].output = hash
      /\ \A b \in DOMAIN assignments \ {a} : assignments'[b] = assignments[b]
  <2>1. assignments' = [assignments EXCEPT ![a].output = hash,
                                           ![a].status = "Submitted",
                                           ![a].updatedAt = call.at]
    BY <1>1 DEF Submit, SubmitOutput
  <2>2. assignments[a] \in Assignment
    BY <1>3, AssignmentHasType DEF DeliveryInv, Invariant
  <2> QED
    BY <1>3, <2>1, <2>2 DEF Assignment
<1>6. OutputsHashed'
  <2> SUFFICES ASSUME NEW b \in DOMAIN assignments,
                      assignments'[b].output # NoOutput
               PROVE  \E m \in Manifests : IsHashOf(m, b)'
    BY <1>5 DEF OutputsHashed
  <2>1. CASE b = a
    <3>1. ValidSubmission(call.manifest, assignments[a].task, a,
                          assignments[a].agent)
      BY <1>1, <1>3 DEF Submit, Accepts
    <3>2. IsHashOf(call.manifest, a)'
      BY <1>1, <1>2, <1>3, <1>5, <3>1 DEF IsHashOf, WorkStays
    <3> QED
      BY <1>3, <2>1, <3>2
  <2>2. CASE b # a
    BY <1>5, <2>2 DEF DeliveryInv, OutputsHashed, IsHashOf
  <2> QED
    BY <2>1, <2>2
<1>7. \A other \in calls : other.assignment = a => other.stage = "begun"
  BY <1>4 DEF DeliveryInv, CallStands
<1>8. a \notin DOMAIN locators
  BY <1>4 DEF DeliveryInv, LocatorStands
<1>9. \A other \in calls : CallStands(other)'
  BY <1>2, <1>3, CallStays DEF DeliveryInv
<1>10. PICK new : new = [stage |-> "submitted", caller |-> call.caller,
                         key |-> call.key, assignment |-> call.assignment,
                         uri |-> call.uri, at |-> call.at]
  OBVIOUS
<1>11. /\ new.stage = "submitted" /\ new.assignment = a
       /\ CallStands(new)'
  BY <1>1, <1>2, <1>3, <1>5, <1>10 DEF CallStands, WorkStays
<1>12. \/ calls' = (calls \ {call}) \cup {new}
       \/ calls' = calls \ {call}
  BY <1>10 DEF Submit, Reaches, Ends
<1>13. OneSubmits'
  <2> SUFFICES ASSUME NEW c \in calls', c.stage = "submitted"
               PROVE  /\ c.assignment \notin DOMAIN locators
                      /\ \A other \in calls' \ {c} :
                           other.assignment = c.assignment
                             => other.stage = "begun"
    BY <1>3 DEF OneSubmits
  <2>1. CASE c = new
    BY <1>7, <1>8, <1>11, <1>12, <2>1
  <2>2. CASE c # new
    <3>1. c \in calls
      BY <1>12, <2>2
    <3>2. c.assignment # a
      BY <1>7, <3>1
    <3> QED
      BY <1>11, <1>12, <3>1, <3>2 DEF DeliveryInv, OneSubmits
  <2> QED
    BY <2>1, <2>2
<1>14. \A b \in DOMAIN locators' : LocatorStands(b)'
  BY <1>2, <1>3, LocatorStays DEF DeliveryInv
<1>15. \A i \in DOMAIN idempotency' : AnswerStands(i)'
  BY <1>3 DEF DeliveryInv, AnswerStands, I!IsPending
<1> QED
  BY <1>2, <1>6, <1>9, <1>11, <1>12, <1>13, <1>14, <1>15 DEF DeliveryInv

LEMMA StoreStep ==
  ASSUME DeliveryInv, NEW call \in calls, StoreLocator(call)
  PROVE  DeliveryInv'
<1>1. PICK a : a = call.assignment
  OBVIOUS
<1>2. UNCHANGED <<liveSessionVars, idempotency>> /\ call.stage = "submitted"
  BY DEF StoreLocator
<1>3. Invariant' /\ WorkStays /\ NoneDelivered
  BY <1>2, Unmoved DEF DeliveryInv
<1>4. /\ a \in DOMAIN assignments /\ call.caller = assignments[a].agent
      /\ assignments[a].output # NoOutput /\ a \notin DOMAIN locators
      /\ call.at \in Time
      /\ \A other \in calls \ {call} : other.assignment = a
                                         => other.stage = "begun"
  BY <1>1, <1>2 DEF DeliveryInv, CallStands, OneSubmits
<1>5. /\ DOMAIN locators' = DOMAIN locators \cup {a}
      /\ locators'[a] = Locator(call)
      /\ \A b \in DOMAIN locators : locators'[b] = locators[b]
  BY <1>1, <1>4 DEF StoreLocator
<1>6. \A b \in DOMAIN locators' : LocatorStands(b)'
  <2>1. LocatorStands(a)'
    BY <1>1, <1>2, <1>4, <1>5 DEF LocatorStands, Locator, liveSessionVars
  <2> QED
    BY <1>3, <1>5, <2>1, LocatorStays DEF DeliveryInv
<1>7. PICK new : new = [stage |-> "stored", caller |-> call.caller,
                        key |-> call.key, assignment |-> call.assignment,
                        uri |-> call.uri, at |-> call.at]
  OBVIOUS
<1>8. calls' = (calls \ {call}) \cup {new}
  BY <1>7 DEF StoreLocator, Reaches
<1>9. new.stage = "stored" /\ new.assignment = a /\ CallStands(new)'
  BY <1>1, <1>2, <1>4, <1>5, <1>7 DEF CallStands, liveSessionVars
<1>10. \A c \in calls' : CallStands(c)'
  BY <1>3, <1>5, <1>8, <1>9, CallStays DEF DeliveryInv
<1>11. OneSubmits'
  <2> SUFFICES ASSUME NEW c \in calls', c.stage = "submitted"
               PROVE  /\ c.assignment \notin DOMAIN locators'
                      /\ \A other \in calls' \ {c} :
                           other.assignment = c.assignment
                             => other.stage = "begun"
    BY DEF OneSubmits
  <2>1. c \in calls \ {call}
    BY <1>8, <1>9
  <2>2. c.assignment # a
    BY <1>4, <2>1
  <2> QED
    BY <1>5, <1>8, <1>9, <2>1, <2>2 DEF DeliveryInv, OneSubmits
<1>12. \A i \in DOMAIN idempotency' : AnswerStands(i)'
  BY <1>2, <1>5 DEF DeliveryInv, AnswerStands, I!IsPending
<1> QED
  BY <1>3, <1>6, <1>10, <1>11, <1>12, HashesStay DEF DeliveryInv

LEMMA FinishStep ==
  ASSUME DeliveryInv, NEW call \in calls, FinishSubmit(call)
  PROVE  DeliveryInv'
<1>1. /\ UNCHANGED <<liveSessionVars, locators>> /\ call.stage = "stored"
      /\ calls' \subseteq calls
  BY DEF FinishSubmit, Ends
<1>2. Invariant' /\ WorkStays /\ NoneDelivered
  BY <1>1, Unmoved DEF DeliveryInv
<1>3. CASE UNCHANGED idempotency
  BY <1>1, <1>2, <1>3, QuietStep
<1>4. CASE I!Finish(Index(call), SubmitArtifact, I!Succeeded(call.assignment),
                    call.at)
  <2>1. PICK a, i : a = call.assignment /\ i = <<call.caller, call.key>>
    OBVIOUS
  <2>2. /\ DOMAIN idempotency' = DOMAIN idempotency
        /\ idempotency'[i].outcome.answer = a
        /\ \A j \in DOMAIN idempotency \ {i} : idempotency'[j] = idempotency[j]
    BY <1>4, <2>1
       DEF I!Finish, I!MayFinish, I!HasRecord, I!Succeeded, Index, I!IndexOf
  <2>3. a \in DOMAIN locators /\ locators[a].producer = i[1]
    BY <1>1, <2>1 DEF DeliveryInv, CallStands, LocatorStands
  <2>4. \A j \in DOMAIN idempotency' : AnswerStands(j)'
    BY <1>1, <2>2, <2>3 DEF DeliveryInv, AnswerStands, I!IsPending
  <2>5. \A c \in calls' : CallStands(c)'
    BY <1>1, <1>2, CallStays DEF DeliveryInv
  <2>6. OneSubmits'
    BY <1>1 DEF DeliveryInv, OneSubmits
  <2>7. \A b \in DOMAIN locators' : LocatorStands(b)'
    BY <1>1, <1>2, LocatorStays DEF DeliveryInv
  <2> QED
    BY <1>2, <2>4, <2>5, <2>6, <2>7, HashesStay DEF DeliveryInv
<1> QED
  BY <1>3, <1>4 DEF FinishSubmit

LEMMA DeliveryStep ==
  DeliveryInv /\ [DeliveryNext]_deliveryVars =>
    DeliveryInv' /\ [LiveSessionNext]_liveSessionVars
<1> SUFFICES ASSUME DeliveryInv, [DeliveryNext]_deliveryVars
             PROVE  DeliveryInv' /\ [LiveSessionNext]_liveSessionVars
  OBVIOUS
<1>1. ASSUME NEW a \in AssignmentId, NEW key \in Keys, NEW m \in Manifests,
             NEW uri \in Uris, NEW at \in Time, BeginSubmit(a, key, m, uri, at)
      PROVE  DeliveryInv' /\ [LiveSessionNext]_liveSessionVars
  BY <1>1, BeginStep DEF BeginSubmit
<1>2. ASSUME NEW call \in calls, Submit(call)
      PROVE  DeliveryInv' /\ [LiveSessionNext]_liveSessionVars
  BY <1>2, SubmitIsLive, SubmitStep
<1>3. ASSUME NEW call \in calls, SubmitFails(call) \/ LocatorFails(call) \/ Drop(call)
      PROVE  DeliveryInv' /\ [LiveSessionNext]_liveSessionVars
  <2>1. /\ UNCHANGED <<liveSessionVars, idempotency, locators>>
        /\ calls' \subseteq calls
    BY <1>3 DEF SubmitFails, LocatorFails, Drop, Ends
  <2> QED
    BY <2>1, Unmoved, QuietStep DEF DeliveryInv
<1>4. ASSUME NEW call \in calls, StoreLocator(call) \/ FinishSubmit(call)
      PROVE  DeliveryInv' /\ [LiveSessionNext]_liveSessionVars
  BY <1>4, StoreStep, FinishStep DEF StoreLocator, FinishSubmit
<1>5. CASE ElsewhereInLiveSession
  <2>1. LiveSessionNext /\ NoneDelivered
    BY <1>5, ElsewhereIsLive, ElsewhereDeliversNone DEF DeliveryInv
  <2>2. Invariant' /\ WorkStays
    BY <2>1, NextInvariant, StepKeepsWork DEF DeliveryInv
  <2>3. UNCHANGED <<idempotency, locators>> /\ calls' \subseteq calls
    BY <1>5 DEF ElsewhereInLiveSession
  <2> QED
    BY <2>1, <2>2, <2>3, QuietStep
<1>6. CASE UNCHANGED deliveryVars
  <2>1. /\ UNCHANGED <<liveSessionVars, idempotency, locators>>
        /\ calls' \subseteq calls
    BY <1>6 DEF deliveryVars
  <2> QED
    BY <2>1, Unmoved, QuietStep DEF DeliveryInv
<1> QED
  BY <1>1, <1>2, <1>3, <1>4, <1>5, <1>6 DEF DeliveryNext

LEMMA DeliveryStart == DeliveryInit => DeliveryInv
<1> SUFFICES ASSUME DeliveryInit PROVE DeliveryInv
  OBVIOUS
<1>1. /\ DOMAIN assignments = {} /\ DOMAIN locators = {} /\ calls = {}
      /\ DOMAIN idempotency = {}
  BY DEF DeliveryInit, LiveSessionInit, I!IdempotencyInit
<1>2. Invariant
  BY InitInvariant DEF DeliveryInit
<1> QED
  BY <1>1, <1>2 DEF DeliveryInv, OutputsHashed, OneSubmits

LEMMA DeliveryInvariant == DeliverySpec => []DeliveryInv
BY DeliveryStart, DeliveryStep, PTL DEF DeliverySpec

-----------------------------------------------------------------------------

(* The handler that delivers work makes no call that the live sessions do  *)
(* not know: what is proved of them stays true under it                    *)
(* (app.rs:464-526).                                                       *)
THEOREM DeliveryIsLiveSession == DeliverySpec => LiveSessionSpec
BY DeliveryInvariant, DeliveryStep, PTL DEF DeliverySpec, LiveSessionSpec, DeliveryInit

(* Whatever is recorded as the output of an assignment is the hash of a    *)
(* manifest for that assignment, by its agent, with files that have        *)
(* different paths and can be fetched (artifact/validator.rs:39-65,        *)
(* 110-152; livesession/core.rs:166-189).                                  *)
THEOREM OutputsStayNamed == DeliverySpec => []OutputsNameTheirWork
<1>1. DeliveryInv => OutputsNameTheirWork
  <2> SUFFICES ASSUME DeliveryInv,
                      NEW a \in DOMAIN assignments,
                      assignments[a].output # NoOutput
               PROVE  LET payload == assignments[a].output.sha256 IN
                      /\ payload.task = assignments[a].task
                      /\ payload.assignment = a
                      /\ payload.producer = assignments[a].agent
                      /\ payload.files # << >>
                      /\ \A i \in DOMAIN payload.files :
                           payload.files[i].uri # Blank
                      /\ \A i, j \in DOMAIN payload.files :
                           i # j => payload.files[i].path # payload.files[j].path
    BY DEF OutputsNameTheirWork
  <2>p. PICK payload : payload = assignments[a].output.sha256
    OBVIOUS
  <2>1. PICK m \in Manifests : IsHashOf(m, a)
    BY DEF DeliveryInv, OutputsHashed
  <2>2. payload = Payload(m)
    BY <2>1, <2>p DEF IsHashOf, ManifestHash, Digest
  <2>3. /\ payload.task = assignments[a].task /\ payload.assignment = a
        /\ payload.producer = assignments[a].agent
    BY <2>1, <2>2 DEF Payload, IsHashOf, ValidSubmission
  <2>4. IsManifest(m) /\ ValidShape(m)
    BY <2>1, DeliveryAssumption DEF IsHashOf, ValidSubmission, ValidManifest
  <2>5. Lists(payload.files, DescribedFiles(m))
    BY <2>2, <2>4, PayloadLists
  <2>6. PICK files : files = payload.files
    OBVIOUS
  <2>7. PICK n \in Nat \ {0} :
          /\ DOMAIN files = 1 .. n
          /\ \A i \in 1 .. n : files[i].path \in Nat /\ files[i].uri # Blank
          /\ \A i, j \in 1 .. n : i < j => files[i].path < files[j].path
    BY <2>5, <2>6 DEF Lists
  <2>8. \A i, j \in 1 .. n : i # j => files[i].path # files[j].path
    <3> SUFFICES ASSUME NEW i \in 1 .. n, NEW j \in 1 .. n, i # j
                 PROVE  files[i].path # files[j].path
      OBVIOUS
    <3>1. i < j \/ j < i
      OBVIOUS
    <3> QED
      BY <2>7, <3>1
  <2>9. files # << >>
    <3>1. 1 \in DOMAIN files
      BY <2>7
    <3> QED
      BY <3>1
  <2> QED
    BY <2>p, <2>3, <2>6, <2>7, <2>8, <2>9
<1> QED
  BY <1>1, DeliveryInvariant, PTL

(* A locator is that of the submission that was recorded, stored once and  *)
(* by the handler that submitted, and a key is answered only once there is *)
(* one, although handlers race, are dropped and are tried again            *)
(* (app.rs:464-526, 1079-1094; storage/core.rs:170-186).                   *)
THEOREM LocatorsStayFindable == DeliverySpec => []LocatorsFindTheWork
<1>1. DeliveryInv => LocatorsFindTheWork
  <2> SUFFICES ASSUME DeliveryInv PROVE LocatorsFindTheWork
    OBVIOUS
  <2>1. \A i \in DOMAIN idempotency : ~I!IsPending(i) =>
          /\ IsAnswerable(idempotency[i].outcome.answer)
          /\ locators[idempotency[i].outcome.answer].producer = i[1]
    BY DEF DeliveryInv, AnswerStands, LocatorStands, IsAnswerable
  <2>2. \A a \in DOMAIN locators : LocatorStands(a)
    BY DEF DeliveryInv
  <2>3. OneSubmits
    BY DEF DeliveryInv
  <2> QED
    BY <2>1, <2>2, <2>3 DEF LocatorsFindTheWork, LocatorStands, OneSubmits
<1> QED
  BY <1>1, DeliveryInvariant, PTL

(* Two accepted manifests have one hash exactly if they describe the same  *)
(* files for the same assignment as the same artifact, in whatever order   *)
(* they list them, for any number of files                                 *)
(* (artifact/validator.rs:14-17, 67-108, 242-289).                         *)
THEOREM SameFilesHashAlike == DeliverySpec => []RetriesHashAlike
<1>1. DeliveryInv => RetriesHashAlike
  <2> DEFINE Asked == {call.manifest : call \in {c \in calls : c.stage = "begun"
                                                            /\ Accepts(c)}}
  <2> SUFFICES ASSUME DeliveryInv, NEW m \in Asked, NEW n \in Asked
               PROVE  ManifestHash(m) = ManifestHash(n) <=>
                        /\ m.artifact = n.artifact /\ m.createdAt = n.createdAt
                        /\ m.assignment = n.assignment
                        /\ m.kind = n.kind
                        /\ DescribedFiles(m) = DescribedFiles(n)
    BY DEF RetriesHashAlike, DescribedFiles
  <2>1. \A k \in Asked :
          /\ k \in Manifests /\ ValidShape(k)
          /\ k.task = assignments[k.assignment].task
          /\ k.producer = assignments[k.assignment].agent
    BY DEF DeliveryInv, CallStands, Accepts, ValidSubmission, ValidManifest
  <2>2. /\ IsManifest(m) /\ ValidShape(m) /\ IsManifest(n) /\ ValidShape(n)
        /\ m.assignment = n.assignment => m.task = n.task /\ m.producer = n.producer
    BY <2>1, DeliveryAssumption
  <2> HIDE DEF Asked
  <2> QED
    BY <2>2, HashTellsFilesApart
<1> QED
  BY <1>1, DeliveryInvariant, PTL
=============================================================================
