---------------------------- MODULE RuntimeProofs ----------------------------
(***************************************************************************)
(* What the runtime's answer to silence never does, for every number of    *)
(* assignments, holds and clock values, and whether or not a publication   *)
(* may be cut off.  Fairness plays no part here: that abandoned holds do   *)
(* get refunded is a liveness property, and left to the model checker.     *)
(*                                                                         *)
(* The invariant follows what the service remembers from one call to the   *)
(* next: whatever handlers do meanwhile, the assignments that it has       *)
(* cancelled stay cancelled with no output, and the holds that it is about *)
(* to refund stay holds of the silent agent for those assignments.         *)
(***************************************************************************)
EXTENDS Runtime, FiniteSetTheorems, TLAPS

C == INSTANCE CoreProofs WITH
       Tasks <- {Task}, Assignments <- AssignmentId, Reviews <- {},
       Amounts <- {Price, Funds}, MaxBalance <- Funds, MaxDeposits <- 1,
       Reviewers <- {}, Targets <- {}, ReviewTimes <- {},
       MaxReviews <- 0, PriorReviews <- 0, reviews <- << >>

(* The assumptions of the core modules hold of this instance.              *)
LEMMA CoreAssumptions ==
  /\ {} \subseteq Nat /\ 0 \in Nat /\ 0 \in 0 .. 0
  /\ {Price, Funds} \subseteq Nat
  /\ Funds \in Nat /\ 1 \in Nat /\ MaxHolds \in Nat
  /\ C!IsFiniteSet(Agents)
<1>1. IsFiniteSet({Publisher}) /\ IsFiniteSet({Worker})
  BY FS_Singleton
<1>2. IsFiniteSet({Publisher} \cup {Worker})
  BY <1>1, FS_Union
<1>3. {Publisher} \cup {Worker} = Agents
  BY DEF Agents
<1>4. C!IsFiniteSet(Agents)
  BY <1>2, <1>3 DEF IsFiniteSet, C!IsFiniteSet
<1> QED
  BY <1>4, RuntimeAssumption DEF Price

(* The records, as far as the argument looks at them.                      *)
WorkRecord ==
  [task : {Task}, session : {1}, agent : {Worker}, target : {0},
   status : L!AssignmentStatus, output : {Output, NoOutput}, updatedAt : Nat]

WorkTyped ==
  /\ \E n \in Nat : assignments \in [1 .. n -> WorkRecord]
  /\ now \in Nat

HoldsTyped ==
  /\ nextHold \in Nat
  /\ holds \in [1 .. nextHold -> S!Hold]
  /\ \A h \in DOMAIN holds : holds[h].assignment \in DOMAIN assignments

Publication(state) ==
  /\ state = [at |-> state.at, agent |-> state.agent, time |-> state.time,
              todo |-> state.todo, cancelled |-> state.cancelled]
  /\ state.time \in Nat

ServiceTyped == service \in {Idle, Overrun} \/ Publication(service)

(* There is an output exactly if the work was handed in.                   *)
OutputFollows ==
  \A a \in DOMAIN assignments :
    assignments[a].status \in {"Assigned", "Cancelled"} =>
      assignments[a].output = NoOutput

IsCancelled(a) ==
  /\ a \in DOMAIN assignments
  /\ assignments[a].status = "Cancelled"

(* What the service remembers of the calls it has made is still so.        *)
MemoryIsTrue ==
  service \notin {Idle, Overrun} =>
    /\ \A a \in service.cancelled : IsCancelled(a)
    /\ At("refund") =>
         \A h \in service.todo :
           /\ h \in DOMAIN holds
           /\ holds[h].agent = service.agent
           /\ holds[h].assignment \in service.cancelled

RuntimeInv ==
  /\ WorkTyped /\ HoldsTyped /\ ServiceTyped
  /\ OutputFollows /\ MemoryIsTrue

-----------------------------------------------------------------------------
(* What a step outside the service has to respect.                         *)

CancelledStays ==
  /\ DOMAIN assignments \subseteq DOMAIN assignments'
  /\ \A a \in DOMAIN assignments : IsCancelled(a) => IsCancelled(a)'

TermsStay ==
  /\ DOMAIN holds \subseteq DOMAIN holds'
  /\ \A h \in DOMAIN holds :
       /\ holds'[h].agent = holds[h].agent
       /\ holds'[h].assignment = holds[h].assignment

LEMMA MemoryStays ==
  ASSUME MemoryIsTrue, CancelledStays, TermsStay, UNCHANGED service
  PROVE  MemoryIsTrue'
BY DEF MemoryIsTrue, CancelledStays, TermsStay, IsCancelled, At

LEMMA SameCount == \A X : L!Cardinality(X) = Cardinality(X)
BY DEF L!Cardinality, Cardinality

LEMMA WorkStep ==
  ASSUME WorkTyped, OutputFollows, UNCHANGED now,
         NEW at \in Nat, NEW a,
         \/ L!Assign(Task, 1, Worker, L!NoTarget, at)
         \/ L!SubmitOutput(a, Worker, Output, at)
         \/ L!CancelIfAssigned(a, at)
  PROVE  /\ WorkTyped' /\ OutputFollows' /\ CancelledStays
         /\ L!CancelIfAssigned(a, at) => IsCancelled(a)'
<1>1. PICK n \in Nat : assignments \in [1 .. n -> WorkRecord]
  BY DEF WorkTyped
<1>2. CASE L!Assign(Task, 1, Worker, L!NoTarget, at)
  <2>1. Cardinality(DOMAIN assignments) = n
    BY <1>1, FS_Interval
  <2> DEFINE new == [task |-> Task, session |-> 1, agent |-> Worker,
                     target |-> 0, status |-> "Assigned",
                     output |-> NoOutput, updatedAt |-> at]
  <2>2. assignments' = [b \in 1 .. n + 1 |->
                          IF b = n + 1 THEN new ELSE assignments[b]]
    <3>1. DOMAIN assignments \cup {n + 1} = 1 .. n + 1
      BY <1>1
    <3>2. L!NextAssignmentId = n + 1 /\ L!NoTarget = 0
      BY <2>1, SameCount DEF L!NextAssignmentId, L!NoTarget
    <3>3. assignments' =
            [b \in DOMAIN assignments \cup {L!NextAssignmentId} |->
               IF b = L!NextAssignmentId
               THEN [task |-> Task, session |-> 1, agent |-> Worker,
                     target |-> L!NoTarget, status |-> "Assigned",
                     output |-> NoOutput, updatedAt |-> at]
               ELSE assignments[b]]
      BY <1>2 DEF L!Assign
    <3> QED
      BY <3>1, <3>2, <3>3, Zenon
  <2>3. new \in WorkRecord
    BY DEF WorkRecord, L!AssignmentStatus
  <2>4. assignments' \in [1 .. n + 1 -> WorkRecord]
    BY <1>1, <2>2, <2>3
  <2>5. new.status = "Assigned" /\ new.output = NoOutput
    OBVIOUS
  <2> HIDE DEF new
  <2>6. WorkTyped' /\ OutputFollows' /\ CancelledStays
    BY <1>1, <2>2, <2>4, <2>5
       DEF WorkTyped, OutputFollows, CancelledStays, IsCancelled
  <2>7. n + 1 \notin DOMAIN assignments
    BY <1>1
  <2>8. ~L!CancelIfAssigned(a, at)
    BY <1>1, <2>4, <2>7 DEF L!CancelIfAssigned, L!SetStatus, L!StatusAt
  <2> QED
    BY <2>6, <2>8
<1>3. CASE L!SubmitOutput(a, Worker, Output, at)
  <2>1. /\ a \in 1 .. n /\ assignments[a].status = "Assigned"
        /\ assignments' = [assignments EXCEPT ![a].output = Output,
                                              ![a].status = "Submitted",
                                              ![a].updatedAt = at]
    BY <1>1, <1>3 DEF L!SubmitOutput, L!StatusAt
  <2>2. /\ assignments' \in [1 .. n -> WorkRecord]
        /\ assignments'[a].status = "Submitted"
        /\ \A b \in 1 .. n \ {a} : assignments'[b] = assignments[b]
    BY <1>1, <2>1 DEF WorkRecord, L!AssignmentStatus
  <2>3. ~L!CancelIfAssigned(a, at)
    BY <1>1, <2>1, <2>2
       DEF L!CancelIfAssigned, L!SetStatus, WorkRecord
  <2> QED
    BY <1>1, <2>1, <2>2, <2>3
       DEF WorkTyped, OutputFollows, CancelledStays, IsCancelled
<1>4. CASE L!CancelIfAssigned(a, at)
  <2>1. /\ a \in 1 .. n /\ assignments[a].status = "Assigned"
        /\ assignments' = [assignments EXCEPT ![a].status = "Cancelled",
                                              ![a].updatedAt = at]
    BY <1>1, <1>4 DEF L!CancelIfAssigned, L!StatusAt, L!SetStatus
  <2>2. /\ assignments' \in [1 .. n -> WorkRecord]
        /\ assignments'[a].status = "Cancelled"
        /\ assignments'[a].output = assignments[a].output
        /\ \A b \in 1 .. n \ {a} : assignments'[b] = assignments[b]
    <3> DEFINE new == [assignments[a] EXCEPT !.status = "Cancelled",
                                             !.updatedAt = at]
    <3>1. /\ new \in WorkRecord /\ new.status = "Cancelled"
          /\ new.output = assignments[a].output
      BY <1>1, <2>1 DEF WorkRecord, L!AssignmentStatus
    <3>2. assignments' = [assignments EXCEPT ![a] = new]
      BY <1>1, <2>1
    <3> HIDE DEF new
    <3> QED
      BY <1>1, <2>1, <3>1, <3>2
  <2> QED
    BY <1>1, <2>1, <2>2
       DEF WorkTyped, OutputFollows, CancelledStays, IsCancelled
<1> QED
  BY <1>2, <1>3, <1>4

LEMMA HoldStep ==
  ASSUME HoldsTyped, NEW a \in DOMAIN assignments, UNCHANGED assignments,
         S!CreateHold([from |-> Publisher, amount |-> Price, task |-> Task,
                       assignment |-> a, agent |-> Worker,
                       kind |-> "Execute"]),
         a \in AssignmentId
  PROVE  HoldsTyped' /\ TermsStay
<1> DEFINE new == [from |-> Publisher, amount |-> Price, task |-> Task,
                   assignment |-> a, agent |-> Worker, kind |-> "Execute",
                   status |-> "Active"]
<1>1. /\ nextHold' = nextHold + 1
      /\ holds' = [h \in 1 .. nextHold + 1 |->
                     IF h = nextHold + 1 THEN new ELSE holds[h]]
  BY DEF HoldsTyped, S!CreateHold, S!NextHoldId
<1>2. new \in S!Hold /\ new.assignment = a
  BY DEF S!Hold, S!HoldKind, S!HoldStatus, Agents, Price
<1> HIDE DEF new
<1> QED
  BY <1>1, <1>2 DEF HoldsTyped, TermsStay

LEMMA RefundStep ==
  ASSUME HoldsTyped, UNCHANGED assignments, NEW h, S!Refund(h)
  PROVE  /\ HoldsTyped' /\ TermsStay
         /\ holds'[h].status = "Refunded"
         /\ \A g \in DOMAIN holds \ {h} : holds'[g] = holds[g]
<1>1. /\ h \in DOMAIN holds /\ UNCHANGED nextHold
      /\ holds' = [holds EXCEPT ![h].status = "Refunded"]
  BY DEF S!Refund, S!Settle
<1>2. /\ holds' \in [1 .. nextHold -> S!Hold]
      /\ holds'[h].status = "Refunded"
      /\ holds'[h].agent = holds[h].agent
      /\ holds'[h].assignment = holds[h].assignment
      /\ \A g \in DOMAIN holds \ {h} : holds'[g] = holds[g]
  BY <1>1 DEF HoldsTyped, S!Hold, S!HoldStatus
<1> QED
  BY <1>1, <1>2 DEF HoldsTyped, TermsStay

-----------------------------------------------------------------------------
(* The service's own steps.                                                *)

LEMMA MayCancelTheListed ==
  ASSUME RuntimeInv, CancelNext
  PROVE  RuntimeInv'
<1> USE DEF RuntimeInv
<1>1. /\ At("cancel") /\ UNCHANGED <<holds, nextHold, now>>
      /\ service \notin {Idle, Overrun} /\ Publication(service)
  <2>1. At("cancel") /\ UNCHANGED <<holds, nextHold, now>>
    BY DEF CancelNext, settlementVars
  <2> QED
    BY <2>1 DEF ServiceTyped, At, Idle, Overrun
<1>2. PICK agent, todo, cancelled, time :
        /\ service = [at |-> "cancel", agent |-> agent, time |-> time,
                      todo |-> todo, cancelled |-> cancelled]
        /\ time \in Nat
  BY <1>1, Zenon DEF Publication, At
<1>3. ASSUME UNCHANGED assignments,
             \/ service' = Next("listHolds", {})
             \/ \E a : service' = Next("cancel", service.todo \ {a})
      PROVE  RuntimeInv'
  <2>1. /\ service'.at \in {"listHolds", "cancel"}
        /\ service'.cancelled = cancelled
        /\ Publication(service')
    BY <1>2, <1>3 DEF Next, Publication
  <2>2. WorkTyped' /\ HoldsTyped' /\ ServiceTyped' /\ OutputFollows'
    BY <1>1, <1>3, <2>1
       DEF WorkTyped, HoldsTyped, ServiceTyped, OutputFollows
  <2>3. MemoryIsTrue'
    BY <1>1, <1>2, <1>3, <2>1 DEF MemoryIsTrue, IsCancelled, At
  <2> QED
    BY <2>2, <2>3
<1>4. ASSUME NEW a, CancelCall(a, service.time),
             service' = [service EXCEPT !.todo = @ \ {a},
                                        !.cancelled = @ \cup {a}]
      PROVE  RuntimeInv'
  <2>1. L!CancelIfAssigned(a, time)
    BY <1>2, <1>4 DEF CancelCall
  <2>2. WorkTyped' /\ OutputFollows' /\ CancelledStays /\ IsCancelled(a)'
    <3>1. WorkTyped /\ OutputFollows /\ UNCHANGED now /\ time \in Nat
      BY <1>1, <1>2
    <3> QED
      BY <2>1, <3>1, WorkStep
  <2>3. /\ service'.at = "cancel" /\ service'.cancelled = cancelled \cup {a}
        /\ Publication(service')
    BY <1>2, <1>4 DEF Publication
  <2>4. HoldsTyped' /\ ServiceTyped'
    BY <1>1, <2>2, <2>3 DEF HoldsTyped, ServiceTyped, CancelledStays
  <2>5. MemoryIsTrue'
    BY <1>1, <1>2, <2>2, <2>3 DEF MemoryIsTrue, CancelledStays, IsCancelled, At
  <2> QED
    BY <2>2, <2>4, <2>5
<1> QED
  BY <1>3, <1>4 DEF CancelNext, Goto, liveVars

LEMMA MayRefundTheListed ==
  ASSUME RuntimeInv, RefundNext
  PROVE  /\ RuntimeInv'
         /\ \A h \in DOMAIN holds : holds'[h] # holds[h] =>
              /\ holds'[h].status = "Refunded"
              /\ holds[h].agent = service.agent
              /\ IsCancelled(holds[h].assignment)
<1> USE DEF RuntimeInv
<1>1. /\ At("refund") /\ UNCHANGED <<assignments, now>>
      /\ service \notin {Idle, Overrun} /\ Publication(service)
  BY DEF RefundNext, ServiceTyped, At, Idle, Overrun, liveVars
<1>2. PICK agent, todo, cancelled, time :
        /\ service = [at |-> "refund", agent |-> agent, time |-> time,
                      todo |-> todo, cancelled |-> cancelled]
        /\ time \in Nat
  BY <1>1, Zenon DEF Publication, At
<1>3. ASSUME UNCHANGED settlementVars,
             \/ service' = Next("listTasks", {})
             \/ \E h : service' = Next("refund", service.todo \ {h})
      PROVE  RuntimeInv' /\ UNCHANGED holds
  <2>1. /\ service'.at \in {"listTasks", "refund"}
        /\ service'.agent = agent /\ service'.cancelled = cancelled
        /\ service'.at = "refund" => service'.todo \subseteq todo
        /\ Publication(service')
    BY <1>2, <1>3 DEF Next, Publication
  <2>2. WorkTyped' /\ HoldsTyped' /\ ServiceTyped' /\ OutputFollows'
    BY <1>1, <1>3, <2>1
       DEF WorkTyped, HoldsTyped, ServiceTyped, OutputFollows, settlementVars
  <2>3. MemoryIsTrue'
    BY <1>1, <1>2, <1>3, <2>1
       DEF MemoryIsTrue, IsCancelled, At, settlementVars
  <2> QED
    BY <1>3, <2>2, <2>3 DEF settlementVars
<1>4. ASSUME NEW h \in service.todo, S!Refund(h),
             service' = Next("refund", service.todo \ {h})
      PROVE  /\ RuntimeInv'
             /\ \A g \in DOMAIN holds : holds'[g] # holds[g] =>
                  /\ holds'[g].status = "Refunded"
                  /\ holds[g].agent = service.agent
                  /\ IsCancelled(holds[g].assignment)
  <2>1. /\ service'.at = "refund"
        /\ service'.agent = agent /\ service'.cancelled = cancelled
        /\ service'.todo \subseteq todo
        /\ Publication(service')
    BY <1>2, <1>4 DEF Next, Publication
  <2>2. /\ HoldsTyped' /\ TermsStay
        /\ holds'[h].status = "Refunded"
        /\ \A g \in DOMAIN holds \ {h} : holds'[g] = holds[g]
    BY <1>1, <1>4, RefundStep
  <2>3. WorkTyped' /\ ServiceTyped' /\ OutputFollows'
    BY <1>1, <2>1 DEF WorkTyped, ServiceTyped, OutputFollows
  <2>4. /\ \A a \in cancelled : IsCancelled(a) /\ IsCancelled(a)'
        /\ \A g \in todo : /\ g \in DOMAIN holds
                           /\ holds[g].agent = agent
                           /\ holds[g].assignment \in cancelled
    BY <1>1, <1>2 DEF MemoryIsTrue, IsCancelled, At
  <2>5. MemoryIsTrue'
    BY <2>1, <2>2, <2>4 DEF MemoryIsTrue, TermsStay, At
  <2> QED
    BY <1>2, <1>4, <2>2, <2>3, <2>4, <2>5
<1> QED
  BY <1>3, <1>4 DEF RefundNext, Goto

LEMMA ServiceStep ==
  ASSUME RuntimeInv, Publish \/ CutOff
  PROVE  /\ RuntimeInv'
         /\ \A h \in DOMAIN holds : holds'[h] # holds[h] =>
              /\ holds'[h].status = "Refunded"
              /\ holds[h].agent = service.agent
              /\ IsCancelled(holds[h].assignment)
<1>1. CASE CancelNext
  <2>1. UNCHANGED holds
    BY <1>1 DEF CancelNext, settlementVars
  <2> QED
    BY <1>1, <2>1, MayCancelTheListed
<1>2. CASE RefundNext
  BY <1>2, MayRefundTheListed
<1>3. ASSUME UNCHANGED <<assignments, holds, nextHold, now>>,
             \/ service' \in {Idle, Overrun}
             \/ /\ Publication(service')
                /\ \A a \in service'.cancelled : IsCancelled(a)
                /\ service'.at = "refund" =>
                     \A h \in service'.todo :
                       /\ h \in DOMAIN holds
                       /\ holds[h].agent = service'.agent
                       /\ holds[h].assignment \in service'.cancelled
      PROVE  RuntimeInv' /\ UNCHANGED holds
  BY <1>3 DEF RuntimeInv, WorkTyped, HoldsTyped, ServiceTyped, OutputFollows,
              MemoryIsTrue, IsCancelled, At
<1>4. CASE Begin
  <2>1. \E at \in {"markTimedOut", "markAlive"} : \E agent :
          service' = [at |-> at, agent |-> agent, time |-> now,
                      todo |-> {}, cancelled |-> {}]
    BY <1>4 DEF Begin, Goto
  <2>2. Publication(service')
    BY <2>1 DEF Publication, RuntimeInv, WorkTyped
  <2> QED
    BY <1>3, <1>4, <2>1, <2>2 DEF Begin, coreVars, liveVars, settlementVars
<1>5. CASE \/ MarkRecovered \/ CutOff \/ LogOverrun
           \/ LeaveNext /\ service.todo = {}
  BY <1>3, <1>5 DEF MarkRecovered, LeaveNext, CutOff, LogOverrun, Goto,
                    coreVars, liveVars, settlementVars
<1>6. ASSUME NEW label, NEW rest, NEW old, At(old), old \notin {"idle", "overrun"},
             service' = Next(label, rest),
             UNCHANGED <<assignments, holds, nextHold, now>>,
             label = "refund" =>
                 \A h \in rest :
                   /\ h \in DOMAIN holds
                   /\ holds[h].agent = service.agent
                   /\ holds[h].assignment \in service.cancelled
      PROVE  RuntimeInv' /\ UNCHANGED holds
  <2>1. service \notin {Idle, Overrun} /\ Publication(service)
    BY <1>6 DEF RuntimeInv, ServiceTyped, At, Idle, Overrun
  <2>2. PICK at, agent, todo, cancelled, time :
          /\ service = [at |-> at, agent |-> agent, time |-> time,
                        todo |-> todo, cancelled |-> cancelled]
          /\ time \in Nat
    BY <2>1, Zenon DEF Publication
  <2>3. service' = [at |-> label, agent |-> agent, time |-> time,
                    todo |-> rest, cancelled |-> cancelled]
    BY <1>6, <2>2 DEF Next
  <2>4. \A a \in cancelled : IsCancelled(a)
    BY <2>1, <2>2 DEF RuntimeInv, MemoryIsTrue
  <2> QED
    BY <1>3, <1>6, <2>2, <2>3, <2>4 DEF Publication
<1>7. CASE MarkTimedOut
  BY <1>6, <1>7 DEF MarkTimedOut, Goto, coreVars, liveVars, settlementVars
<1>8. CASE ListAssignments
  BY <1>6, <1>8 DEF ListAssignments, Goto, coreVars, liveVars, settlementVars
<1>9. CASE ListHolds
  BY <1>6, <1>9 DEF ListHolds, Goto, coreVars, liveVars, settlementVars,
                    RefundableHolds, S!ActiveHoldsForAgent, S!ActiveHolds
<1>10. CASE ListTasks
  BY <1>6, <1>10 DEF ListTasks, Goto, coreVars, liveVars, settlementVars
<1>11. CASE LeaveNext /\ service.todo # {}
  BY <1>6, <1>11 DEF LeaveNext, Goto, liveVars, settlementVars
<1> QED
  BY <1>1, <1>2, <1>4, <1>5, <1>7, <1>8, <1>9, <1>10, <1>11 DEF Publish

(* The handlers.                                                           *)
LEMMA HandlerStep ==
  ASSUME RuntimeInv, UNCHANGED service, [RuntimeNext]_runtimeVars,
         ~(Publish \/ CutOff)
  PROVE  RuntimeInv'
<1>1. ASSUME NEW at \in 0 .. now, NEW a,
             Assign(at) \/ SubmitArtifact(a, at)
      PROVE  RuntimeInv'
  <2>1. at \in Nat
    BY DEF RuntimeInv, WorkTyped
  <2>2. WorkTyped' /\ OutputFollows' /\ CancelledStays
    BY <1>1, <2>1, WorkStep DEF Assign, SubmitArtifact, RuntimeInv
  <2>3. UNCHANGED <<holds, nextHold>>
    BY <1>1 DEF Assign, SubmitArtifact, settlementVars
  <2>4. TermsStay /\ HoldsTyped'
    BY <2>2, <2>3 DEF RuntimeInv, HoldsTyped, TermsStay, CancelledStays
  <2> QED
    BY <2>2, <2>4, MemoryStays DEF RuntimeInv, ServiceTyped
<1>2. ASSUME NEW a \in AssignmentId, Hold(a)
      PROVE  RuntimeInv'
  <2>1. UNCHANGED <<assignments, now>>
    BY <1>2 DEF Hold, liveVars
  <2>2. HoldsTyped' /\ TermsStay
    BY <1>2, <2>1, HoldStep DEF Hold, RuntimeInv
  <2> QED
    BY <2>1, <2>2, MemoryStays
       DEF RuntimeInv, WorkTyped, OutputFollows, ServiceTyped, CancelledStays,
           IsCancelled
<1>3. ASSUME NEW h, RefundByHand(h)
      PROVE  RuntimeInv'
  <2>1. UNCHANGED <<assignments, now>>
    BY <1>3 DEF RefundByHand, liveVars
  <2>2. HoldsTyped' /\ TermsStay
    BY <1>3, <2>1, RefundStep DEF RefundByHand, RuntimeInv
  <2> QED
    BY <2>1, <2>2, MemoryStays
       DEF RuntimeInv, WorkTyped, OutputFollows, ServiceTyped, CancelledStays,
           IsCancelled
<1>4. ASSUME UNCHANGED <<assignments, holds, nextHold>>, now' \in Nat
      PROVE  RuntimeInv'
  <2>1. CancelledStays /\ TermsStay
    BY <1>4 DEF CancelledStays, TermsStay, IsCancelled
  <2> QED
    BY <1>4, <2>1, MemoryStays
       DEF RuntimeInv, WorkTyped, HoldsTyped, OutputFollows, ServiceTyped
<1>5. CASE \/ Ping(Worker) \/ MarkAlive(Worker)
           \/ Scan \/ Silence \/ Tick \/ UNCHANGED runtimeVars
           \/ \E at \in 0 .. now : AddParticipant(at)
  <2>1. UNCHANGED <<assignments, holds, nextHold>>
    BY <1>5 DEF Ping, MarkAlive, Scan, Silence, Tick, AddParticipant,
                runtimeVars, coreVars, liveVars, settlementVars
  <2>2. UNCHANGED now \/ now' = now + 1
    BY <1>5 DEF Ping, MarkAlive, Scan, Silence, Tick, AddParticipant,
                runtimeVars
  <2> QED
    BY <1>4, <2>1, <2>2 DEF RuntimeInv, WorkTyped
<1> QED
  BY <1>1, <1>2, <1>3, <1>5 DEF RuntimeNext

LEMMA OthersLeaveServiceAlone ==
  ASSUME [RuntimeNext]_runtimeVars, ~(Publish \/ CutOff)
  PROVE  UNCHANGED service
BY DEF RuntimeNext, runtimeVars, serviceVars, Ping, MarkAlive, Scan, Silence,
       Tick, Assign, SubmitArtifact, AddParticipant, Hold, RefundByHand

LEMMA RuntimeStep ==
  RuntimeInv /\ [RuntimeNext]_runtimeVars => RuntimeInv'
BY ServiceStep, HandlerStep, OthersLeaveServiceAlone

LEMMA RuntimeStart == RuntimeInit => RuntimeInv
<1> SUFFICES ASSUME RuntimeInit PROVE RuntimeInv
  OBVIOUS
<1>1. assignments \in [1 .. 0 -> WorkRecord] /\ now \in Nat
  BY DEF RuntimeInit
<1>2. holds \in [1 .. 0 -> S!Hold] /\ nextHold = 0 /\ DOMAIN holds = {}
  BY DEF RuntimeInit
<1>3. service = Idle /\ DOMAIN assignments = {}
  BY DEF RuntimeInit
<1> QED
  BY <1>1, <1>2, <1>3
     DEF RuntimeInv, WorkTyped, HoldsTyped, ServiceTyped, OutputFollows,
         MemoryIsTrue

LEMMA RuntimeInvariant == RuntimeSpec => []RuntimeInv
BY RuntimeStart, RuntimeStep, PTL DEF RuntimeSpec

(* Work that was handed in keeps its output and its status, and work that  *)
(* the service gave up has none: a heartbeat, a late handler and a cut off *)
(* publication may come in any order (runtime/core.rs:88-116).             *)
THEOREM DeliveredWorkStays == RuntimeSpec => []DeliveredWorkIsKept
<1>1. RuntimeInv => DeliveredWorkIsKept
  BY DEF RuntimeInv, OutputFollows, DeliveredWorkIsKept
<1> QED
  BY <1>1, RuntimeInvariant, PTL

(* The service refunds only money held for the silent agent, for work that *)
(* it has itself given up (runtime/core.rs:85-152).                        *)
THEOREM RefundsAreForAbandonedWork == RuntimeSpec => OnlyAbandonedWorkIsRefunded
<1> DEFINE Fair == \A h \in S!ActiveHolds :
             service' # service /\ holds'[h] # holds[h] =>
               /\ holds'[h].status = "Refunded"
               /\ holds[h].agent = service.agent
               /\ assignments[holds[h].assignment].status = "Cancelled"
               /\ assignments[holds[h].assignment].output = NoOutput
<1>1. RuntimeInv /\ [RuntimeNext]_runtimeVars => [Fair]_runtimeVars
  <2> SUFFICES ASSUME RuntimeInv, [RuntimeNext]_runtimeVars PROVE Fair
    OBVIOUS
  <2>1. \A h \in S!ActiveHolds : h \in DOMAIN holds
    BY DEF S!ActiveHolds
  <2>2. \A a : IsCancelled(a) => assignments[a].output = NoOutput
    BY DEF RuntimeInv, OutputFollows, IsCancelled
  <2>3. CASE Publish \/ CutOff
    BY <2>1, <2>2, <2>3, ServiceStep DEF IsCancelled
  <2>4. CASE ~(Publish \/ CutOff)
    BY <2>4, OthersLeaveServiceAlone
  <2> QED
    BY <2>3, <2>4
<1> QED
  BY <1>1, RuntimeInvariant, PTL DEF RuntimeSpec, OnlyAbandonedWorkIsRefunded

-----------------------------------------------------------------------------
(* Money.  Every step of the runtime and of the handlers is one of         *)
(* Settlement or none.                                                     *)

LEMMA SameMoney ==
  /\ \A request \in S!HoldRequest :
       request \in C!HoldRequest /\ (S!CreateHold(request) => C!CreateHold(request))
  /\ \A h : S!Refund(h) => C!Refund(h)
<1>1. \A request \in S!HoldRequest :
        request \in C!HoldRequest /\ (S!CreateHold(request) => C!CreateHold(request))
  BY DEF S!HoldRequest, C!HoldRequest, S!HoldKind, C!HoldKind,
         S!CreateHold, C!CreateHold, S!NextHoldId, C!NextHoldId,
         S!CanPay, C!CanPay, S!Taken, C!Taken, S!ActiveHolds, C!ActiveHolds,
         S!Debit, C!Debit
<1>2. \A h, to, status : S!Settle(h, to, status) => C!Settle(h, to, status)
  BY DEF S!Settle, C!Settle, S!IsActive, C!IsActive, S!CanCredit, C!CanCredit,
         S!Credit, C!Credit
<1>3. \A h : S!Refund(h) => C!Refund(h)
  BY <1>2 DEF S!Refund, C!Refund
<1> QED
  BY <1>1, <1>3

LEMMA MoneyMoves ==
  ASSUME C!SettlementTypeOK, [RuntimeNext]_runtimeVars
  PROVE  [C!SettlementNext]_(C!settlementVars)
<1>1. UNCHANGED settlementVars => UNCHANGED C!settlementVars
  BY DEF settlementVars, C!settlementVars
<1>2. ASSUME NEW h, S!Refund(h)
      PROVE  C!SettlementNext
  <2>1. h \in C!HoldId
    BY <1>2, RuntimeAssumption DEF S!Refund, C!SettlementTypeOK, C!HoldId
  <2> QED
    BY <1>2, <2>1, SameMoney DEF C!SettlementNext
<1>3. ASSUME NEW a \in AssignmentId, Hold(a)
      PROVE  C!SettlementNext
  <2> DEFINE request == [from |-> Publisher, amount |-> Price, task |-> Task,
                         assignment |-> a, agent |-> Worker, kind |-> "Execute"]
  <2>1. request \in S!HoldRequest
    BY DEF S!HoldRequest, S!HoldKind, Agents
  <2>2. S!CreateHold(request)
    BY <1>3 DEF Hold
  <2> HIDE DEF request
  <2> QED
    BY <2>1, <2>2, SameMoney DEF C!SettlementNext
<1>4. CASE Publish \/ CutOff
  <2>1. (\E h : S!Refund(h)) \/ UNCHANGED settlementVars
    BY <1>4 DEF Publish, CutOff, Begin, MarkRecovered, MarkTimedOut,
       ListAssignments, CancelNext, ListHolds, RefundNext, ListTasks,
       LeaveNext, LogOverrun, coreVars
  <2> QED
    BY <1>1, <1>2, <2>1
<1>5. CASE ~(Publish \/ CutOff)
  <2>1. \/ \E a \in AssignmentId : Hold(a)
        \/ \E h : S!Refund(h)
        \/ UNCHANGED settlementVars
    BY <1>5 DEF RuntimeNext, runtimeVars, coreVars, Ping, MarkAlive, Scan,
       Silence, Tick, Assign, SubmitArtifact, AddParticipant, RefundByHand
  <2> QED
    BY <1>1, <1>2, <1>3, <2>1
<1> QED
  BY <1>4, <1>5

LEMMA RuntimeAccounts == RuntimeSpec => []C!Accounting
<1>1. RuntimeInit => C!Accounting
  <2> SUFFICES ASSUME RuntimeInit PROVE C!Accounting
    OBVIOUS
  <2>1. /\ Publisher \in Agents /\ Funds \in {Price, Funds} \ {0}
        /\ Funds <= Funds
    BY RuntimeAssumption DEF Agents
  <2> QED
    BY <2>1, CoreAssumptions, C!OneDepositIsAccounted DEF RuntimeInit
<1>2. C!Accounting /\ [RuntimeNext]_runtimeVars => C!Accounting'
  BY MoneyMoves, CoreAssumptions, C!NextKeepsAccounting DEF C!Accounting
<1> QED
  BY <1>1, <1>2, PTL DEF RuntimeSpec

(* Whatever falls silent, recovers, comes late or is cut off, what was     *)
(* deposited is on an account or in an active hold, at most one of them    *)
(* for a piece of work, and the ledger tells of every hold once how it was *)
(* opened and closed (settlement/core.rs:24-165; runtime/core.rs:67-189).  *)
THEOREM SilenceLosesNoMoney ==
  RuntimeSpec => [](/\ C!FundsConserved /\ C!OneActiveHoldPerSlot
                    /\ C!LedgerMatchesHolds)
<1>1. C!Accounting =>
        /\ C!FundsConserved /\ C!OneActiveHoldPerSlot
        /\ C!LedgerMatchesHolds
  BY DEF C!Accounting
<1> QED
  BY <1>1, RuntimeAccounts, PTL

(* The same where the runtime races with the publisher for a refund        *)
(* (settlement/core.rs:140-165; runtime/core.rs:130-152).                  *)
THEOREM RefundedAtMostOnce == RuntimeSpec => C!SettledHoldsAreFinal
<1>1. C!Accounting /\ [RuntimeNext]_runtimeVars
        => [\A h \in DOMAIN holds : C!HoldEvolves(h)]_(C!settlementVars)
  BY MoneyMoves, CoreAssumptions, C!NextEvolves DEF C!Accounting
<1> QED
  BY <1>1, RuntimeAccounts, PTL
     DEF RuntimeSpec, C!SettledHoldsAreFinal

=============================================================================
