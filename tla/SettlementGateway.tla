-------------------------- MODULE SettlementGateway --------------------------
(***************************************************************************)
(* The payment of reviewed work: the HTTP handlers of src/server/app.rs    *)
(* that touch an assignment, a review or a hold, and the SettlementGateway *)
(* (src/settlement/gateway.rs) they call, over the three core services     *)
(* Settlement, LiveSession and Review.                                     *)
(*                                                                         *)
(* Each service runs one call at a time, and a handler awaits every call,  *)
(* so one step of a handler is one call that reads something which may     *)
(* change, or that writes.  Reads of what never changes (the terms of a    *)
(* hold or an assignment, the publisher of a task) are merged with the     *)
(* next step.  All calls happen at one instant of LiveSession's clock, so  *)
(* that no time stamp is refused here.                                     *)
(***************************************************************************)
EXTENDS Naturals, Sequences, FiniteSets

CONSTANTS
  Publisher, Worker, Reviewer,   \* three agents
  Task,                          \* the one task, published by Publisher
  Handlers,                      \* requests that may be served at once
  Funds,                         \* what the publisher has deposited
  MaxAssignments, MaxReviews, MaxHolds,   \* bounds of the model
  ReviewTimes,                   \* times a review may be requested at
  ByHand,                        \* settlements asked for by hand
  HoldsFirst,                    \* the publisher asks for a review only when
                                 \* the work is submitted and held for
  Drops,                         \* a client may disconnect, which drops the
                                 \* handler of its request
  KeysExpire                     \* a retry may take over the key of a handler
                                 \* that is still at work

Agents == {Publisher, Worker, Reviewer}
Operations == {"ReleaseExecute", "ReleaseReview", "Refund"}

ASSUME GatewayAssumption ==
  /\ Cardinality(Agents) = 3
  /\ Funds \in Nat \ {0} /\ ReviewTimes \subseteq Nat
  /\ MaxAssignments \in Nat /\ MaxReviews \in Nat /\ MaxHolds \in Nat
  /\ ByHand \subseteq Operations
  /\ HoldsFirst \in BOOLEAN /\ Drops \in BOOLEAN /\ KeysExpire \in BOOLEAN

VARIABLES
  sessions, assignments, reply,         \* LiveSession
  reviews,                              \* Review
  holds, balances, ledger, nextHold,    \* Settlement
  handlers                              \* where every handler stands

AssignmentId == 1 .. MaxAssignments
Price == 1                              \* what every hold is for
Output == "artifact"
NoOutput == "no output"

L == INSTANCE LiveSession WITH
       Tasks <- {Task}, Outputs <- {Output}, MaxTime <- 0, MaxSessions <- 1

R == INSTANCE Review WITH
       Reviewers <- AssignmentId, Targets <- AssignmentId, PriorReviews <- 0

S == INSTANCE Settlement WITH
       Tasks <- {Task}, Assignments <- AssignmentId, Reviews <- R!ReviewId,
       Amounts <- {Price, Funds}, MaxBalance <- Funds, MaxDeposits <- 1

liveVars == <<sessions, assignments, reply>>
settlementVars == <<holds, balances, ledger, nextHold>>
gatewayVars == <<liveVars, reviews, settlementVars, handlers>>

-----------------------------------------------------------------------------
(* A handler is idle, or it waits for its turn at the call named by `at`.  *)

Idle == [at |-> "idle"]

Goto(x, state) == handlers' = [handlers EXCEPT ![x] = state]

Start(x, state) == handlers[x] = Idle /\ Goto(x, state)

Finish(x) == Goto(x, Idle)

At(x, label) == handlers[x].at = label

Work(assignment) == assignments[assignment].target

Delivered == {"Submitted", "Approved"}

(* Execute work is paid by Execute holds, reviews by Review holds.         *)
KindOf(assignment) ==
  IF assignments[assignment].target = L!NoTarget THEN "Execute" ELSE "Review"

(* Where a handler can stand.  The settlement that follows a verdict       *)
(* starts with the review holds; an error in it is only logged.  `auto`    *)
(* tells it from one that is asked for by hand.                            *)
Recorded(review, by) == [at |-> "finishKey", review |-> review, by |-> by]

ReviewHolds(review, by) ==
  [at |-> "reviewHolds", review |-> review, by |-> by]

PayReview(label, auto, review, hold) ==
  [at |-> label, auto |-> auto, review |-> review, hold |-> hold]

ExecuteHolds(by) == [at |-> "executeHolds", by |-> by]

PayExecute(label, hold) == [at |-> label, hold |-> hold]

-----------------------------------------------------------------------------
(* Handlers that change one service, after reads of what never changes.    *)

Assign(target) ==
  /\ L!Assign(Task, 1, Reviewer, target, 0)
  /\ target # L!NoTarget
  /\ UNCHANGED <<reviews, settlementVars, handlers>>

SubmitArtifact(a) ==
  /\ a \in DOMAIN assignments
  /\ L!SubmitOutput(a, assignments[a].agent, Output, 0)
  /\ UNCHANGED <<reviews, settlementVars, handlers>>

(* The runtime cancels what an agent that timed out had not delivered.     *)
CancelIfAssigned(a) ==
  /\ L!CancelIfAssigned(a, 0)
  /\ UNCHANGED <<reviews, settlementVars, handlers>>

(* fault: the payee of a hold is whom the caller names.                    *)
AnyPayee(request) ==
  /\ request.assignment \in DOMAIN assignments
  /\ request.kind = KindOf(request.assignment)

(* validate_hold_request; the payer is the caller, whoever that is.        *)
ValidHold(request) ==
  /\ request.assignment \in DOMAIN assignments
  /\ request.task = assignments[request.assignment].task
  /\ request.agent = assignments[request.assignment].agent
  /\ request.kind = KindOf(request.assignment)

Hold(request) ==
  /\ ValidHold(request)
  /\ HoldsFirst => DOMAIN reviews = {}
  /\ S!CreateHold(request)
  /\ UNCHANGED <<liveVars, reviews, handlers>>

(* validate_review_request.                                                *)
ValidReview(target, members) ==
  /\ target \in DOMAIN assignments
  /\ L!IsExecute(target)
  /\ members \subseteq L!ReviewAssignmentsForTarget(target)

WorkIsHeldFor(target) ==
  /\ assignments[target].status \in Delivered
  /\ S!ActiveHoldsForAssignment(target, "Execute") # {}

RequestReview(target, members, at) ==
  /\ ValidReview(target, members)
  /\ HoldsFirst => WorkIsHeldFor(target)
  /\ R!RequestReview(target, members, at)
  /\ UNCHANGED <<liveVars, settlementVars, handlers>>

(* require_hold_payer_or_publisher.                                        *)
MaySettle(caller, h) ==
  /\ h \in DOMAIN holds
  /\ caller \in {holds[h].from, Publisher}

Refund(h, caller) ==
  /\ "Refund" \in ByHand
  /\ MaySettle(caller, h)
  /\ S!Refund(h)
  /\ UNCHANGED <<liveVars, reviews, handlers>>

-----------------------------------------------------------------------------
(* submit_review: read the review assignment, record the verdict, finish   *)
(* the key, settle.  The evidence is what was read: a call that read an    *)
(* assignment without an artifact ends in an error and without an effect.  *)

BeginSubmitReview(x, review, by, kind) ==
  /\ by \in DOMAIN assignments
  /\ KindOf(by) = "Review"
  /\ assignments[by].status = "Submitted"
  /\ Start(x, [at |-> "verdict", review |-> review, kind |-> kind,
               evidence |-> R!Evidence(by, assignments[by].status,
                              assignments[by].output # NoOutput)])
  /\ UNCHANGED <<liveVars, reviews, settlementVars>>

RecordVerdict(x) ==
  /\ At(x, "verdict")
  /\ LET call == handlers[x]
     IN  \/ /\ R!SubmitVerdict(call.review, call.evidence, call.kind)
            /\ Goto(x, Recorded(call.review, call.evidence.by))
         \/ /\ ~R!CanSubmitVerdict(call.review, call.evidence)
            /\ Finish(x)
            /\ UNCHANGED reviews
  /\ UNCHANGED <<liveVars, settlementVars>>

(* finish_idempotency.  It is refused when the key was taken over since,   *)
(* and the error ends the handler before it settles.                       *)
FinishKey(x) ==
  /\ At(x, "finishKey")
  /\ \/ Goto(x, ReviewHolds(handlers[x].review, handlers[x].by))
     \/ KeysExpire /\ Finish(x)
  /\ UNCHANGED <<liveVars, reviews, settlementVars>>

(* A replayed submit_review settles once more.  The key only has to be one *)
(* of the caller's completed ones: what is named now may differ from what  *)
(* was recorded then.                                                      *)
ReplaySubmitReview(x, review, by) ==
  /\ by \in DOMAIN assignments
  /\ KindOf(by) = "Review"
  /\ \E r \in DOMAIN reviews, earlier \in DOMAIN assignments :
       /\ R!HasJudged(r, earlier)
       /\ assignments[earlier].agent = assignments[by].agent
  /\ Start(x, ReviewHolds(review, by))
  /\ UNCHANGED <<liveVars, reviews, settlementVars>>

(* fault: without a hold for the reviewer there is nothing left to settle. *)
DoneWithoutReviewHold(by) == Idle

NoReviewHold(by) == ExecuteHolds(by)

(* The two loops of settle_after_review_submission over the active holds   *)
(* of an assignment run at most once: Settlement allows no second hold.    *)
ListReviewHolds(x) ==
  /\ At(x, "reviewHolds")
  /\ LET call == handlers[x]
         found == S!ActiveHoldsForAssignment(call.by, "Review")
     IN  \/ found = {} /\ Goto(x, NoReviewHold(call.by))
         \/ \E h \in found :
              Goto(x, PayReview("reviewStatus", TRUE, call.review, h))
  /\ UNCHANGED <<liveVars, reviews, settlementVars>>

ListExecuteHolds(x) ==
  /\ At(x, "executeHolds")
  /\ LET found == S!ActiveHoldsForAssignment(Work(handlers[x].by), "Execute")
     IN  \/ found = {} /\ Finish(x)
         \/ \E h \in found : Goto(x, PayExecute("executeStatus", h))
  /\ UNCHANGED <<liveVars, reviews, settlementVars>>

-----------------------------------------------------------------------------
(* release_review_after_submission.  An error ends the handler, and with   *)
(* it the settlement of the execute hold.                                  *)

BeginReleaseReview(x, h, review, caller) ==
  /\ "ReleaseReview" \in ByHand
  /\ MaySettle(caller, h) /\ holds[h].kind = "Review"
  /\ Start(x, PayReview("reviewStatus", FALSE, review, h))
  /\ UNCHANGED <<liveVars, reviews, settlementVars>>

ReadReviewStatus(x) ==
  /\ At(x, "reviewStatus")
  /\ LET call == handlers[x]
         status == assignments[holds[call.hold].assignment].status
     IN  IF status \in Delivered
         THEN Goto(x, [call EXCEPT !.at = "reviewVerdict"])
         ELSE Finish(x)
  /\ UNCHANGED <<liveVars, reviews, settlementVars>>

(* fault: it is enough that the session asked for the verdict.             *)
VerdictAskedFor(review, by) ==
  /\ review \in DOMAIN reviews
  /\ by \in reviews[review].members
  /\ reviews[review].target = Work(by)

VerdictGiven(review, by) ==
  /\ review \in DOMAIN reviews
  /\ R!HasJudged(review, by)
  /\ reviews[review].target = Work(by)

ReadReviewVerdict(x) ==
  /\ At(x, "reviewVerdict")
  /\ LET call == handlers[x]
     IN  IF VerdictGiven(call.review, holds[call.hold].assignment)
         THEN Goto(x, [call EXCEPT !.at = "reviewPay"])
         ELSE Finish(x)
  /\ UNCHANGED <<liveVars, reviews, settlementVars>>

ReleaseReviewHold(x) ==
  /\ At(x, "reviewPay")
  /\ LET call == handlers[x]
         hold == holds[call.hold]
         evidence == [kind |-> "ReviewSubmitted", task |-> hold.task,
                      assignment |-> hold.assignment, review |-> call.review]
     IN  \/ /\ S!Release(call.hold, evidence)
            /\ Goto(x, IF call.auto THEN ExecuteHolds(hold.assignment) ELSE Idle)
         \/ /\ ~S!IsActive(call.hold)
            /\ Finish(x)
            /\ UNCHANGED settlementVars
  /\ UNCHANGED <<liveVars, reviews>>

-----------------------------------------------------------------------------
(* release_execute_after_reviews.  Whether it ends with "not ready yet" or *)
(* with another error, there is nothing left to do after it.               *)

BeginReleaseExecute(x, h, caller) ==
  /\ "ReleaseExecute" \in ByHand
  /\ MaySettle(caller, h) /\ holds[h].kind = "Execute"
  /\ Start(x, PayExecute("executeStatus", h))
  /\ UNCHANGED <<liveVars, reviews, settlementVars>>

ReadExecuteStatus(x) ==
  /\ At(x, "executeStatus")
  /\ LET call == handlers[x]
         status == assignments[holds[call.hold].assignment].status
     IN  IF status \in Delivered
         THEN Goto(x, [call EXCEPT !.at = "executeReviewers"])
         ELSE Finish(x)
  /\ UNCHANGED <<liveVars, reviews, settlementVars>>

ReadReviewers(x) ==
  /\ At(x, "executeReviewers")
  /\ LET call == handlers[x]
         found == L!ReviewAssignmentsForTarget(holds[call.hold].assignment)
     IN  IF found # {}
         THEN Goto(x, [at |-> "executeSessions", hold |-> call.hold,
                       ready |-> {a \in found :
                                    assignments[a].status \in Delivered}])
         ELSE Finish(x)
  /\ UNCHANGED <<liveVars, reviews, settlementVars>>

(* fault: nobody has objected so far.                                      *)
NobodyObjects(review, ready) ==
  /\ reviews[review].members # {}
  /\ \A by \in reviews[review].members :
       by \in ready /\ (R!HasJudged(review, by) => R!Verdict(review, by) = "Passed")

(* validate_review_session_passed, with the assignments read before.       *)
AllPassed(review, ready) ==
  /\ reviews[review].members # {}
  /\ \A by \in reviews[review].members :
       by \in ready /\ R!HasJudged(review, by) /\ R!Verdict(review, by) = "Passed"

ReadSessions(x) ==
  /\ At(x, "executeSessions")
  /\ LET call == handlers[x]
         found == R!SessionsOf(holds[call.hold].assignment)
     IN  IF found # {} /\ AllPassed(R!Latest(found), call.ready)
         THEN Goto(x, [at |-> "executePay", hold |-> call.hold,
                       review |-> R!Latest(found)])
         ELSE Finish(x)
  /\ UNCHANGED <<liveVars, reviews, settlementVars>>

ReleaseExecuteHold(x) ==
  /\ At(x, "executePay")
  /\ LET call == handlers[x]
         hold == holds[call.hold]
         evidence == [kind |-> "AssignmentOutputAccepted", task |-> hold.task,
                      assignment |-> hold.assignment, reviews |-> {call.review}]
     IN  \/ S!Release(call.hold, evidence)
         \/ ~S!IsActive(call.hold) /\ UNCHANGED settlementVars
  /\ Finish(x)
  /\ UNCHANGED <<liveVars, reviews>>

(* The client closes its connection and the server drops the handler at    *)
(* the call it was waiting for.                                            *)
Drop(x) ==
  /\ Drops
  /\ handlers[x] # Idle
  /\ Finish(x)
  /\ UNCHANGED <<liveVars, reviews, settlementVars>>

-----------------------------------------------------------------------------

(* What create_session has made of the task, and deposit of the funds.     *)
SessionCreated ==
  sessions = [s \in {1} |->
                [task |-> Task, status |-> "Running", updatedAt |-> 0]]

Deposited ==
  /\ balances = [a \in Agents |-> IF a = Publisher THEN Funds ELSE 0]
  /\ ledger = <<[kind |-> "Deposited", agent |-> Publisher, amount |-> Funds]>>

(* The task has a running session in which the work was given to Worker,   *)
(* and the publisher has made its deposit.                                 *)
GatewayInit ==
  /\ SessionCreated
  /\ Deposited
  /\ assignments = [a \in {1} |->
                       [task |-> Task, session |-> 1, agent |-> Worker,
                        target |-> L!NoTarget, status |-> "Assigned",
                        output |-> NoOutput, updatedAt |-> 0]]
  /\ reply = "Ok"
  /\ R!ReviewInit
  /\ holds = [h \in {} |-> {}]
  /\ nextHold = 0
  /\ handlers = [x \in Handlers |-> Idle]

(* The requests that are one step, and those that are several.             *)
Call ==
  \/ \E target \in AssignmentId : Assign(target)
  \/ \E a \in AssignmentId : SubmitArtifact(a)
  \/ \E a \in AssignmentId : CancelIfAssigned(a)
  \/ \E request \in {r \in S!HoldRequest : r.amount = Price} : Hold(request)
  \/ \E target \in AssignmentId, members \in SUBSET AssignmentId,
        at \in ReviewTimes : RequestReview(target, members, at)
  \/ \E h \in S!HoldId, caller \in Agents : Refund(h, caller)

Begin(x) ==
  \/ \E review \in R!ReviewId, by \in AssignmentId, kind \in R!VerdictKind :
       BeginSubmitReview(x, review, by, kind)
  \/ \E review \in R!ReviewId, by \in AssignmentId :
       ReplaySubmitReview(x, review, by)
  \/ \E h \in S!HoldId, review \in R!ReviewId, caller \in Agents :
       BeginReleaseReview(x, h, review, caller)
  \/ \E h \in S!HoldId, caller \in Agents : BeginReleaseExecute(x, h, caller)

Proceed(x) ==
  \/ RecordVerdict(x)
  \/ FinishKey(x)
  \/ ListReviewHolds(x)
  \/ ReadReviewStatus(x)
  \/ ReadReviewVerdict(x)
  \/ ReleaseReviewHold(x)
  \/ ListExecuteHolds(x)
  \/ ReadExecuteStatus(x)
  \/ ReadReviewers(x)
  \/ ReadSessions(x)
  \/ ReleaseExecuteHold(x)

GatewayNext ==
  \/ Call
  \/ \E x \in Handlers : Begin(x) \/ Proceed(x) \/ Drop(x)

GatewaySpec == GatewayInit /\ [][GatewayNext]_gatewayVars

(* The scheduler of the runtime resumes every handler that is not dropped. *)
FairGatewaySpec ==
  GatewaySpec /\ \A x \in Handlers : WF_gatewayVars(Proceed(x))

-----------------------------------------------------------------------------
(* Properties.                                                             *)

(* Every hold, settled or not, is for an existing assignment, names its    *)
(* agent as the payee and is of its kind: who is paid for what cannot      *)
(* drift from who was assigned to what (app.rs:959-986).                   *)
HoldsNameTheirWork ==
  \A h \in DOMAIN holds :
    /\ holds[h].assignment \in DOMAIN assignments
    /\ holds[h].agent = assignments[holds[h].assignment].agent
    /\ holds[h].kind = KindOf(holds[h].assignment)

Accepted(review) ==
  /\ reviews[review].members # {}
  /\ \A by \in reviews[review].members :
       /\ assignments[by].status \in Delivered
       /\ R!HasJudged(review, by) /\ R!Verdict(review, by) = "Passed"

(* Work is only paid after it was delivered and a whole session of         *)
(* reviewers passed it, although the statuses, the session and the hold    *)
(* are read in different calls and requests race (gateway.rs:103-187).     *)
PaidWorkWasAccepted ==
  \A h \in DOMAIN holds :
    holds[h].kind = "Execute" /\ holds[h].status = "Released" =>
      /\ assignments[holds[h].assignment].status \in Delivered
      /\ \E r \in R!SessionsOf(holds[h].assignment) : Accepted(r)

(* A review is only paid when its reviewer delivered it and gave a verdict *)
(* on the very work it was assigned to review (gateway.rs:189-281).        *)
PaidReviewWasGiven ==
  \A h \in DOMAIN holds :
    holds[h].kind = "Review" /\ holds[h].status = "Released" =>
      LET by == holds[h].assignment
      IN  /\ assignments[by].status \in Delivered
          /\ \E r \in R!SessionsOf(Work(by)) : R!HasJudged(r, by)

(* An active hold for work that its latest review session accepts.         *)
IsDue(h) ==
  /\ h \in S!ActiveHolds
  /\ holds[h].kind = "Execute"
  /\ LET work == holds[h].assignment
     IN  /\ assignments[work].status \in Delivered
         /\ R!SessionsOf(work) # {}
         /\ Accepted(R!Latest(R!SessionsOf(work)))

(* When the latest session of held, delivered work has passed it, the hold *)
(* does not stay as it is: the verdict that completes the session makes    *)
(* the platform release it, whatever the publisher does afterwards         *)
(* (gateway.rs:40-101; design/settlement/overview.md:91, 120).             *)
DueWorkIsPaid == \A h \in S!HoldId : IsDue(h) ~> ~IsDue(h)

=============================================================================
