---------------------------- MODULE GatewayProofs ----------------------------
(***************************************************************************)
(* What the handlers that pay never do, for any three agents, all numbers  *)
(* of assignments, holds, reviews and handlers at once, and every order in *)
(* which their calls reach the three cores.  That due work does get paid   *)
(* is a liveness property and left to the model checker.                   *)
(*                                                                         *)
(* A handler acts on what it has read some calls ago.  The invariant says  *)
(* that what it remembers is still so when it acts (HandlersStand), which  *)
(* needs that work, reviews and holds only move on (EverythingStays); and  *)
(* that whatever has been paid was earned (PaidIsEarned), which is about   *)
(* the cores alone and so outlives the handler.                            *)
(***************************************************************************)
EXTENDS SettlementGateway, FiniteSetTheorems, TLAPS

C == INSTANCE CoreProofs WITH
       Tasks <- {Task}, Assignments <- AssignmentId, Reviews <- R!ReviewId,
       Amounts <- {Price, Funds}, MaxBalance <- Funds, MaxDeposits <- 1,
       Reviewers <- AssignmentId, Targets <- AssignmentId, PriorReviews <- 0

(* The assumptions of the core modules hold of these instances.            *)
LEMMA CoreAssumptions ==
  /\ ReviewTimes \subseteq Nat /\ MaxReviews \in Nat /\ 0 \in 0 .. MaxReviews
  /\ {Price, Funds} \subseteq Nat
  /\ Funds \in Nat /\ 1 \in Nat /\ MaxHolds \in Nat
  /\ C!IsFiniteSet(Agents)
<1>1. IsFiniteSet({Publisher}) /\ IsFiniteSet({Worker}) /\ IsFiniteSet({Reviewer})
  BY FS_Singleton
<1>2. IsFiniteSet(({Publisher} \cup {Worker}) \cup {Reviewer})
  BY <1>1, FS_Union
<1>3. ({Publisher} \cup {Worker}) \cup {Reviewer} = Agents
  BY DEF Agents
<1>4. C!IsFiniteSet(Agents)
  BY <1>2, <1>3 DEF IsFiniteSet, C!IsFiniteSet
<1> QED
  BY <1>4, GatewayAssumption DEF Price

-----------------------------------------------------------------------------
(* The invariant.                                                          *)

WorkRecord ==
  [task : {Task}, session : {1}, agent : Agents, target : Nat,
   status : L!AssignmentStatus, output : {Output, NoOutput}, updatedAt : {0}]

WorkTyped == \E n \in Nat : assignments \in [1 .. n -> WorkRecord]

HoldsTyped ==
  /\ nextHold \in Nat
  /\ holds \in [1 .. nextHold -> S!Hold]

MembersExist ==
  \A r \in DOMAIN reviews : reviews[r].members \subseteq DOMAIN assignments

IsDelivered(a) ==
  /\ a \in DOMAIN assignments
  /\ assignments[a].status \in Delivered

(* A session for this work in which everybody passed it.                   *)
AcceptedIn(r, work) == r \in R!SessionsOf(work) /\ Accepted(r)

HoldOf(call) == holds[call.hold]

(* A handler that is about to pay a review knows of its hold, then that    *)
(* the review is delivered, then that the verdict was given.               *)
StandsByReview(call) ==
  call.at \in {"reviewStatus", "reviewVerdict", "reviewPay"} =>
    /\ call = PayReview(call.at, call.auto, call.review, call.hold)
    /\ call.hold \in DOMAIN holds /\ HoldOf(call).kind = "Review"
    /\ call.at # "reviewStatus" => IsDelivered(HoldOf(call).assignment)
    /\ call.at = "reviewPay" =>
         VerdictGiven(call.review, HoldOf(call).assignment)

(* One that is about to pay for work learns in turn that it is delivered,  *)
(* which reviews of it are, and of a session that accepts it.              *)
StandsByWork(call) ==
  call.at \in {"executeStatus", "executeReviewers",
               "executeSessions", "executePay"} =>
    /\ call.at \in {"executeStatus", "executeReviewers"} =>
         call = PayExecute(call.at, call.hold)
    /\ call.hold \in DOMAIN holds /\ HoldOf(call).kind = "Execute"
    /\ call.at # "executeStatus" => IsDelivered(HoldOf(call).assignment)
    /\ call.at = "executeSessions" => \A a \in call.ready : IsDelivered(a)
    /\ call.at = "executePay" =>
         AcceptedIn(call.review, HoldOf(call).assignment)

Standing(call) ==
  /\ call.at = "verdict" => call.kind \in R!VerdictKind
  /\ StandsByReview(call)
  /\ StandsByWork(call)

HandlersStand ==
  /\ handlers = [x \in Handlers |-> handlers[x]]
  /\ \A x \in Handlers : Standing(handlers[x])

(* What has to be so before a hold is released.                            *)
ReviewEarned(h) ==
  LET by == holds[h].assignment
  IN  IsDelivered(by) /\ \E r \in DOMAIN reviews : VerdictGiven(r, by)

WorkEarned(h) ==
  LET work == holds[h].assignment
  IN  IsDelivered(work) /\ \E r \in DOMAIN reviews : AcceptedIn(r, work)

Earned(h) ==
  /\ holds[h].kind = "Review" => ReviewEarned(h)
  /\ holds[h].kind = "Execute" => WorkEarned(h)

PaidIsEarned == \A h \in DOMAIN holds : holds[h].status = "Released" => Earned(h)

GatewayInv ==
  /\ WorkTyped /\ HoldsTyped /\ C!ReviewInv
  /\ MembersExist /\ HoldsNameTheirWork
  /\ HandlersStand /\ PaidIsEarned

-----------------------------------------------------------------------------
(* What every step leaves as it was, so that what a handler has read stays *)
(* good until it pays.                                                     *)

WorkStays ==
  \A a \in DOMAIN assignments :
    /\ a \in DOMAIN assignments'
    /\ assignments'[a].agent = assignments[a].agent
    /\ assignments'[a].target = assignments[a].target
    /\ assignments[a].status \in Delivered => assignments'[a].status \in Delivered

JudgementsStay(r) ==
  \A by : R!HasJudged(r, by) =>
            R!HasJudged(r, by)' /\ R!Verdict(r, by)' = R!Verdict(r, by)

ReviewsStay ==
  \A r \in DOMAIN reviews :
    /\ r \in DOMAIN reviews'
    /\ reviews'[r].target = reviews[r].target
    /\ reviews'[r].members = reviews[r].members
    /\ JudgementsStay(r)

HoldsStay ==
  \A h \in DOMAIN holds :
    /\ h \in DOMAIN holds'
    /\ holds'[h].assignment = holds[h].assignment
    /\ holds'[h].agent = holds[h].agent
    /\ holds'[h].kind = holds[h].kind

EverythingStays == WorkStays /\ ReviewsStay /\ HoldsStay

LEMMA DeliveredStays ==
  ASSUME WorkStays, NEW a, IsDelivered(a)
  PROVE  IsDelivered(a)'
BY DEF WorkStays, IsDelivered

LEMMA VerdictStays ==
  ASSUME WorkStays, ReviewsStay, NEW r, NEW by \in DOMAIN assignments,
         VerdictGiven(r, by)
  PROVE  VerdictGiven(r, by)'
BY DEF WorkStays, ReviewsStay, JudgementsStay, VerdictGiven, Work

LEMMA AcceptedStays ==
  ASSUME WorkStays, ReviewsStay, MembersExist, NEW r, NEW work,
         AcceptedIn(r, work)
  PROVE  AcceptedIn(r, work)' /\ r \in DOMAIN reviews
<1>1. /\ r \in DOMAIN reviews /\ reviews[r].target = work
      /\ reviews[r].members # {}
      /\ \A by \in reviews[r].members :
           /\ IsDelivered(by)
           /\ R!HasJudged(r, by) /\ R!Verdict(r, by) = "Passed"
  BY DEF AcceptedIn, Accepted, R!SessionsOf, MembersExist, IsDelivered
<1>2. /\ r \in DOMAIN reviews' /\ reviews'[r].target = work
      /\ reviews'[r].members = reviews[r].members
      /\ \A by \in reviews[r].members :
           /\ IsDelivered(by)'
           /\ R!HasJudged(r, by)' /\ R!Verdict(r, by)' = "Passed"
  BY <1>1, DeliveredStays DEF ReviewsStay, JudgementsStay
<1>3. r \in R!SessionsOf(work)'
  BY <1>2 DEF R!SessionsOf
<1>4. Accepted(r)'
  BY <1>1, <1>2 DEF Accepted, IsDelivered
<1> QED
  BY <1>1, <1>3, <1>4 DEF AcceptedIn

LEMMA StandingStays ==
  ASSUME EverythingStays, MembersExist, HoldsNameTheirWork, NEW call, Standing(call)
  PROVE  Standing(call)'
<1> USE DEF EverythingStays
<1>1. \A h \in DOMAIN holds :
        /\ h \in DOMAIN holds' /\ holds'[h].kind = holds[h].kind
        /\ holds'[h].assignment = holds[h].assignment
        /\ holds[h].assignment \in DOMAIN assignments
  BY DEF HoldsStay, HoldsNameTheirWork
<1>2. StandsByReview(call)'
  BY <1>1, DeliveredStays, VerdictStays DEF Standing, StandsByReview, HoldOf
<1>3. StandsByWork(call)'
  BY <1>1, DeliveredStays, AcceptedStays DEF Standing, StandsByWork, HoldOf
<1> QED
  BY <1>2, <1>3 DEF Standing

LEMMA EarnedStays ==
  ASSUME EverythingStays, MembersExist, HoldsNameTheirWork,
         NEW h \in DOMAIN holds, Earned(h)
  PROVE  Earned(h)'
<1> USE DEF EverythingStays
<1>1. /\ holds'[h].kind = holds[h].kind
      /\ holds'[h].assignment = holds[h].assignment
      /\ holds[h].assignment \in DOMAIN assignments
      /\ \A r \in DOMAIN reviews : r \in DOMAIN reviews'
  BY DEF HoldsStay, HoldsNameTheirWork, ReviewsStay
<1>2. CASE holds[h].kind = "Review"
  <2>1. ReviewEarned(h)
    BY <1>2 DEF Earned
  <2>2. ReviewEarned(h)'
    BY <1>1, <2>1, DeliveredStays, VerdictStays DEF ReviewEarned
  <2> QED
    BY <1>1, <1>2, <2>2 DEF Earned
<1>3. CASE holds[h].kind = "Execute"
  <2>1. WorkEarned(h)
    BY <1>3 DEF Earned
  <2>2. WorkEarned(h)'
    BY <1>1, <2>1, DeliveredStays, AcceptedStays DEF WorkEarned
  <2> QED
    BY <1>1, <1>3, <2>2 DEF Earned
<1> QED
  BY <1>1, <1>2, <1>3 DEF Earned

(* What is left to show of a step that keeps everything.                   *)
LEMMA Combine ==
  ASSUME GatewayInv, EverythingStays,
         WorkTyped', HoldsTyped', C!ReviewInv', MembersExist',
         HoldsNameTheirWork',
         \/ UNCHANGED handlers
         \/ \E x \in Handlers : \E call :
              Goto(x, call) /\ (Standing(call) \/ Standing(call)'),
         \A h \in DOMAIN holds' : holds'[h].status = "Released" =>
           \/ h \in DOMAIN holds /\ holds[h].status = "Released"
           \/ Earned(h)'
  PROVE  GatewayInv'
<1>1. ASSUME NEW x \in Handlers PROVE Standing(handlers[x])'
  <2>1. Standing(handlers[x])
    BY DEF GatewayInv, HandlersStand
  <2>2. \A call : Standing(call) => Standing(call)'
    BY StandingStays DEF GatewayInv
  <2>3. CASE handlers'[x] = handlers[x]
    BY <2>1, <2>2, <2>3
  <2>4. ASSUME NEW call, handlers'[x] = call, Standing(call) \/ Standing(call)'
        PROVE  Standing(handlers[x])'
    BY <2>2, <2>4
  <2>5. \A y \in Handlers : \A call :
          Goto(y, call) => \/ handlers'[x] = handlers[x]
                           \/ y = x /\ handlers'[x] = call
    BY DEF Goto, GatewayInv, HandlersStand
  <2> QED
    BY <2>3, <2>4, <2>5
<1>2. handlers' = [x \in Handlers |-> handlers'[x]]
  BY DEF Goto, GatewayInv, HandlersStand
<1>3. PaidIsEarned'
  BY EarnedStays DEF PaidIsEarned, GatewayInv
<1> QED
  BY <1>1, <1>2, <1>3 DEF GatewayInv, HandlersStand

-----------------------------------------------------------------------------
(* Steps of LiveSession.                                                   *)

LEMMA SameCount == \A X : L!Cardinality(X) = Cardinality(X)
BY DEF L!Cardinality, Cardinality

LEMMA NothingChanges ==
  /\ UNCHANGED assignments => (WorkStays /\ (WorkTyped => WorkTyped'))
  /\ UNCHANGED reviews => ReviewsStay /\ (C!ReviewInv => C!ReviewInv')
  /\ UNCHANGED <<holds, nextHold>> => HoldsStay /\ (HoldsTyped => HoldsTyped')
<1>1. UNCHANGED assignments => (WorkStays /\ (WorkTyped => WorkTyped'))
  BY DEF WorkStays, WorkTyped
<1>2. UNCHANGED reviews => ReviewsStay
  BY DEF ReviewsStay, JudgementsStay, R!HasJudged, R!Verdict, R!VerdictsBy
<1>3. UNCHANGED reviews => (C!ReviewInv => C!ReviewInv')
  BY DEF C!ReviewInv, C!ReviewTypeOK, C!OneEach
<1>4. UNCHANGED <<holds, nextHold>> => HoldsStay /\ (HoldsTyped => HoldsTyped')
  BY DEF HoldsStay, HoldsTyped
<1> QED
  BY <1>1, <1>2, <1>3, <1>4

LEMMA WorkStep ==
  ASSUME GatewayInv,
         \/ \E target \in AssignmentId : Assign(target)
         \/ \E a \in AssignmentId : SubmitArtifact(a)
         \/ \E a \in AssignmentId : CancelIfAssigned(a)
  PROVE  GatewayInv'
<1>1. PICK n \in Nat : assignments \in [1 .. n -> WorkRecord]
  BY DEF GatewayInv, WorkTyped
<1>2. UNCHANGED <<reviews, holds, nextHold, handlers>>
  BY DEF Assign, SubmitArtifact, CancelIfAssigned, settlementVars
<1>3. WorkTyped' /\ WorkStays
  <2>1. ASSUME NEW target \in AssignmentId, Assign(target)
        PROVE  WorkTyped' /\ WorkStays
    <3> DEFINE new == [task |-> Task, session |-> 1, agent |-> Reviewer,
                       target |-> target, status |-> "Assigned",
                       output |-> NoOutput, updatedAt |-> 0]
    <3>1. L!NextAssignmentId = n + 1
      <4>1. Cardinality(DOMAIN assignments) = n
        BY <1>1, FS_Interval
      <4> QED
        BY <4>1, SameCount DEF L!NextAssignmentId
    <3>2. assignments' =
            [a \in DOMAIN assignments \cup {L!NextAssignmentId} |->
               IF a = L!NextAssignmentId THEN new ELSE assignments[a]]
      BY <2>1 DEF Assign, L!Assign
    <3>3. new \in WorkRecord
      BY DEF WorkRecord, L!AssignmentStatus, AssignmentId, Agents
    <3>4. DOMAIN assignments \cup {n + 1} = 1 .. n + 1
      BY <1>1
    <3> HIDE DEF new
    <3>5. assignments' =
            [a \in 1 .. n + 1 |-> IF a = n + 1 THEN new ELSE assignments[a]]
      BY <3>1, <3>2, <3>4, Zenon
    <3> QED
      BY <1>1, <3>3, <3>5 DEF WorkTyped, WorkStays
  <2>2. ASSUME NEW a \in AssignmentId, SubmitArtifact(a)
        PROVE  WorkTyped' /\ WorkStays
    <3> DEFINE new == [assignments[a] EXCEPT !.output = Output,
                                             !.status = "Submitted",
                                             !.updatedAt = 0]
    <3>1. /\ a \in 1 .. n
          /\ assignments' = [assignments EXCEPT ![a] = new]
      BY <1>1, <2>2 DEF SubmitArtifact, L!SubmitOutput
    <3>2. /\ new \in WorkRecord /\ new.agent = assignments[a].agent
          /\ new.target = assignments[a].target /\ new.status \in Delivered
      BY <1>1, <3>1 DEF WorkRecord, L!AssignmentStatus, Delivered
    <3> HIDE DEF new
    <3> QED
      BY <1>1, <3>1, <3>2 DEF WorkTyped, WorkStays
  <2>3. ASSUME NEW a \in AssignmentId, CancelIfAssigned(a)
        PROVE  WorkTyped' /\ WorkStays
    <3> DEFINE new == [assignments[a] EXCEPT !.status = "Cancelled",
                                             !.updatedAt = 0]
    <3>1. /\ a \in 1 .. n /\ assignments[a].status = "Assigned"
          /\ assignments' = [assignments EXCEPT ![a] = new]
      BY <1>1, <2>3
         DEF CancelIfAssigned, L!CancelIfAssigned, L!StatusAt, L!SetStatus
    <3>2. /\ new \in WorkRecord /\ new.agent = assignments[a].agent
          /\ new.target = assignments[a].target
          /\ assignments[a].status \notin Delivered
      BY <1>1, <3>1 DEF WorkRecord, L!AssignmentStatus, Delivered
    <3> HIDE DEF new
    <3> QED
      BY <1>1, <3>1, <3>2 DEF WorkTyped, WorkStays
  <2> QED
    BY <2>1, <2>2, <2>3
<1>4. /\ ReviewsStay /\ HoldsStay
      /\ HoldsTyped' /\ C!ReviewInv'
  BY <1>2, NothingChanges DEF GatewayInv
<1>5. MembersExist'
  BY <1>2, <1>3 DEF GatewayInv, MembersExist, WorkStays
<1>6. HoldsNameTheirWork'
  BY <1>2, <1>3 DEF GatewayInv, HoldsNameTheirWork, WorkStays, KindOf, L!NoTarget
<1> QED
  BY <1>2, <1>3, <1>4, <1>5, <1>6, Combine DEF EverythingStays

-----------------------------------------------------------------------------
(* Steps of Review.                                                        *)

LEMMA GoodStays ==
  ASSUME C!ReviewInv, C!Good
  PROVE  ReviewsStay
<1> SUFFICES ASSUME NEW r \in DOMAIN reviews
             PROVE  /\ r \in DOMAIN reviews'
                    /\ reviews'[r].target = reviews[r].target
                    /\ reviews'[r].members = reviews[r].members
                    /\ JudgementsStay(r)
  BY DEF ReviewsStay
<1> DEFINE old == reviews[r]
           new == reviews'[r]
           given == old.verdicts
           later == new.verdicts
<1>1. /\ r \in DOMAIN reviews'
      /\ [new EXCEPT !.verdicts = given] = old
      /\ Len(given) <= Len(later) /\ SubSeq(later, 1, Len(given)) = given
  BY DEF C!Good, C!Extends
<1>2. /\ old \in C!ReviewSession /\ new \in C!ReviewSession
  BY <1>1 DEF C!Good, C!ReviewInv, C!ReviewTypeOK
<1>3. new.target = old.target /\ new.members = old.members
  BY <1>1, <1>2 DEF C!ReviewSession
<1>4. /\ given \in Seq([by : AssignmentId, kind : C!VerdictKind])
      /\ later \in Seq([by : AssignmentId, kind : C!VerdictKind])
  BY <1>2 DEF C!ReviewSession
<1> HIDE DEF given, later
<1>5. \A i \in DOMAIN given : i \in DOMAIN later /\ later[i] = given[i]
  <2> TAKE i \in DOMAIN given
  <2>1. i \in DOMAIN later /\ i \in 1 .. Len(given)
    BY <1>1, <1>4
  <2>2. SubSeq(later, 1, Len(given))[i] = later[i]
    BY <1>1, <1>4, <2>1
  <2> QED
    BY <1>1, <2>1, <2>2
<1>6. \A i, j \in DOMAIN later : later[i].by = later[j].by => i = j
  BY <1>1 DEF C!Good, C!ReviewInv, C!OneEach, later
<1>7. JudgementsStay(r)
  <2> SUFFICES ASSUME NEW by, R!HasJudged(r, by)
               PROVE  /\ R!HasJudged(r, by)'
                      /\ R!Verdict(r, by)' = R!Verdict(r, by)
    BY DEF JudgementsStay
  <2> DEFINE before == {i \in DOMAIN given : given[i].by = by}
             after == {i \in DOMAIN later : later[i].by = by}
  <2>1. PICK i \in DOMAIN given : given[i].by = by
    BY DEF R!HasJudged, R!VerdictsBy, given
  <2>2. before = {i} /\ after = {i}
    BY <1>5, <1>6, <2>1
  <2>3. before = R!VerdictsBy(r, by) /\ after = R!VerdictsBy(r, by)'
    BY DEF R!VerdictsBy, given, later
  <2> HIDE DEF before, after
  <2>4. R!HasJudged(r, by)'
    BY <2>2, <2>3 DEF R!HasJudged
  <2>5. (CHOOSE j \in {i} : TRUE) = i
    OBVIOUS
  <2>6. R!Verdict(r, by) = given[i].kind /\ R!Verdict(r, by)' = later[i].kind
    BY <2>2, <2>3, <2>5 DEF R!Verdict, given, later
  <2> QED
    BY <1>5, <2>1, <2>4, <2>6
<1> QED
  BY <1>1, <1>3, <1>7

LEMMA SameRequest ==
  ASSUME NEW target, NEW members, NEW at, R!RequestReview(target, members, at)
  PROVE  C!RequestReview(target, members, at)
<1>1. \A X : R!Cardinality(X) = C!Cardinality(X)
  BY Zenon DEF R!Cardinality, C!Cardinality
<1> QED
  BY <1>1 DEF R!RequestReview, C!RequestReview, R!NextReviewId, C!NextReviewId

LEMMA SameSubmit ==
  ASSUME NEW r, NEW evidence, NEW kind, R!SubmitVerdict(r, evidence, kind)
  PROVE  C!SubmitVerdict(r, evidence, kind)
BY DEF R!SubmitVerdict, C!SubmitVerdict, R!CanSubmitVerdict,
       C!CanSubmitVerdict, R!HasJudged, C!HasJudged, R!VerdictsBy,
       C!VerdictsBy

LEMMA ReviewStep ==
  ASSUME GatewayInv, C!Good, UNCHANGED <<assignments, holds, nextHold>>,
         MembersExist',
         \/ UNCHANGED handlers
         \/ \E x \in Handlers : \E call : Goto(x, call) /\ Standing(call)
  PROVE  GatewayInv'
<1>1. ReviewsStay /\ C!ReviewInv'
  BY GoodStays DEF GatewayInv, C!Good
<1>2. WorkStays /\ HoldsStay /\ WorkTyped' /\ HoldsTyped'
  BY NothingChanges DEF GatewayInv
<1>3. HoldsNameTheirWork'
  BY DEF GatewayInv, HoldsNameTheirWork, KindOf
<1> QED
  BY <1>1, <1>2, <1>3, Combine DEF EverythingStays

LEMMA RequestStep ==
  ASSUME GatewayInv, NEW target \in AssignmentId,
         NEW members \in SUBSET AssignmentId, NEW at \in ReviewTimes,
         RequestReview(target, members, at)
  PROVE  GatewayInv'
<1>1. UNCHANGED <<assignments, holds, nextHold, handlers>>
  BY DEF RequestReview, liveVars, settlementVars
<1>2. C!Good
  <2>1. C!ReviewInv /\ C!RequestReview(target, members, at)
    BY SameRequest DEF GatewayInv, RequestReview
  <2> QED
    BY <2>1, CoreAssumptions, C!RequestReviewGood
<1>3. members \subseteq DOMAIN assignments
  BY DEF RequestReview, ValidReview, L!ReviewAssignmentsForTarget
<1>4. MembersExist'
  BY <1>1, <1>3 DEF GatewayInv, MembersExist, RequestReview, R!RequestReview
<1> QED
  BY <1>1, <1>2, <1>4, ReviewStep

LEMMA VerdictStep ==
  ASSUME GatewayInv, NEW x \in Handlers, RecordVerdict(x)
  PROVE  GatewayInv'
<1>1. UNCHANGED <<assignments, holds, nextHold>>
  BY DEF RecordVerdict, liveVars, settlementVars
<1> DEFINE call == handlers[x]
<1>2. Standing(call) /\ call.at = "verdict"
  BY DEF GatewayInv, HandlersStand, RecordVerdict, At
<1>3. CASE /\ R!SubmitVerdict(call.review, call.evidence, call.kind)
           /\ Goto(x, Recorded(call.review, call.evidence.by))
  <2>1. C!ReviewInv /\ C!SubmitVerdict(call.review, call.evidence, call.kind)
    BY <1>3, SameSubmit DEF GatewayInv
  <2>2. call.kind \in C!VerdictKind
    BY <1>2 DEF Standing, R!VerdictKind, C!VerdictKind
  <2>3. /\ call.review \in DOMAIN reviews
        /\ call.evidence.by \in reviews[call.review].members
    BY <1>3 DEF R!SubmitVerdict, R!CanSubmitVerdict
  <2>4. call.evidence.by \in AssignmentId
    BY <2>1, <2>3 DEF C!ReviewInv, C!ReviewTypeOK, C!ReviewSession
  <2> HIDE DEF call
  <2>5. C!Good
    BY <2>1, <2>2, <2>4, CoreAssumptions, C!SubmitVerdictGood
  <2>6. MembersExist'
    <3>1. /\ \A r \in DOMAIN reviews : reviews'[r].members = reviews[r].members
          /\ DOMAIN reviews' = DOMAIN reviews
      BY <2>1, <2>5, GoodStays, <1>3 DEF ReviewsStay, R!SubmitVerdict
    <3> QED
      BY <1>1, <3>1 DEF GatewayInv, MembersExist
  <2>7. \A c : c = Recorded(call.review, call.evidence.by) => Standing(c)
    BY DEF Recorded, Standing, StandsByReview, StandsByWork
  <2> QED
    BY <1>1, <1>3, <2>5, <2>6, <2>7, ReviewStep
<1>4. CASE UNCHANGED reviews /\ Finish(x)
  <2>1. Standing(Idle)
    BY DEF Idle, Standing, StandsByReview, StandsByWork
  <2>2. EverythingStays /\ WorkTyped' /\ HoldsTyped' /\ C!ReviewInv'
    BY <1>1, <1>4, NothingChanges DEF EverythingStays, GatewayInv
  <2>3. MembersExist' /\ HoldsNameTheirWork'
    BY <1>1, <1>4 DEF GatewayInv, MembersExist, HoldsNameTheirWork, KindOf
  <2> QED
    BY <1>1, <1>4, <2>1, <2>2, <2>3, Combine DEF Finish
<1> QED
  BY <1>3, <1>4 DEF RecordVerdict

-----------------------------------------------------------------------------
(* Steps of Settlement.                                                    *)

LEMMA SettlementStep ==
  ASSUME GatewayInv, UNCHANGED <<assignments, reviews>>, HoldsStay,
         HoldsTyped', HoldsNameTheirWork',
         \/ UNCHANGED handlers
         \/ \E x \in Handlers : \E call :
              Goto(x, call) /\ (Standing(call) \/ Standing(call)'),
         \A h \in DOMAIN holds' : holds'[h].status = "Released" =>
           \/ h \in DOMAIN holds /\ holds[h].status = "Released"
           \/ Earned(h)'
  PROVE  GatewayInv'
<1>1. WorkStays /\ ReviewsStay /\ WorkTyped' /\ C!ReviewInv'
  BY NothingChanges DEF GatewayInv
<1>2. MembersExist'
  BY DEF GatewayInv, MembersExist
<1> QED
  BY <1>1, <1>2, Combine DEF EverythingStays

LEMMA HoldStep ==
  ASSUME GatewayInv, NEW request \in S!HoldRequest, request.amount = Price,
         Hold(request)
  PROVE  GatewayInv'
<1>1. UNCHANGED <<assignments, reviews, handlers>>
  BY DEF Hold, liveVars
<1> DEFINE new == [from |-> request.from, amount |-> request.amount,
                   task |-> request.task, assignment |-> request.assignment,
                   agent |-> request.agent, kind |-> request.kind,
                   status |-> "Active"]
<1>2. /\ nextHold' = nextHold + 1
      /\ holds' = [h \in 1 .. nextHold + 1 |->
                     IF h = nextHold + 1 THEN new ELSE holds[h]]
  <2>1. DOMAIN holds \cup {nextHold + 1} = 1 .. nextHold + 1
    BY DEF GatewayInv, HoldsTyped
  <2>2. /\ nextHold' = nextHold + 1
        /\ holds' = [h \in DOMAIN holds \cup {nextHold + 1} |->
                     IF h = nextHold + 1 THEN new ELSE holds[h]]
    BY DEF Hold, S!CreateHold, S!NextHoldId
  <2> HIDE DEF new
  <2> QED
    BY <2>1, <2>2
<1>3. /\ new \in S!Hold /\ new.status = "Active"
      /\ new.assignment \in DOMAIN assignments
      /\ new.agent = assignments[new.assignment].agent
      /\ new.kind = KindOf(new.assignment)
  BY DEF S!HoldRequest, S!Hold, S!HoldKind, S!HoldStatus, Price, Hold, ValidHold
<1> HIDE DEF new
<1>4. HoldsTyped' /\ HoldsStay
  BY <1>2, <1>3 DEF GatewayInv, HoldsTyped, HoldsStay
<1>5. HoldsNameTheirWork'
  BY <1>1, <1>2, <1>3 DEF GatewayInv, HoldsTyped, HoldsNameTheirWork, KindOf
<1>6. \A h \in DOMAIN holds' : holds'[h].status = "Released" =>
        h \in DOMAIN holds /\ holds[h].status = "Released"
  BY <1>2, <1>3 DEF GatewayInv, HoldsTyped
<1> QED
  BY <1>1, <1>4, <1>5, <1>6, SettlementStep

LEMMA SettleEffect ==
  ASSUME GatewayInv, UNCHANGED <<assignments, reviews>>,
         NEW h, NEW to, NEW status \in {"Released", "Refunded"},
         S!Settle(h, to, status)
  PROVE  /\ HoldsTyped' /\ HoldsStay /\ HoldsNameTheirWork' /\ h \in DOMAIN holds
         /\ \A g \in DOMAIN holds' : holds'[g].status = "Released" =>
              \/ g \in DOMAIN holds /\ holds[g].status = "Released"
              \/ g = h /\ status = "Released"
<1>1. /\ h \in DOMAIN holds /\ UNCHANGED nextHold
      /\ holds' = [holds EXCEPT ![h].status = status]
  BY DEF S!Settle, S!IsActive
<1> DEFINE new == [holds[h] EXCEPT !.status = status]
<1>2. holds[h] \in S!Hold /\ holds \in [1 .. nextHold -> S!Hold]
  BY <1>1 DEF GatewayInv, HoldsTyped
<1>3. /\ new \in S!Hold /\ new.assignment = holds[h].assignment
      /\ new.agent = holds[h].agent /\ new.kind = holds[h].kind
      /\ new.status = status
  BY <1>2 DEF S!Hold, S!HoldStatus
<1>4. holds' = [holds EXCEPT ![h] = new]
  BY <1>1
<1> HIDE DEF new
<1>5. HoldsTyped' /\ HoldsStay
  BY <1>1, <1>2, <1>3, <1>4 DEF GatewayInv, HoldsTyped, HoldsStay
<1>6. HoldsNameTheirWork'
  BY <1>1, <1>2, <1>3, <1>4 DEF GatewayInv, HoldsNameTheirWork, KindOf
<1> QED
  BY <1>1, <1>2, <1>3, <1>4, <1>5, <1>6

LEMMA RefundStep ==
  ASSUME GatewayInv, NEW h, NEW caller, Refund(h, caller)
  PROVE  GatewayInv'
<1>1. UNCHANGED <<assignments, reviews, handlers>>
  BY DEF Refund, liveVars
<1>2. S!Settle(h, holds[h].from, "Refunded")
  BY DEF Refund, S!Refund
<1> QED
  BY <1>1, <1>2, SettleEffect, SettlementStep

LEMMA IdleStands == Standing(Idle)
BY DEF Idle, Standing, StandsByReview, StandsByWork

LEMMA PayReviewStep ==
  ASSUME GatewayInv, NEW x \in Handlers, ReleaseReviewHold(x)
  PROVE  GatewayInv'
<1> DEFINE call == handlers[x]
<1>0. PICK h : h = call.hold
  OBVIOUS
<1>1. UNCHANGED <<assignments, reviews>>
  BY DEF ReleaseReviewHold, liveVars
<1>2. /\ h \in DOMAIN holds /\ holds[h].kind = "Review"
      /\ IsDelivered(holds[h].assignment)
      /\ VerdictGiven(call.review, holds[h].assignment)
  BY <1>0 DEF GatewayInv, HandlersStand, Standing, StandsByReview, HoldOf,
         ReleaseReviewHold, At
<1>3. Earned(h)
  BY <1>2 DEF Earned, ReviewEarned, VerdictGiven
<1>4. \E next : Goto(x, next) /\ Standing(next)
  <2>1. \A by : Standing(ExecuteHolds(by))
    BY DEF ExecuteHolds, Standing, StandsByReview, StandsByWork
  <2> QED
    BY <2>1, IdleStands DEF ReleaseReviewHold, Finish
<1>5. CASE UNCHANGED settlementVars
  BY <1>1, <1>4, <1>5, NothingChanges, SettlementStep
     DEF GatewayInv, HoldsNameTheirWork, KindOf, settlementVars
<1>6. CASE S!Settle(h, holds[h].agent, "Released")
  <2> HIDE DEF call
  <2>1. /\ HoldsTyped' /\ HoldsStay /\ HoldsNameTheirWork'
        /\ \A g \in DOMAIN holds' : holds'[g].status = "Released" =>
             \/ g \in DOMAIN holds /\ holds[g].status = "Released"
             \/ g = h
    BY <1>1, <1>6, SettleEffect
  <2>2. Earned(h)'
    BY <1>1, <1>2, <1>3, <2>1, NothingChanges, EarnedStays
       DEF EverythingStays, GatewayInv
  <2> QED
    BY <1>1, <1>4, <2>1, <2>2, SettlementStep
<1> QED
  BY <1>0, <1>5, <1>6 DEF ReleaseReviewHold, S!Release

LEMMA PayWorkStep ==
  ASSUME GatewayInv, NEW x \in Handlers, ReleaseExecuteHold(x)
  PROVE  GatewayInv'
<1> DEFINE call == handlers[x]
<1>0. PICK h : h = call.hold
  OBVIOUS
<1>1. UNCHANGED <<assignments, reviews>> /\ Goto(x, Idle)
  BY DEF ReleaseExecuteHold, liveVars, Finish
<1>2. /\ h \in DOMAIN holds /\ holds[h].kind = "Execute"
      /\ IsDelivered(holds[h].assignment)
      /\ AcceptedIn(call.review, holds[h].assignment)
  BY <1>0 DEF GatewayInv, HandlersStand, Standing, StandsByWork, HoldOf,
         ReleaseExecuteHold, At
<1>3. Earned(h)
  BY <1>2 DEF Earned, WorkEarned, AcceptedIn, R!SessionsOf
<1>5. CASE UNCHANGED settlementVars
  BY <1>1, <1>5, IdleStands, NothingChanges, SettlementStep
     DEF GatewayInv, HoldsNameTheirWork, KindOf, settlementVars
<1>6. CASE S!Settle(h, holds[h].agent, "Released")
  <2> HIDE DEF call
  <2>1. /\ HoldsTyped' /\ HoldsStay /\ HoldsNameTheirWork'
        /\ \A g \in DOMAIN holds' : holds'[g].status = "Released" =>
             \/ g \in DOMAIN holds /\ holds[g].status = "Released"
             \/ g = h
    BY <1>1, <1>6, SettleEffect
  <2>2. Earned(h)'
    BY <1>1, <1>2, <1>3, <2>1, NothingChanges, EarnedStays
       DEF EverythingStays, GatewayInv
  <2> QED
    BY <1>1, <2>1, <2>2, IdleStands, SettlementStep
<1> QED
  BY <1>0, <1>5, <1>6 DEF ReleaseExecuteHold, S!Release

-----------------------------------------------------------------------------
(* Steps of a handler that only read.                                      *)

LEMMA ReadStep ==
  ASSUME GatewayInv, UNCHANGED <<liveVars, reviews, settlementVars>>,
         NEW x \in Handlers, NEW call, Goto(x, call), Standing(call)
  PROVE  GatewayInv'
<1>1. UNCHANGED <<assignments, reviews, holds, nextHold>>
  BY DEF liveVars, settlementVars
<1>2. HoldsStay /\ HoldsTyped'
  BY <1>1, NothingChanges DEF GatewayInv
<1>3. HoldsNameTheirWork'
  BY <1>1 DEF GatewayInv, HoldsNameTheirWork, KindOf
<1> QED
  BY <1>1, <1>2, <1>3, SettlementStep

LEMMA PlainStands ==
  /\ Standing(Idle)
  /\ \A review, by : Standing(ReviewHolds(review, by))
  /\ \A by : Standing(ExecuteHolds(by))
BY DEF Idle, ReviewHolds, ExecuteHolds, Standing, StandsByReview, StandsByWork

LEMMA PayReviewStands ==
  ASSUME NEW label, NEW auto, NEW review, NEW h \in DOMAIN holds,
         holds[h].kind = "Review",
         \/ label = "reviewStatus"
         \/ label = "reviewVerdict" /\ IsDelivered(holds[h].assignment)
         \/ /\ label = "reviewPay" /\ IsDelivered(holds[h].assignment)
            /\ VerdictGiven(review, holds[h].assignment)
  PROVE  Standing(PayReview(label, auto, review, h))
<1> DEFINE call == PayReview(label, auto, review, h)
<1>1. /\ call.at = label /\ call.auto = auto /\ call.review = review
      /\ call.hold = h
  BY DEF PayReview
<1>2. call = PayReview(call.at, call.auto, call.review, call.hold)
  BY <1>1
<1> HIDE DEF call
<1>3. Standing(call)
  BY <1>1, <1>2 DEF Standing, StandsByReview, StandsByWork, HoldOf
<1> QED
  BY <1>3 DEF call

LEMMA PayExecuteStands ==
  ASSUME NEW label, NEW h \in DOMAIN holds, holds[h].kind = "Execute",
         \/ label = "executeStatus"
         \/ label = "executeReviewers" /\ IsDelivered(holds[h].assignment)
  PROVE  Standing(PayExecute(label, h))
BY DEF PayExecute, Standing, StandsByReview, StandsByWork, HoldOf

LEMMA BeginStep ==
  ASSUME GatewayInv, NEW x \in Handlers, Begin(x) \/ Drop(x)
  PROVE  GatewayInv'
<1>1. UNCHANGED <<liveVars, reviews, settlementVars>>
  BY DEF Begin, Drop, BeginSubmitReview, ReplaySubmitReview,
         BeginReleaseReview, BeginReleaseExecute
<1>2. ASSUME NEW review, NEW by, NEW kind \in R!VerdictKind,
             BeginSubmitReview(x, review, by, kind)
      PROVE  GatewayInv'
  <2> DEFINE call == [at |-> "verdict", review |-> review, kind |-> kind,
                      evidence |-> R!Evidence(by, assignments[by].status,
                                     assignments[by].output # NoOutput)]
  <2>1. Goto(x, call)
    BY <1>2 DEF BeginSubmitReview, Start
  <2>2. call.at = "verdict" /\ call.kind = kind
    OBVIOUS
  <2> HIDE DEF call
  <2>3. Standing(call)
    BY <2>2 DEF Standing, StandsByReview, StandsByWork
  <2> QED
    BY <1>1, <2>1, <2>3, ReadStep
<1>3. ASSUME NEW review, NEW by, ReplaySubmitReview(x, review, by)
      PROVE  GatewayInv'
  BY <1>1, <1>3, PlainStands, ReadStep DEF ReplaySubmitReview, Start
<1>4. ASSUME NEW h, NEW review, NEW caller,
             BeginReleaseReview(x, h, review, caller)
      PROVE  GatewayInv'
  <2>1. /\ h \in DOMAIN holds /\ holds[h].kind = "Review"
        /\ Goto(x, PayReview("reviewStatus", FALSE, review, h))
    BY <1>4 DEF BeginReleaseReview, MaySettle, Start
  <2> QED
    BY <1>1, <2>1, PayReviewStands, ReadStep
<1>5. ASSUME NEW h, NEW caller, BeginReleaseExecute(x, h, caller)
      PROVE  GatewayInv'
  <2>1. /\ h \in DOMAIN holds /\ holds[h].kind = "Execute"
        /\ Goto(x, PayExecute("executeStatus", h))
    BY <1>5 DEF BeginReleaseExecute, MaySettle, Start
  <2> QED
    BY <1>1, <2>1, PayExecuteStands, ReadStep
<1>6. CASE Drop(x)
  BY <1>1, <1>6, PlainStands, ReadStep DEF Drop, Finish
<1> QED
  BY <1>2, <1>3, <1>4, <1>5, <1>6 DEF Begin

LEMMA FinishKeyStep ==
  ASSUME GatewayInv, NEW x \in Handlers, FinishKey(x)
  PROVE  GatewayInv'
<1>1. UNCHANGED <<liveVars, reviews, settlementVars>>
  BY DEF FinishKey
<1>2. PICK review, by : review = handlers[x].review /\ by = handlers[x].by
  OBVIOUS
<1>3. Goto(x, ReviewHolds(review, by)) \/ Goto(x, Idle)
  BY <1>2 DEF FinishKey, Finish
<1> QED
  BY <1>1, <1>3, PlainStands, ReadStep

LEMMA ListStep ==
  ASSUME GatewayInv, NEW x \in Handlers, ListReviewHolds(x) \/ ListExecuteHolds(x)
  PROVE  GatewayInv'
<1>1. UNCHANGED <<liveVars, reviews, settlementVars>>
  BY DEF ListReviewHolds, ListExecuteHolds
<1>2. \A a, kind : \A h \in S!ActiveHoldsForAssignment(a, kind) :
        h \in DOMAIN holds /\ holds[h].kind = kind
  BY DEF S!ActiveHoldsForAssignment, S!ActiveHolds
<1>3. ASSUME NEW review, NEW h \in DOMAIN holds, holds[h].kind = "Review",
             Goto(x, PayReview("reviewStatus", TRUE, review, h))
      PROVE  GatewayInv'
  BY <1>1, <1>3, PayReviewStands, ReadStep
<1>4. ASSUME NEW h \in DOMAIN holds, holds[h].kind = "Execute",
             Goto(x, PayExecute("executeStatus", h))
      PROVE  GatewayInv'
  BY <1>1, <1>4, PayExecuteStands, ReadStep
<1>5. ASSUME NEW call, Goto(x, call), Standing(call)
      PROVE  GatewayInv'
  BY <1>1, <1>5, ReadStep
<1>6. CASE ListReviewHolds(x)
  <2>1. PICK by, review : by = handlers[x].by /\ review = handlers[x].review
    OBVIOUS
  <2>2. CASE Goto(x, ExecuteHolds(by))
    BY <1>5, <2>2, PlainStands
  <2>3. ASSUME NEW h \in S!ActiveHoldsForAssignment(by, "Review"),
               Goto(x, PayReview("reviewStatus", TRUE, review, h))
        PROVE  GatewayInv'
    BY <1>2, <1>3, <2>3
  <2> QED
    BY <1>6, <2>1, <2>2, <2>3 DEF ListReviewHolds, NoReviewHold
<1>7. CASE ListExecuteHolds(x)
  <2>1. PICK work : work = Work(handlers[x].by)
    OBVIOUS
  <2>2. CASE Goto(x, Idle)
    BY <1>5, <2>2, PlainStands
  <2>3. ASSUME NEW h \in S!ActiveHoldsForAssignment(work, "Execute"),
               Goto(x, PayExecute("executeStatus", h))
        PROVE  GatewayInv'
    BY <1>2, <1>4, <2>3
  <2> QED
    BY <1>7, <2>1, <2>2, <2>3 DEF ListExecuteHolds, Finish
<1> QED
  BY <1>6, <1>7

LEMMA ReadReviewStep ==
  ASSUME GatewayInv, NEW x \in Handlers, ReadReviewStatus(x) \/ ReadReviewVerdict(x)
  PROVE  GatewayInv'
<1> DEFINE call == handlers[x]
<1>1. UNCHANGED <<liveVars, reviews, settlementVars>>
  BY DEF ReadReviewStatus, ReadReviewVerdict
<1>2. /\ call.at \in {"reviewStatus", "reviewVerdict"}
      /\ call = PayReview(call.at, call.auto, call.review, call.hold)
      /\ call.hold \in DOMAIN holds /\ holds[call.hold].kind = "Review"
      /\ call.at # "reviewStatus" => IsDelivered(holds[call.hold].assignment)
  BY DEF GatewayInv, HandlersStand, Standing, StandsByReview, HoldOf,
         ReadReviewStatus, ReadReviewVerdict, At
<1>3. PICK auto, review, h :
        /\ auto = call.auto /\ review = call.review /\ h = call.hold
        /\ call = PayReview(call.at, auto, review, h)
  BY <1>2
<1>4. \A label : [call EXCEPT !.at = label] = PayReview(label, auto, review, h)
  BY <1>3 DEF PayReview
<1>5. holds[h].assignment \in DOMAIN assignments
  BY <1>2, <1>3 DEF GatewayInv, HoldsNameTheirWork
<1> HIDE DEF call
<1>6. CASE Finish(x)
  BY <1>1, <1>6, PlainStands, ReadStep DEF Finish
<1>7. CASE /\ assignments[holds[h].assignment].status \in Delivered
           /\ Goto(x, PayReview("reviewVerdict", auto, review, h))
  <2>1. Standing(PayReview("reviewVerdict", auto, review, h))
    BY <1>2, <1>3, <1>5, <1>7, PayReviewStands DEF IsDelivered
  <2> QED
    BY <1>1, <1>7, <2>1, ReadStep
<1>8. CASE /\ call.at # "reviewStatus"
           /\ VerdictGiven(review, holds[h].assignment)
           /\ Goto(x, PayReview("reviewPay", auto, review, h))
  <2>1. Standing(PayReview("reviewPay", auto, review, h))
    BY <1>2, <1>3, <1>5, <1>8, PayReviewStands
  <2> QED
    BY <1>1, <1>8, <2>1, ReadStep
<1> QED
  BY <1>3, <1>4, <1>6, <1>7, <1>8
     DEF ReadReviewStatus, ReadReviewVerdict, At, call

LEMMA ReadWorkStep ==
  ASSUME GatewayInv, NEW x \in Handlers, ReadExecuteStatus(x) \/ ReadReviewers(x)
  PROVE  GatewayInv'
<1> DEFINE call == handlers[x]
<1>1. UNCHANGED <<liveVars, reviews, settlementVars>>
  BY DEF ReadExecuteStatus, ReadReviewers
<1>2. PICK h : h = call.hold
  OBVIOUS
<1>3. /\ call.at \in {"executeStatus", "executeReviewers"}
      /\ call = PayExecute(call.at, h)
      /\ h \in DOMAIN holds /\ holds[h].kind = "Execute"
      /\ call.at # "executeStatus" => IsDelivered(holds[h].assignment)
  BY <1>2 DEF GatewayInv, HandlersStand, Standing, StandsByWork, HoldOf,
              ReadExecuteStatus, ReadReviewers, At
<1>4. \A label : [call EXCEPT !.at = label] = PayExecute(label, h)
  BY <1>3 DEF PayExecute
<1>5. holds[h].assignment \in DOMAIN assignments
  BY <1>3 DEF GatewayInv, HoldsNameTheirWork
<1>6. CASE Finish(x)
  BY <1>1, <1>6, PlainStands, ReadStep DEF Finish
<1>7. CASE /\ assignments[holds[h].assignment].status \in Delivered
           /\ Goto(x, PayExecute("executeReviewers", h))
  <2>1. Standing(PayExecute("executeReviewers", h))
    BY <1>3, <1>5, <1>7, PayExecuteStands DEF IsDelivered
  <2> QED
    BY <1>1, <1>7, <2>1, ReadStep
<1>8. ASSUME call.at # "executeStatus", NEW found,
             found = L!ReviewAssignmentsForTarget(holds[h].assignment),
             Goto(x, [at |-> "executeSessions", hold |-> h,
                      ready |-> {a \in found :
                                   assignments[a].status \in Delivered}])
      PROVE  GatewayInv'
  <2> DEFINE next == [at |-> "executeSessions", hold |-> h,
                      ready |-> {a \in found :
                                   assignments[a].status \in Delivered}]
  <2>1. /\ next.at = "executeSessions" /\ next.hold = h
        /\ \A a \in next.ready : IsDelivered(a)
    BY <1>8 DEF L!ReviewAssignmentsForTarget, IsDelivered
  <2>2. Goto(x, next)
    BY <1>8
  <2> HIDE DEF next
  <2>3. Standing(next)
    BY <1>3, <1>8, <2>1 DEF Standing, StandsByReview, StandsByWork, HoldOf
  <2> QED
    BY <1>1, <2>2, <2>3, ReadStep
<1>9. CASE ReadExecuteStatus(x)
  BY <1>2, <1>4, <1>6, <1>7, <1>9 DEF ReadExecuteStatus
<1>10. CASE ReadReviewers(x)
  <2>1. call.at # "executeStatus"
    BY <1>10 DEF ReadReviewers, At
  <2> QED
    BY <1>2, <1>6, <1>8, <1>10, <2>1 DEF ReadReviewers
<1> QED
  BY <1>9, <1>10

(* The latest session of a piece of work is one of its sessions.           *)
LEMMA LatestIsOne ==
  ASSUME C!ReviewTypeOK, NEW work, R!SessionsOf(work) # {}
  PROVE  R!Latest(R!SessionsOf(work)) \in R!SessionsOf(work)
<1> DEFINE found == R!SessionsOf(work)
<1>1. PICK n \in 0 .. MaxReviews :
        reviews \in [0 + 1 .. n -> C!ReviewSession]
  BY DEF C!ReviewTypeOK
<1>2. found \in SUBSET DOMAIN reviews
  BY DEF R!SessionsOf
<1>3. R!Latest(found) = C!LatestBy(reviews, found)
  BY Zenon DEF R!Latest, C!LatestBy, R!IsYounger, C!Younger, R!ComesBefore,
               C!ComesBefore, R!Digits, C!Digits
<1> HIDE DEF found
<1>4. found # {}
  BY DEF found
<1>5. C!IsLatest(reviews, C!LatestBy(reviews, found), found)
  BY <1>1, <1>2, <1>4, CoreAssumptions, C!LatestIs
<1> QED
  BY <1>3, <1>5 DEF C!IsLatest, found

LEMMA ReadSessionsStep ==
  ASSUME GatewayInv, NEW x \in Handlers, ReadSessions(x)
  PROVE  GatewayInv'
<1> DEFINE call == handlers[x]
<1>1. UNCHANGED <<liveVars, reviews, settlementVars>>
  BY DEF ReadSessions
<1>2. PICK h, work : h = call.hold /\ work = holds[h].assignment
  OBVIOUS
<1>3. /\ h \in DOMAIN holds /\ holds[h].kind = "Execute"
      /\ IsDelivered(work)
      /\ \A a \in call.ready : IsDelivered(a)
  BY <1>2 DEF GatewayInv, HandlersStand, Standing, StandsByWork, HoldOf,
              ReadSessions, At
<1>4. CASE Finish(x)
  BY <1>1, <1>4, PlainStands, ReadStep DEF Finish
<1>5. ASSUME NEW review, review = R!Latest(R!SessionsOf(work)),
             R!SessionsOf(work) # {}, AllPassed(review, call.ready),
             Goto(x, [at |-> "executePay", hold |-> h, review |-> review])
      PROVE  GatewayInv'
  <2>1. review \in R!SessionsOf(work)
    BY <1>5, LatestIsOne DEF GatewayInv, C!ReviewInv
  <2>2. Accepted(review)
    BY <1>3, <1>5 DEF AllPassed, Accepted, IsDelivered
  <2>3. AcceptedIn(review, work)
    BY <2>1, <2>2 DEF AcceptedIn
  <2> DEFINE next == [at |-> "executePay", hold |-> h, review |-> review]
  <2>4. /\ next.at = "executePay" /\ next.hold = h /\ next.review = review
        /\ Goto(x, next)
    BY <1>5
  <2> HIDE DEF next
  <2>5. Standing(next)
    BY <1>2, <1>3, <2>3, <2>4
       DEF Standing, StandsByReview, StandsByWork, HoldOf
  <2> QED
    BY <1>1, <2>4, <2>5, ReadStep
<1> QED
  BY <1>2, <1>4, <1>5 DEF ReadSessions

-----------------------------------------------------------------------------
LEMMA GatewayStep == GatewayInv /\ [GatewayNext]_gatewayVars => GatewayInv'
<1> SUFFICES ASSUME GatewayInv, [GatewayNext]_gatewayVars PROVE GatewayInv'
  OBVIOUS
<1>1. CASE Call
  BY <1>1, WorkStep, HoldStep, RequestStep, RefundStep DEF Call
<1>2. ASSUME NEW x \in Handlers, Begin(x) \/ Proceed(x) \/ Drop(x)
      PROVE  GatewayInv'
  BY <1>2, BeginStep, VerdictStep, FinishKeyStep, ListStep, ReadReviewStep,
     PayReviewStep, ReadWorkStep, ReadSessionsStep, PayWorkStep DEF Proceed
<1>3. CASE UNCHANGED gatewayVars
  <2>1. UNCHANGED <<assignments, reviews, holds, nextHold, handlers>>
    BY <1>3 DEF gatewayVars, liveVars, settlementVars
  <2>2. HoldsStay /\ HoldsTyped'
    BY <2>1, NothingChanges DEF GatewayInv
  <2>3. HoldsNameTheirWork'
    BY <2>1 DEF GatewayInv, HoldsNameTheirWork, KindOf
  <2> QED
    BY <2>1, <2>2, <2>3, SettlementStep
<1> QED
  BY <1>1, <1>2, <1>3 DEF GatewayNext

LEMMA GatewayStart == GatewayInit => GatewayInv
<1> SUFFICES ASSUME GatewayInit PROVE GatewayInv
  OBVIOUS
<1>1. WorkTyped
  <2>1. assignments \in [1 .. 1 -> WorkRecord]
    BY DEF GatewayInit, WorkRecord, L!NoTarget, L!AssignmentStatus, Agents
  <2> QED
    BY <2>1 DEF WorkTyped
<1>2. HoldsTyped /\ DOMAIN holds = {}
  BY DEF GatewayInit, HoldsTyped
<1>3. reviews = [r \in {} |-> {}]
  BY DEF GatewayInit, R!ReviewInit
<1>4. C!ReviewTypeOK
  <2>1. 0 \in 0 .. MaxReviews /\ 0 + 1 .. 0 = {}
    BY GatewayAssumption
  <2>2. reviews \in [0 + 1 .. 0 -> C!ReviewSession]
    BY <1>3, <2>1
  <2> QED
    BY <2>1, <2>2 DEF C!ReviewTypeOK
<1>5. C!ReviewInv /\ MembersExist
  BY <1>3, <1>4 DEF C!ReviewInv, MembersExist
<1>6. HandlersStand
  <2>1. handlers = [x \in Handlers |-> handlers[x]] /\ \A x \in Handlers : handlers[x] = Idle
    BY DEF GatewayInit
  <2> QED
    BY <2>1, IdleStands DEF HandlersStand
<1> QED
  BY <1>1, <1>2, <1>5, <1>6 DEF GatewayInv, HoldsNameTheirWork, PaidIsEarned

LEMMA GatewayInvariant == GatewaySpec => []GatewayInv
BY GatewayStart, GatewayStep, PTL DEF GatewaySpec

(* A hold names the work that it pays for and the agent that does it,      *)
(* whoever asks for the hold and whatever else goes on (app.rs:959-986).   *)
THEOREM HoldsStayWithTheirWork == GatewaySpec => []HoldsNameTheirWork
<1>1. GatewayInv => HoldsNameTheirWork
  BY DEF GatewayInv
<1> QED
  BY <1>1, GatewayInvariant, PTL

(* Execute work is paid only if it was delivered and everybody in one      *)
(* review session of it passed it, however many handlers settle at once and*)
(* whether they are dropped, race, or are overtaken by a new session       *)
(* (gateway.rs:103-187).                                                   *)
THEOREM OnlyAcceptedWorkIsPaid == GatewaySpec => []PaidWorkWasAccepted
<1>1. GatewayInv => PaidWorkWasAccepted
  BY DEF GatewayInv, PaidIsEarned, PaidWorkWasAccepted, Earned, WorkEarned,
         AcceptedIn, IsDelivered
<1> QED
  BY <1>1, GatewayInvariant, PTL

(* A review is paid only if it was delivered and the reviewer has given the*)
(* verdict (gateway.rs:189-281).                                           *)
THEOREM OnlyGivenReviewsArePaid == GatewaySpec => []PaidReviewWasGiven
<1>1. GatewayInv => PaidReviewWasGiven
  BY DEF GatewayInv, PaidIsEarned, PaidReviewWasGiven, Earned, ReviewEarned,
         VerdictGiven, IsDelivered, R!SessionsOf
<1> QED
  BY <1>1, GatewayInvariant, PTL

-----------------------------------------------------------------------------
(* Money.  Every step of the handlers is one of Settlement or none.        *)

LEMMA SameMoney ==
  /\ \A request \in S!HoldRequest :
       request \in C!HoldRequest /\ (S!CreateHold(request) => C!CreateHold(request))
  /\ \A h \in S!HoldId : h \in C!HoldId /\ (S!Refund(h) => C!Refund(h))
  /\ \A h, evidence : S!Release(h, evidence) => C!Release(h, evidence)
<1>1. \A request \in S!HoldRequest :
        request \in C!HoldRequest /\ (S!CreateHold(request) => C!CreateHold(request))
  BY DEF S!HoldRequest, C!HoldRequest, S!HoldKind, C!HoldKind,
         S!CreateHold, C!CreateHold, S!NextHoldId, C!NextHoldId,
         S!CanPay, C!CanPay, S!Taken, C!Taken, S!ActiveHolds, C!ActiveHolds,
         S!Debit, C!Debit
<1>2. \A h, to, status : S!Settle(h, to, status) => C!Settle(h, to, status)
  BY DEF S!Settle, C!Settle, S!IsActive, C!IsActive, S!CanCredit, C!CanCredit,
         S!Credit, C!Credit
<1>3. \A h \in S!HoldId : h \in C!HoldId /\ (S!Refund(h) => C!Refund(h))
  BY <1>2 DEF S!HoldId, C!HoldId, S!Refund, C!Refund
<1>4. \A h, evidence : S!Release(h, evidence) => C!Release(h, evidence)
  BY <1>2 DEF S!Release, C!Release, S!EvidenceFits, C!EvidenceFits
<1> QED
  BY <1>1, <1>3, <1>4

(* The evidence that the gateway shows is of the right type.               *)
LEMMA ReleaseMoves ==
  ASSUME GatewayInv, C!SettlementTypeOK, NEW h \in DOMAIN holds,
         NEW evidence, S!Release(h, evidence),
         \/ \E review \in R!ReviewId : evidence =
              [kind |-> "ReviewSubmitted", task |-> holds[h].task,
               assignment |-> holds[h].assignment, review |-> review]
         \/ \E review \in R!ReviewId : evidence =
              [kind |-> "AssignmentOutputAccepted", task |-> holds[h].task,
               assignment |-> holds[h].assignment, reviews |-> {review}]
  PROVE  C!SettlementNext
<1>1. holds[h] \in S!Hold /\ h \in C!HoldId
  BY GatewayAssumption DEF GatewayInv, HoldsTyped, C!SettlementTypeOK, C!HoldId
<1>2. evidence \in C!ReleaseEvidence
  BY <1>1 DEF S!Hold, C!ReleaseEvidence
<1> QED
  BY <1>1, <1>2, SameMoney DEF C!SettlementNext

LEMMA MoneyMoves ==
  ASSUME GatewayInv, C!SettlementTypeOK, [GatewayNext]_gatewayVars
  PROVE  [C!SettlementNext]_(C!settlementVars)
<1>1. UNCHANGED settlementVars => UNCHANGED C!settlementVars
  BY DEF settlementVars, C!settlementVars
<1>2. CASE Call
  <2>1. ASSUME NEW request \in S!HoldRequest, Hold(request)
        PROVE  C!SettlementNext
    BY <2>1, SameMoney DEF Hold, C!SettlementNext
  <2>2. ASSUME NEW h \in S!HoldId, NEW caller, Refund(h, caller)
        PROVE  C!SettlementNext
    BY <2>2, SameMoney DEF Refund, C!SettlementNext
  <2> QED
    BY <1>1, <1>2, <2>1, <2>2
       DEF Call, Assign, SubmitArtifact, CancelIfAssigned, RequestReview
<1>3. ASSUME NEW x \in Handlers, ReleaseReviewHold(x)
      PROVE  C!SettlementNext \/ UNCHANGED settlementVars
  <2>1. PICK h : h = handlers[x].hold
    OBVIOUS
  <2>2. PICK review : review = handlers[x].review
    OBVIOUS
  <2>3. h \in DOMAIN holds /\ VerdictGiven(review, holds[h].assignment)
    BY <1>3, <2>1, <2>2 DEF GatewayInv, HandlersStand, Standing,
       StandsByReview, HoldOf, ReleaseReviewHold, At
  <2>4. review \in R!ReviewId
    BY <2>3, GatewayAssumption
       DEF VerdictGiven, GatewayInv, C!ReviewInv, C!ReviewTypeOK, R!ReviewId
  <2>5. PICK evidence : evidence =
          [kind |-> "ReviewSubmitted", task |-> holds[h].task,
           assignment |-> holds[h].assignment, review |-> review]
    OBVIOUS
  <2>6. S!Release(h, evidence) \/ UNCHANGED settlementVars
    BY <1>3, <2>1, <2>2, <2>5 DEF ReleaseReviewHold
  <2> QED
    BY <2>3, <2>4, <2>5, <2>6, ReleaseMoves
<1>4. ASSUME NEW x \in Handlers, ReleaseExecuteHold(x)
      PROVE  C!SettlementNext \/ UNCHANGED settlementVars
  <2>1. PICK h : h = handlers[x].hold
    OBVIOUS
  <2>2. PICK review : review = handlers[x].review
    OBVIOUS
  <2>3. h \in DOMAIN holds /\ AcceptedIn(review, holds[h].assignment)
    BY <1>4, <2>1, <2>2 DEF GatewayInv, HandlersStand, Standing,
       StandsByWork, HoldOf, ReleaseExecuteHold, At
  <2>4. review \in R!ReviewId
    BY <2>3, GatewayAssumption
       DEF AcceptedIn, R!SessionsOf, GatewayInv, C!ReviewInv, C!ReviewTypeOK,
           R!ReviewId
  <2>5. PICK evidence : evidence =
          [kind |-> "AssignmentOutputAccepted", task |-> holds[h].task,
           assignment |-> holds[h].assignment, reviews |-> {review}]
    OBVIOUS
  <2>6. S!Release(h, evidence) \/ UNCHANGED settlementVars
    BY <1>4, <2>1, <2>2, <2>5 DEF ReleaseExecuteHold
  <2> QED
    BY <2>3, <2>4, <2>5, <2>6, ReleaseMoves
<1>5. ASSUME NEW x \in Handlers, Begin(x) \/ Proceed(x) \/ Drop(x)
      PROVE  C!SettlementNext \/ UNCHANGED settlementVars
  BY <1>3, <1>4, <1>5
     DEF Begin, Proceed, Drop, BeginSubmitReview, ReplaySubmitReview,
         BeginReleaseReview, BeginReleaseExecute, RecordVerdict, FinishKey,
         ListReviewHolds, ListExecuteHolds, ReadReviewStatus,
         ReadReviewVerdict, ReadExecuteStatus, ReadReviewers, ReadSessions
<1> QED
  BY <1>1, <1>2, <1>5 DEF GatewayNext, gatewayVars

LEMMA GatewayAccounts == GatewaySpec => []C!Accounting
<1>1. GatewayInit => C!Accounting
  <2> SUFFICES ASSUME GatewayInit PROVE C!Accounting
    OBVIOUS
  <2>1. /\ Publisher \in Agents /\ Funds \in {Price, Funds} \ {0}
        /\ Funds <= Funds
    BY GatewayAssumption DEF Agents
  <2> QED
    BY <2>1, CoreAssumptions, C!OneDepositIsAccounted DEF GatewayInit, Deposited
<1>2. GatewayInv /\ C!Accounting /\ [GatewayNext]_gatewayVars => C!Accounting'
  BY MoneyMoves, CoreAssumptions, C!NextKeepsAccounting DEF C!Accounting
<1> QED
  BY <1>1, <1>2, GatewayInvariant, PTL DEF GatewaySpec

(* However verdicts, settlements by hand, refunds and dropped handlers     *)
(* overlap, what was deposited is on an account or in an active hold, at   *)
(* most one of them for a piece of work, and the ledger tells of every     *)
(* hold once how it was opened and closed (settlement/core.rs:24-165;      *)
(* gateway.rs:35-281).                                                     *)
THEOREM MoneyIsAccountedFor ==
  GatewaySpec => [](/\ C!FundsConserved /\ C!OneActiveHoldPerSlot
                    /\ C!LedgerMatchesHolds)
<1>1. C!Accounting =>
        /\ C!FundsConserved /\ C!OneActiveHoldPerSlot
        /\ C!LedgerMatchesHolds
  BY DEF C!Accounting
<1> QED
  BY <1>1, GatewayAccounts, PTL

(* However two verdicts, a settlement by hand and a refund race, only the  *)
(* first of them moves the money of a hold, and its terms never change     *)
(* (settlement/core.rs:109-165; gateway.rs:35-281).                        *)
THEOREM PaidAtMostOnce == GatewaySpec => C!SettledHoldsAreFinal
<1>1. GatewayInv /\ C!Accounting /\ [GatewayNext]_gatewayVars
        => [\A h \in DOMAIN holds : C!HoldEvolves(h)]_(C!settlementVars)
  BY MoneyMoves, CoreAssumptions, C!NextEvolves DEF C!Accounting
<1> QED
  BY <1>1, GatewayAccounts, GatewayInvariant, PTL
     DEF GatewaySpec, C!SettledHoldsAreFinal

=============================================================================
