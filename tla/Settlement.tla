----------------------------- MODULE Settlement -----------------------------
(***************************************************************************)
(* SettlementCore (src/settlement/core.rs): the escrow of the platform.    *)
(*                                                                         *)
(* The service task owns the core and runs one command at a time, so one   *)
(* call of the core is one action.  A call that returns an error changes   *)
(* nothing, which is a stuttering step here: every `?` and early return of *)
(* the code is a conjunct of the action's guard.                           *)
(***************************************************************************)
EXTENDS Naturals, Sequences, FiniteSets, Functions

CONSTANTS
  Agents,       \* agent ids: payers and payees
  Tasks,        \* task ids
  Assignments,  \* assignment ids
  Reviews,      \* review ids, as the evidence of a release names them
  Amounts,      \* amounts a caller may ask for; zero is a legal input
  MaxBalance,   \* u64::MAX: the largest balance an account can hold
  MaxDeposits,  \* bound of the model: deposits that are recorded
  MaxHolds      \* bound of the model: hold ids that are given out

ASSUME AgentsAssumption == IsFiniteSet(Agents)
ASSUME AmountsAssumption == Amounts \subseteq Nat
ASSUME BoundsAssumption ==
  /\ MaxBalance \in Nat
  /\ MaxDeposits \in Nat
  /\ MaxHolds \in Nat

VARIABLES
  holds,        \* the holds ever made, by id
  balances,     \* the balance of every agent; an absent entry reads as 0
  ledger,       \* the append-only list of ledger entries
  nextHold      \* the number in the last hold id that was given out

settlementVars == <<holds, balances, ledger, nextHold>>

-----------------------------------------------------------------------------
(* Types.                                                                  *)

HoldKind == {"Execute", "Review"}
HoldStatus == {"Active", "Released", "Refunded"}

HoldId == 1 .. MaxHolds

HoldRequest ==
  [from : Agents, amount : Amounts, task : Tasks, assignment : Assignments,
   agent : Agents, kind : HoldKind]

Hold ==
  [from : Agents, amount : Amounts \ {0}, task : Tasks,
   assignment : Assignments, agent : Agents, kind : HoldKind,
   status : HoldStatus]

ReleaseEvidence ==
  [kind : {"AssignmentOutputAccepted"}, task : Tasks,
   assignment : Assignments, reviews : SUBSET Reviews]
    \cup
  [kind : {"ReviewSubmitted"}, task : Tasks, assignment : Assignments,
   review : Reviews]

(* Task and assignment ids of an entry are those of the hold it names.     *)
LedgerEntry ==
  [kind : {"Deposited"}, agent : Agents, amount : Amounts \ {0}]
    \cup
  [kind : {"HoldCreated"}, hold : HoldId, from : Agents, agent : Agents,
   amount : Amounts \ {0}]
    \cup
  [kind : {"Released", "Refunded"}, hold : HoldId, to : Agents,
   amount : Amounts \ {0}]

-----------------------------------------------------------------------------
(* Queries.                                                                *)

ActiveHolds == {h \in DOMAIN holds : holds[h].status = "Active"}

Exists(h) == h \in DOMAIN holds             \* fault: any status will do

(* active_hold: HoldNotFound or HoldNotActive unless the hold is active.   *)
IsActive(h) == h \in DOMAIN holds /\ holds[h].status = "Active"

ActiveHoldsForAgent(agent) ==
  {h \in ActiveHolds : agent \in {holds[h].from, holds[h].agent}}

ActiveHoldsForAssignment(assignment, kind) ==
  {h \in ActiveHolds :
     holds[h].assignment = assignment /\ holds[h].kind = kind}

(* fault: a second payer may hold for the same work.                       *)
TakenByPayer(request) ==
  \E h \in ActiveHolds :
    /\ holds[h].assignment = request.assignment
    /\ holds[h].kind = request.kind
    /\ holds[h].from = request.from

(* ActiveHoldAlreadyExists.                                                *)
Taken(request) ==
  \E h \in ActiveHolds :
    /\ holds[h].assignment = request.assignment
    /\ holds[h].kind = request.kind

NextHoldId == nextHold + 1

(* credit uses checked_add and fails on overflow before anything changes.  *)
WithinRange(agent, amount) == amount <= MaxBalance  \* fault: adds unchecked

CanCredit(agent, amount) == balances[agent] + amount <= MaxBalance

Credit(agent, amount) ==
  balances' = [balances EXCEPT ![agent] = @ + amount]

Debit(agent, amount) ==
  balances' = [balances EXCEPT ![agent] = @ - amount]

(* fault: money that is already held counts as available.                  *)
CanPayWithHeld(request) ==
  \/ balances[request.from] >= request.amount
  \/ \E h \in ActiveHolds : /\ holds[h].from = request.from
                            /\ holds[h].amount >= request.amount

(* InsufficientBalance.                                                    *)
CanPay(request) == balances[request.from] >= request.amount

(* validate_release_evidence: the evidence names the hold's own work and   *)
(* is of the sort the kind of the hold asks for.                           *)
EvidenceFits(hold, evidence) ==
  /\ evidence.task = hold.task
  /\ evidence.assignment = hold.assignment
  /\ \/ /\ evidence.kind = "AssignmentOutputAccepted"
        /\ hold.kind = "Execute"
        /\ evidence.reviews # {}
     \/ /\ evidence.kind = "ReviewSubmitted"
        /\ hold.kind = "Review"

-----------------------------------------------------------------------------
(* Operations.                                                             *)

SettlementInit ==
  /\ holds = [h \in {} |-> {}]
  /\ balances = [a \in Agents |-> 0]
  /\ ledger = << >>
  /\ nextHold = 0

DepositCount == Cardinality({i \in DOMAIN ledger : ledger[i].kind = "Deposited"})

DepositFunds(agent, amount) ==
  /\ DepositCount < MaxDeposits
  /\ amount # 0
  /\ CanCredit(agent, amount)
  /\ Credit(agent, amount)
  /\ ledger' = Append(ledger,
                  [kind |-> "Deposited", agent |-> agent, amount |-> amount])
  /\ UNCHANGED <<holds, nextHold>>

CreateHold(request) ==
  LET id == NextHoldId
  IN  /\ nextHold < MaxHolds
      /\ request.amount # 0
      /\ CanPay(request)
      /\ ~Taken(request)
      /\ nextHold' = id
      /\ Debit(request.from, request.amount)
      /\ holds' = [h \in DOMAIN holds \cup {id} |->
                     IF h = id
                     THEN [from |-> request.from, amount |-> request.amount,
                           task |-> request.task,
                           assignment |-> request.assignment,
                           agent |-> request.agent, kind |-> request.kind,
                           status |-> "Active"]
                     ELSE holds[h]]
      /\ ledger' = Append(ledger,
                      [kind |-> "HoldCreated", hold |-> id,
                       from |-> request.from, agent |-> request.agent,
                       amount |-> request.amount])

(* fault: the status is written first, and stays when the credit fails.    *)
SettleStatusFirst(h, to, status) ==
  /\ IsActive(h)
  /\ holds' = [holds EXCEPT ![h].status = status]
  /\ IF CanCredit(to, holds[h].amount)
     THEN /\ Credit(to, holds[h].amount)
          /\ ledger' = Append(ledger,
                          [kind |-> status, hold |-> h, to |-> to,
                           amount |-> holds[h].amount])
     ELSE UNCHANGED <<balances, ledger>>
  /\ UNCHANGED nextHold

(* What release and refund share: the hold is active, the money goes to    *)
(* one account, the hold takes its last status, and the ledger says so.    *)
Settle(h, to, status) ==
  /\ IsActive(h)
  /\ CanCredit(to, holds[h].amount)
  /\ Credit(to, holds[h].amount)
  /\ holds' = [holds EXCEPT ![h].status = status]
  /\ ledger' = Append(ledger,
                  [kind |-> status, hold |-> h, to |-> to,
                   amount |-> holds[h].amount])
  /\ UNCHANGED nextHold

Release(h, evidence) ==
  /\ h \in DOMAIN holds
  /\ EvidenceFits(holds[h], evidence)
  /\ Settle(h, holds[h].agent, "Released")

(* fault: the refund goes to the payee.                                    *)
RefundToPayee(h) ==
  /\ h \in DOMAIN holds
  /\ Settle(h, holds[h].agent, "Refunded")

Refund(h) ==
  /\ h \in DOMAIN holds
  /\ Settle(h, holds[h].from, "Refunded")

SettlementNext ==
  \/ \E agent \in Agents, amount \in Amounts : DepositFunds(agent, amount)
  \/ \E request \in HoldRequest : CreateHold(request)
  \/ \E h \in HoldId, evidence \in ReleaseEvidence : Release(h, evidence)
  \/ \E h \in HoldId : Refund(h)

SettlementSpec == SettlementInit /\ [][SettlementNext]_settlementVars

-----------------------------------------------------------------------------
(* Properties.                                                             *)

(* Every variable has its type: ids are given out without gaps and every   *)
(* balance is a u64 (core.rs:12-17).                                       *)
SettlementTypeOK ==
  /\ nextHold \in 0 .. MaxHolds
  /\ holds \in [1 .. nextHold -> Hold]
  /\ balances \in [Agents -> 0 .. MaxBalance]
  /\ ledger \in Seq(LedgerEntry)

(* hold() refuses a second active hold for the same assignment and kind    *)
(* (core.rs:67-77), so auto settlement finds at most one hold to pay.      *)
OneActiveHoldPerSlot ==
  \A g, h \in ActiveHolds :
    /\ holds[g].assignment = holds[h].assignment
    /\ holds[g].kind = holds[h].kind
    => g = h

(* The ledger and the holds tell the same story: each hold was created by  *)
(* exactly one entry, is closed by exactly one entry when it is settled    *)
(* and by none while it is active, and the closing entry moves the held    *)
(* amount to the payee on a release and back to the payer on a refund.     *)
EntriesFor(h, kinds) ==
  {i \in DOMAIN ledger : ledger[i].kind \in kinds /\ ledger[i].hold = h}

CreatedBy(h, i) ==
  ledger[i] = [kind |-> "HoldCreated", hold |-> h, from |-> holds[h].from,
               agent |-> holds[h].agent, amount |-> holds[h].amount]

ClosedBy(h, i) ==
  ledger[i] = [kind |-> holds[h].status, hold |-> h,
               to |-> IF holds[h].status = "Released" THEN holds[h].agent
                                                      ELSE holds[h].from,
               amount |-> holds[h].amount]

OpenedOnce(h) ==
  \E i \in DOMAIN ledger :
    EntriesFor(h, {"HoldCreated"}) = {i} /\ CreatedBy(h, i)

ClosedOnce(h) ==
  IF holds[h].status = "Active"
  THEN EntriesFor(h, {"Released", "Refunded"}) = {}
  ELSE \E i \in DOMAIN ledger :
         EntriesFor(h, {"Released", "Refunded"}) = {i} /\ ClosedBy(h, i)

NamesAHold(i) ==
  ledger[i].kind # "Deposited" => ledger[i].hold \in DOMAIN holds

LedgerMatchesHolds ==
  /\ \A h \in DOMAIN holds : OpenedOnce(h) /\ ClosedOnce(h)
  /\ \A i \in DOMAIN ledger : NamesAHold(i)

(* Once settled, a hold never changes again, and an active hold only ever  *)
(* changes its status: who pays, who is paid and how much is fixed when    *)
(* the hold is created (core.rs:209-222).                                  *)
HoldEvolves(h) ==
  /\ h \in DOMAIN holds'
  /\ \/ holds'[h] = holds[h]
     \/ /\ holds[h].status = "Active"
        /\ \E status \in {"Released", "Refunded"} :
             holds'[h] = [holds[h] EXCEPT !.status = status]

SettledHoldsAreFinal ==
  [][\A h \in DOMAIN holds : HoldEvolves(h)]_settlementVars

(* Money is neither made nor lost: what was deposited is on an account or  *)
(* in an active hold (core.rs:24-165).                                     *)
Deposited == {i \in DOMAIN ledger : ledger[i].kind = "Deposited"}

FundsConserved ==
  SumFunction(balances) + SumFunction([h \in ActiveHolds |-> holds[h].amount])
    = SumFunction([i \in Deposited |-> ledger[i].amount])

(* Settlement implements Journal: whatever the core appends to its ledger  *)
(* is justified by the entries before it (core.rs:24-165).                 *)
LedgerJournal == INSTANCE Journal WITH journal <- ledger, HoldIds <- HoldId

LedgerIsAJournal == LedgerJournal!JournalSpec

=============================================================================
