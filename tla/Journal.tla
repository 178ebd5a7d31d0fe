------------------------------ MODULE Journal -------------------------------
(***************************************************************************)
(* What the settlement component promises about its ledger, with nothing   *)
(* but the ledger in the state: an append-only journal in which every      *)
(* guard is read off the entries already written.  Settlement implements   *)
(* this specification although it keeps balances and hold statuses in maps *)
(* of its own and never looks at the ledger: that is the claim that the    *)
(* ledger alone is enough to audit, or to rebuild, the accounts.           *)
(***************************************************************************)
EXTENDS Integers, Sequences, Functions

CONSTANTS Agents, HoldIds, Amounts

VARIABLE journal

(* What one entry adds to the funds an agent may spend.                    *)
Effect(entry, agent) ==
  CASE entry.kind = "Deposited" /\ entry.agent = agent -> entry.amount
    [] entry.kind = "HoldCreated" /\ entry.from = agent -> 0 - entry.amount
    [] entry.kind \in {"Released", "Refunded"} /\ entry.to = agent
         -> entry.amount
    [] OTHER -> 0

Available(agent) ==
  SumFunction([i \in DOMAIN journal |-> Effect(journal[i], agent)])

Opening(h) ==
  {i \in DOMAIN journal : journal[i].kind = "HoldCreated" /\ journal[i].hold = h}

Closing(h) ==
  {i \in DOMAIN journal :
     journal[i].kind \in {"Released", "Refunded"} /\ journal[i].hold = h}

JournalInit == journal = << >>

RecordDeposit(agent, amount) ==
  /\ amount > 0
  /\ journal' = Append(journal,
                  [kind |-> "Deposited", agent |-> agent, amount |-> amount])

(* Only money that was deposited or received, and not spent, can be held.  *)
RecordHold(h, from, agent, amount) ==
  /\ amount > 0
  /\ Available(from) >= amount
  /\ Opening(h) = {}
  /\ journal' = Append(journal,
                  [kind |-> "HoldCreated", hold |-> h, from |-> from,
                   agent |-> agent, amount |-> amount])

(* A hold is closed once, for the amount it was opened with: by a release  *)
(* in favour of the agent named at the opening, or by a refund in favour   *)
(* of the one who paid.                                                    *)
RecordClose(h, kind) ==
  /\ Closing(h) = {}
  /\ \E i \in Opening(h) :
       journal' = Append(journal,
                    [kind |-> kind, hold |-> h,
                     to |-> IF kind = "Released" THEN journal[i].agent
                                                 ELSE journal[i].from,
                     amount |-> journal[i].amount])

JournalNext ==
  \/ \E agent \in Agents, amount \in Amounts : RecordDeposit(agent, amount)
  \/ \E h \in HoldIds, from \in Agents, agent \in Agents, amount \in Amounts :
       RecordHold(h, from, agent, amount)
  \/ \E h \in HoldIds, kind \in {"Released", "Refunded"} : RecordClose(h, kind)

JournalSpec == JournalInit /\ [][JournalNext]_journal

=============================================================================
