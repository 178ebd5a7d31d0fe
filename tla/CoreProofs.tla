------------------------------ MODULE CoreProofs ------------------------------
(***************************************************************************)
(* Theorems of the two cores that decide about money: Settlement and       *)
(* Review, for every set of agents, tasks, assignments, reviewers, targets *)
(* and amounts and for every bound.                                        *)
(*                                                                         *)
(* Sums of balances, and the digits of an id, are recursive.  What is said *)
(* about them for every input rests on a smallest counterexample: among    *)
(* the finite sets, or the numbers, for which a claim fails there is a     *)
(* minimal one (Smallest, LeastNumber), and the claim holds of it because  *)
(* it holds of everything below it.                                        *)
(***************************************************************************)
EXTENDS Settlement, Review, FiniteSetTheorems, SequenceTheorems,
        WellFoundedInduction, TLAPS

-----------------------------------------------------------------------------
(* Sums over finite sets.                                                  *)

(* The element that the fold of the library takes off a set first.         *)
Least(S) == CHOOSE x \in S : TRUE

(* g holds the sum of f over every subset of S.                            *)
IsPartial(f, S, g) ==
  g = [s \in SUBSET S |-> IF s = {} THEN 0 ELSE f[Least(s)] + g[s \ {Least(s)}]]

(* The library's sum is the recursive function its definition chooses.     *)
LEMMA SumIsIts ==
  ASSUME NEW f, NEW S
  PROVE SumFunctionOnSet(f, S) = (CHOOSE g : IsPartial(f, S, g))[S]
BY Zenon DEF SumFunctionOnSet, FoldFunctionOnSet, MapThenFoldSet, IsPartial, Least

(* Among finitely many finite sets one is minimal: the induction of this   *)
(* module, stated without an operator as a parameter.                      *)
LEMMA Smallest ==
  ASSUME NEW S, IsFiniteSet(S), NEW F, F \subseteq SUBSET S, F # {}
  PROVE \E s \in F : \A t \in F : t \subseteq s => t = s
<1>1. IsWellFoundedOn(StrictSubsetOrdering(S), FiniteSubsetsOf(S))
  BY FS_StrictSubsetOrderingWellFounded
<1>2. F \subseteq FiniteSubsetsOf(S)
  BY FS_FiniteSubsetsOfFinite
<1>3. \E x \in F : \A y \in F : ~ (<<y, x>> \in StrictSubsetOrdering(S))
  BY <1>1, <1>2, WFMin
<1> QED BY <1>3 DEF StrictSubsetOrdering

LEMMA LeastIsIn == ASSUME NEW S, S # {} PROVE Least(S) \in S
BY DEF Least

(* There is only one such function, however large the set it is for.       *)
LEMMA PartialsAgree ==
  ASSUME NEW f, NEW S, NEW g, NEW T, NEW h, IsFiniteSet(T), T \subseteq S,
         IsPartial(f, S, g), IsPartial(f, T, h)
  PROVE  \A s \in SUBSET T : g[s] = h[s]
<1> DEFINE F == {s \in SUBSET T : g[s] # h[s]}
<1> SUFFICES ASSUME F # {}
             PROVE  FALSE
  OBVIOUS
<1>1. PICK s \in F : \A t \in F : t \subseteq s => t = s
  <2>1. F \subseteq SUBSET T
    OBVIOUS
  <2> HIDE DEF F
  <2> QED BY <2>1, Smallest
<1>a. g[s] = IF s = {} THEN 0 ELSE f[Least(s)] + g[s \ {Least(s)}]
  <2>1. s \in SUBSET S
    OBVIOUS
  <2> QED BY <2>1 DEF IsPartial
<1>b. h[s] = IF s = {} THEN 0 ELSE f[Least(s)] + h[s \ {Least(s)}]
  <2>1. s \in SUBSET T
    OBVIOUS
  <2> QED BY <2>1 DEF IsPartial
<1>2. CASE s = {}
  BY <1>2, <1>a, <1>b
<1>3. CASE s # {}
  <2>1. Least(s) \in s
    BY <1>3, LeastIsIn
  <2>2. s \ {Least(s)} \in SUBSET T /\ s \ {Least(s)} \notin F
    BY <1>1, <2>1
  <2>3. g[s \ {Least(s)}] = h[s \ {Least(s)}]
    BY <2>2
  <2> QED
    BY <1>3, <2>3, <1>a, <1>b
<1> QED BY <1>2, <1>3

(* And there is one for every finite set.                                  *)
LEMMA PartialExists ==
  ASSUME NEW f, NEW S, IsFiniteSet(S)
  PROVE  \E g : IsPartial(f, S, g)
<1> DEFINE F == {s \in SUBSET S : ~ \E g : IsPartial(f, s, g)}
           it(s) == CHOOSE g : IsPartial(f, s, g)
<1> SUFFICES ASSUME F # {}
             PROVE  FALSE
  <2>1. S \in SUBSET S
    OBVIOUS
  <2> QED BY <2>1
<1>1. PICK s \in F : \A t \in F : t \subseteq s => t = s
  <2>1. F \subseteq SUBSET S
    OBVIOUS
  <2> HIDE DEF F
  <2> QED BY <2>1, Smallest
<1>f. \A t \in SUBSET s : IsFiniteSet(t)
  BY FS_Subset
<1>2. \A t \in SUBSET s : t # s => IsPartial(f, t, it(t))
  <2> TAKE t \in SUBSET s
  <2> HAVE t # s
  <2>1. t \notin F /\ t \in SUBSET S
    BY <1>1
  <2>2. \E g : IsPartial(f, t, g)
    BY <2>1
  <2> HIDE DEF F
  <2> QED BY <2>2
<1> DEFINE value(t) == IF t = {} THEN 0
                       ELSE f[Least(t)] + it(t \ {Least(t)})[t \ {Least(t)}]
           g == [t \in SUBSET s |-> value(t)]
<1>3. \A t \in SUBSET s : t # s => it(t)[t] = value(t)
  <2> TAKE t \in SUBSET s
  <2> HAVE t # s
  <2> DEFINE u == t \ {Least(t)}
  <2>1. IsPartial(f, t, it(t))
    BY <1>2
  <2>2. it(t)[t] = IF t = {} THEN 0 ELSE f[Least(t)] + it(t)[u]
    <3> HIDE DEF it
    <3>1. t \in SUBSET t
      OBVIOUS
    <3> QED BY <3>1, <2>1 DEF IsPartial
  <2>3. CASE t = {}
    BY <2>2, <2>3
  <2>4. CASE t # {}
    <3>1. Least(t) \in t
      BY <2>4, LeastIsIn
    <3>2. u \in SUBSET s /\ u # s /\ u \subseteq t
      BY <3>1
    <3>3. IsPartial(f, u, it(u)) /\ IsFiniteSet(u)
      BY <3>2, <1>2, <1>f
    <3>4. it(t)[u] = it(u)[u]
      <4> HIDE DEF it, u
      <4>1. u \in SUBSET u
        OBVIOUS
      <4> QED BY <4>1, <2>1, <3>2, <3>3, PartialsAgree
    <3> HIDE DEF it
    <3> QED BY <2>2, <2>4, <3>4
  <2> QED BY <2>3, <2>4
<1>4. IsPartial(f, s, g)
  <2>1. \A t \in SUBSET s :
          g[t] = IF t = {} THEN 0 ELSE f[Least(t)] + g[t \ {Least(t)}]
    <3> TAKE t \in SUBSET s
    <3> DEFINE u == t \ {Least(t)}
    <3> HIDE DEF it
    <3>1. CASE t = {}
      BY <3>1
    <3>2. CASE t # {}
      <4>1. Least(t) \in t
        BY <3>2, LeastIsIn
      <4>2. u \in SUBSET s /\ u # s
        BY <4>1
      <4>3. g[u] = it(u)[u]
        BY <4>2, <1>3
      <4> QED
        BY <3>2, <4>3
    <3> QED BY <3>1, <3>2
  <2>2. g = [t \in SUBSET s |-> g[t]]
    OBVIOUS
  <2> HIDE DEF g, it
  <2> QED BY <2>1, <2>2 DEF IsPartial
<1> QED
  BY <1>1, <1>4

(* So the sum is what its definition says.                                 *)
LEMMA SumUnfolds ==
  ASSUME NEW f, NEW S, IsFiniteSet(S)
  PROVE  SumFunctionOnSet(f, S) =
           IF S = {} THEN 0
           ELSE f[Least(S)] + SumFunctionOnSet(f, S \ {Least(S)})
<1> DEFINE it(s) == CHOOSE g : IsPartial(f, s, g)
           T == S \ {Least(S)}
<1>1. IsPartial(f, S, it(S))
  BY PartialExists
<1>2. T \in SUBSET S /\ IsFiniteSet(T)
  BY FS_Subset
<1>3. IsPartial(f, T, it(T))
  BY <1>2, PartialExists
<1>4. it(S)[T] = it(T)[T]
  <2> HIDE DEF it, T
  <2>1. T \in SUBSET T
    OBVIOUS
  <2> QED BY <2>1, <1>1, <1>2, <1>3, PartialsAgree
<1>5. it(S)[S] = IF S = {} THEN 0 ELSE f[Least(S)] + it(S)[T]
  <2> HIDE DEF it
  <2>1. S \in SUBSET S
    OBVIOUS
  <2> QED BY <1>1, <2>1 DEF IsPartial
<1>6. SumFunctionOnSet(f, S) = it(S)[S] /\ SumFunctionOnSet(f, T) = it(T)[T]
  BY SumIsIts
<1> QED
  BY <1>4, <1>5, <1>6

(* f is an integer on S; f and g are the same there.                       *)
IntOn(f, S) == \A x \in S : f[x] \in Int

Agree(f, g, S) == \A x \in S : f[x] = g[x]

LEMMA SumIsInt ==
  ASSUME NEW f, NEW S, IsFiniteSet(S), IntOn(f, S)
  PROVE  SumFunctionOnSet(f, S) \in Int
<1> DEFINE F == {s \in SUBSET S : SumFunctionOnSet(f, s) \notin Int}
<1> SUFFICES ASSUME F # {}
             PROVE  FALSE
  <2>1. S \in SUBSET S
    OBVIOUS
  <2> QED BY <2>1
<1>1. PICK s \in F : \A t \in F : t \subseteq s => t = s
  <2>1. F \subseteq SUBSET S
    OBVIOUS
  <2> HIDE DEF F
  <2> QED BY <2>1, Smallest
<1>2. s # {}
  <2>1. SumFunctionOnSet(f, {}) = 0
    BY FS_EmptySet, SumUnfolds
  <2> QED BY <2>1
<1>3. Least(s) \in s /\ IsFiniteSet(s)
  BY <1>2, LeastIsIn, FS_Subset
<1> DEFINE u == s \ {Least(s)}
<1>4. u \in SUBSET S /\ u # s
  BY <1>3
<1>5. SumFunctionOnSet(f, u) \in Int
  BY <1>1, <1>4
<1>6. f[Least(s)] \in Int
  BY <1>3 DEF IntOn
<1>7. SumFunctionOnSet(f, s) = f[Least(s)] + SumFunctionOnSet(f, u)
  BY <1>2, <1>3, SumUnfolds
<1> QED
  BY <1>5, <1>6, <1>7

(* Any element may be taken off first: the order does not matter.          *)
LEMMA SumWithout ==
  ASSUME NEW f, NEW S, IsFiniteSet(S), IntOn(f, S)
  PROVE  \A x \in S :
           SumFunctionOnSet(f, S) = f[x] + SumFunctionOnSet(f, S \ {x})
<1> DEFINE Fails(s, x) ==
             SumFunctionOnSet(f, s) # f[x] + SumFunctionOnSet(f, s \ {x})
           F == {s \in SUBSET S : \E x \in s : Fails(s, x)}
<1> SUFFICES ASSUME F # {}
             PROVE  FALSE
  <2>1. S \in SUBSET S
    OBVIOUS
  <2> QED BY <2>1
<1>1. PICK s \in F : \A t \in F : t \subseteq s => t = s
  <2>1. F \subseteq SUBSET S
    OBVIOUS
  <2> HIDE DEF F
  <2> QED BY <2>1, Smallest
<1>2. PICK x \in s : Fails(s, x)
  OBVIOUS
<1> DEFINE y == Least(s)
<1>3. y \in s /\ x \in s /\ s \in SUBSET S /\ s # {}
  BY <1>2, LeastIsIn
<1> DEFINE a == s \ {x}
           b == s \ {y}
           c == a \ {y}
<1>4. \A t \in SUBSET s : IsFiniteSet(t) /\ IntOn(f, t) /\ SumFunctionOnSet(f, t) \in Int
  <2> TAKE t \in SUBSET s
  <2>1. IsFiniteSet(t) /\ IntOn(f, t)
    BY <1>3, FS_Subset DEF IntOn
  <2> QED BY <2>1, SumIsInt
<1>5. SumFunctionOnSet(f, s) = f[y] + SumFunctionOnSet(f, b)
  BY <1>3, <1>4, SumUnfolds
<1>6. x # y
  BY <1>2, <1>5
<1>7. /\ a \in SUBSET S /\ y \in a /\ a # s /\ a \subseteq s
      /\ b \in SUBSET S /\ x \in b /\ b # s /\ b \subseteq s
      /\ c = b \ {x}
  BY <1>3, <1>6
<1>8. a \notin F /\ b \notin F
  <2> HIDE DEF F, a, b
  <2> QED BY <1>1, <1>7
<1>9. /\ SumFunctionOnSet(f, a) = f[y] + SumFunctionOnSet(f, c)
      /\ SumFunctionOnSet(f, b) = f[x] + SumFunctionOnSet(f, c)
  BY <1>7, <1>8
<1>10. f[x] \in Int /\ f[y] \in Int /\ SumFunctionOnSet(f, c) \in Int
  <2>1. c \in SUBSET s
    OBVIOUS
  <2> HIDE DEF c, y
  <2> QED BY <2>1, <1>3, <1>4 DEF IntOn
<1>11. SumFunctionOnSet(f, s) = f[x] + SumFunctionOnSet(f, a)
  <2> HIDE DEF a, b, c, y
  <2> QED BY <1>5, <1>9, <1>10
<1> QED
  BY <1>2, <1>11

(* A sum depends on nothing but the terms of its set.                      *)
LEMMA SameSum ==
  ASSUME NEW f, NEW g, NEW S, IsFiniteSet(S), Agree(f, g, S)
  PROVE  SumFunctionOnSet(f, S) = SumFunctionOnSet(g, S)
<1> DEFINE F == {s \in SUBSET S : SumFunctionOnSet(f, s) # SumFunctionOnSet(g, s)}
<1> SUFFICES ASSUME F # {}
             PROVE  FALSE
  <2>1. S \in SUBSET S
    OBVIOUS
  <2> QED BY <2>1
<1>1. PICK s \in F : \A t \in F : t \subseteq s => t = s
  <2>1. F \subseteq SUBSET S
    OBVIOUS
  <2> HIDE DEF F
  <2> QED BY <2>1, Smallest
<1>2. IsFiniteSet(s)
  BY FS_Subset
<1>3. CASE s = {}
  BY <1>2, <1>3, SumUnfolds
<1>4. CASE s # {}
  <2> DEFINE u == s \ {Least(s)}
  <2>1. Least(s) \in s
    BY <1>4, LeastIsIn
  <2>2. u \in SUBSET S /\ u # s /\ u \subseteq s
    BY <2>1
  <2>3. SumFunctionOnSet(f, u) = SumFunctionOnSet(g, u)
    BY <1>1, <2>2
  <2>4. /\ SumFunctionOnSet(f, s) = f[Least(s)] + SumFunctionOnSet(f, u)
        /\ SumFunctionOnSet(g, s) = g[Least(s)] + SumFunctionOnSet(g, u)
    BY <1>2, <1>4, SumUnfolds
  <2> QED
    BY <2>1, <2>3, <2>4 DEF Agree
<1> QED BY <1>3, <1>4

(* From f to g one term of the sum over S changes.                         *)
ChangesAt(f, g, S, x) ==
  /\ IsFiniteSet(S) /\ x \in S
  /\ IntOn(f, S) /\ IntOn(g, S) /\ Agree(f, g, S \ {x})

LEMMA SumChanges ==
  ASSUME NEW f, NEW g, NEW S, NEW x, ChangesAt(f, g, S, x)
  PROVE  /\ SumFunctionOnSet(g, S) = SumFunctionOnSet(f, S) - f[x] + g[x]
         /\ SumFunctionOnSet(f, S) \in Int /\ f[x] \in Int /\ g[x] \in Int
<1> USE DEF ChangesAt
<1> DEFINE u == S \ {x}
<1>1. IsFiniteSet(u) /\ IntOn(f, u)
  BY FS_Subset DEF IntOn
<1>2. SumFunctionOnSet(f, u) = SumFunctionOnSet(g, u)
  BY <1>1, SameSum
<1>3. SumFunctionOnSet(f, u) \in Int /\ SumFunctionOnSet(f, S) \in Int
  BY <1>1, SumIsInt
<1>4. /\ SumFunctionOnSet(f, S) = f[x] + SumFunctionOnSet(f, u)
      /\ SumFunctionOnSet(g, S) = g[x] + SumFunctionOnSet(g, u)
  BY SumWithout
<1> QED
  BY <1>2, <1>3, <1>4 DEF IntOn

(* From f to g the sum gets one term more.                                 *)
GrowsAt(f, g, S, T, x) ==
  /\ IsFiniteSet(S) /\ x \notin S /\ T = S \cup {x}
  /\ IntOn(g, T) /\ Agree(f, g, S)

LEMMA SumGrows ==
  ASSUME NEW f, NEW g, NEW S, NEW T, NEW x, GrowsAt(f, g, S, T, x)
  PROVE  /\ SumFunctionOnSet(g, T) = SumFunctionOnSet(f, S) + g[x]
         /\ SumFunctionOnSet(f, S) \in Int /\ g[x] \in Int
<1> USE DEF GrowsAt
<1>1. IsFiniteSet(T) /\ T \ {x} = S /\ x \in T
  BY FS_AddElement
<1>2. SumFunctionOnSet(g, T) = g[x] + SumFunctionOnSet(g, S)
  BY <1>1, SumWithout
<1>3. SumFunctionOnSet(f, S) = SumFunctionOnSet(g, S)
  BY SameSum
<1>4. IntOn(g, S)
  BY DEF IntOn
<1>5. SumFunctionOnSet(g, S) \in Int /\ g[x] \in Int
  BY <1>4, SumIsInt DEF IntOn
<1> QED
  BY <1>2, <1>3, <1>5

LEMMA SumOfZeros ==
  ASSUME NEW f, NEW S, IsFiniteSet(S), \A x \in S : f[x] = 0
  PROVE  SumFunctionOnSet(f, S) = 0
<1> DEFINE F == {s \in SUBSET S : SumFunctionOnSet(f, s) # 0}
<1> SUFFICES ASSUME F # {}
             PROVE  FALSE
  <2>1. S \in SUBSET S
    OBVIOUS
  <2> QED BY <2>1
<1>1. PICK s \in F : \A t \in F : t \subseteq s => t = s
  <2>1. F \subseteq SUBSET S
    OBVIOUS
  <2> HIDE DEF F
  <2> QED BY <2>1, Smallest
<1>2. IsFiniteSet(s)
  BY FS_Subset
<1>3. SumFunctionOnSet(f, s) = IF s = {} THEN 0
         ELSE f[Least(s)] + SumFunctionOnSet(f, s \ {Least(s)})
  BY <1>2, SumUnfolds
<1>4. CASE s # {}
  <2>1. Least(s) \in s
    BY <1>4, LeastIsIn
  <2>2. s \ {Least(s)} \in SUBSET S /\ s \ {Least(s)} \notin F
    BY <1>1, <2>1
  <2> QED
    BY <1>3, <1>4, <2>1, <2>2
<1> QED
  BY <1>3, <1>4

-----------------------------------------------------------------------------
(* Type correctness.                                                       *)

LEMMA InitTypeOK == SettlementInit => SettlementTypeOK
<1> SUFFICES ASSUME SettlementInit
             PROVE  SettlementTypeOK
  OBVIOUS
<1>1. nextHold \in 0 .. MaxHolds /\ holds \in [1 .. nextHold -> Hold]
  BY BoundsAssumption DEF SettlementInit
<1>2. balances \in [Agents -> 0 .. MaxBalance]
  BY BoundsAssumption DEF SettlementInit
<1>3. ledger \in Seq(LedgerEntry)
  BY DEF SettlementInit
<1> QED
  BY <1>1, <1>2, <1>3 DEF SettlementTypeOK

(* A settled hold leaves types as they were: used by Release and Refund.   *)
LEMMA SettleTypeOK ==
  ASSUME SettlementTypeOK, NEW h \in DOMAIN holds, NEW to \in Agents,
         NEW status \in {"Released", "Refunded"}, Settle(h, to, status)
  PROVE  SettlementTypeOK'
<1>1. holds[h] \in Hold /\ holds[h].amount \in Amounts \ {0}
  BY DEF SettlementTypeOK, Hold
<1>2. holds[h].amount \in Nat
  BY <1>1, AmountsAssumption
<1>3. h \in HoldId /\ nextHold' = nextHold
  BY BoundsAssumption DEF SettlementTypeOK, HoldId, Settle
<1>4. holds' \in [1 .. nextHold' -> Hold]
  <2>1. [holds[h] EXCEPT !.status = status] \in Hold
    BY <1>1 DEF Hold, HoldStatus
  <2>2. holds' = [holds EXCEPT ![h].status = status]
    BY DEF Settle
  <2> QED
    BY <2>1, <2>2, <1>3 DEF SettlementTypeOK
<1>5. balances' \in [Agents -> 0 .. MaxBalance]
  BY <1>2, BoundsAssumption DEF Settle, Credit, CanCredit, SettlementTypeOK
<1>6. ledger' \in Seq(LedgerEntry)
  <2>1. [kind |-> status, hold |-> h, to |-> to, amount |-> holds[h].amount]
           \in LedgerEntry
    BY <1>1, <1>3 DEF LedgerEntry
  <2> QED
    BY <2>1 DEF Settle, SettlementTypeOK
<1> QED
  BY <1>3, <1>4, <1>5, <1>6 DEF SettlementTypeOK

LEMMA NextTypeOK ==
  SettlementTypeOK /\ [SettlementNext]_settlementVars => SettlementTypeOK'
<1> SUFFICES ASSUME SettlementTypeOK, [SettlementNext]_settlementVars
             PROVE  SettlementTypeOK'
  OBVIOUS
<1>1. ASSUME NEW agent \in Agents, NEW amount \in Amounts,
             DepositFunds(agent, amount)
      PROVE  SettlementTypeOK'
  <2>1. balances' \in [Agents -> 0 .. MaxBalance]
    BY <1>1, AmountsAssumption, BoundsAssumption
       DEF DepositFunds, Credit, CanCredit, SettlementTypeOK
  <2>2. ledger' \in Seq(LedgerEntry)
    <3>1. [kind |-> "Deposited", agent |-> agent, amount |-> amount]
             \in LedgerEntry
      BY <1>1 DEF DepositFunds, LedgerEntry
    <3> QED
      BY <1>1, <3>1 DEF DepositFunds, SettlementTypeOK
  <2> QED
    BY <1>1, <2>1, <2>2 DEF DepositFunds, SettlementTypeOK
<1>2. ASSUME NEW request \in HoldRequest, CreateHold(request)
      PROVE  SettlementTypeOK'
  <2>1. /\ request.from \in Agents /\ request.amount \in Amounts \ {0}
        /\ request.agent \in Agents /\ request.amount \in Nat
    BY <1>2, AmountsAssumption DEF HoldRequest, CreateHold
  <2>2. /\ nextHold' = nextHold + 1 /\ nextHold' \in 1 .. MaxHolds
        /\ nextHold \in Nat
    BY <1>2, BoundsAssumption DEF CreateHold, NextHoldId, SettlementTypeOK
  <2>3. holds' \in [1 .. nextHold' -> Hold]
    <3>1. [from |-> request.from, amount |-> request.amount,
           task |-> request.task, assignment |-> request.assignment,
           agent |-> request.agent, kind |-> request.kind,
           status |-> "Active"] \in Hold
      BY <2>1 DEF HoldRequest, Hold, HoldStatus
    <3>2. DOMAIN holds \cup {nextHold + 1} = 1 .. nextHold'
      BY <2>2 DEF SettlementTypeOK
    <3> QED
      BY <1>2, <3>1, <3>2 DEF CreateHold, NextHoldId, SettlementTypeOK
  <2>4. balances' \in [Agents -> 0 .. MaxBalance]
    BY <1>2, <2>1, BoundsAssumption
       DEF CreateHold, CanPay, Debit, SettlementTypeOK
  <2>5. ledger' \in Seq(LedgerEntry)
    <3>1. [kind |-> "HoldCreated", hold |-> nextHold + 1,
           from |-> request.from, agent |-> request.agent,
           amount |-> request.amount] \in LedgerEntry
      BY <2>1, <2>2 DEF LedgerEntry, HoldId
    <3> QED
      BY <1>2, <3>1 DEF CreateHold, NextHoldId, SettlementTypeOK
  <2> QED
    BY <2>2, <2>3, <2>4, <2>5 DEF SettlementTypeOK
<1>3. ASSUME NEW h \in HoldId, NEW evidence \in ReleaseEvidence,
             Release(h, evidence)
      PROVE  SettlementTypeOK'
  BY <1>3, SettleTypeOK DEF Release, SettlementTypeOK, Hold
<1>4. ASSUME NEW h \in HoldId, Refund(h)
      PROVE  SettlementTypeOK'
  BY <1>4, SettleTypeOK DEF Refund, SettlementTypeOK, Hold
<1>5. CASE UNCHANGED settlementVars
  BY <1>5 DEF settlementVars, SettlementTypeOK
<1> QED
  BY <1>1, <1>2, <1>3, <1>4, <1>5 DEF SettlementNext

(* The core keeps its types: hold ids are gap free, balances stay within   *)
(* u64 and never wrap, in every run of core.rs:24-165.                     *)
THEOREM SettlementTypeCorrect == SettlementSpec => []SettlementTypeOK
  BY InitTypeOK, NextTypeOK, PTL DEF SettlementSpec

-----------------------------------------------------------------------------
(* What one step does to the holds.                                        *)

LEMMA CreateHoldEffect ==
  ASSUME SettlementTypeOK, NEW request \in HoldRequest, CreateHold(request)
  PROVE  /\ nextHold + 1 \notin DOMAIN holds
         /\ DOMAIN holds' = DOMAIN holds \cup {nextHold + 1}
         /\ \A h \in DOMAIN holds : holds'[h] = holds[h]
         /\ holds'[nextHold + 1].from = request.from
         /\ holds'[nextHold + 1].agent = request.agent
         /\ holds'[nextHold + 1].amount = request.amount
         /\ holds'[nextHold + 1].assignment = request.assignment
         /\ holds'[nextHold + 1].kind = request.kind
         /\ holds'[nextHold + 1].status = "Active"
<1>1. nextHold \in Nat /\ DOMAIN holds = 1 .. nextHold
  BY BoundsAssumption DEF SettlementTypeOK
<1>2. nextHold + 1 \notin DOMAIN holds
  BY <1>1
<1>3. holds' = [h \in DOMAIN holds \cup {nextHold + 1} |->
                  IF h = nextHold + 1
                  THEN [from |-> request.from, amount |-> request.amount,
                        task |-> request.task,
                        assignment |-> request.assignment,
                        agent |-> request.agent, kind |-> request.kind,
                        status |-> "Active"]
                  ELSE holds[h]]
  BY DEF CreateHold, NextHoldId
<1>4. \A h \in DOMAIN holds : holds'[h] = holds[h]
  BY <1>2, <1>3
<1> QED
  BY <1>2, <1>3, <1>4

LEMMA SettleEffect ==
  ASSUME SettlementTypeOK, NEW h \in DOMAIN holds, NEW to,
         NEW status \in {"Released", "Refunded"}, Settle(h, to, status)
  PROVE  /\ h \in ActiveHolds
         /\ holds[h].status = "Active"
         /\ DOMAIN holds' = DOMAIN holds
         /\ holds'[h].status = status
         /\ holds'[h].from = holds[h].from
         /\ holds'[h].agent = holds[h].agent
         /\ holds'[h].amount = holds[h].amount
         /\ \A g \in DOMAIN holds \ {h} : holds'[g] = holds[g]
         /\ ActiveHolds' = ActiveHolds \ {h}
<1>1. holds[h] \in Hold
  BY DEF SettlementTypeOK
<1>2. holds' = [holds EXCEPT ![h].status = status]
  BY DEF Settle
<1>3. /\ DOMAIN holds' = DOMAIN holds
      /\ holds'[h] = [holds[h] EXCEPT !.status = status]
      /\ \A g \in DOMAIN holds \ {h} : holds'[g] = holds[g]
  BY <1>2
<1>4. /\ holds'[h].status = status
      /\ holds'[h].from = holds[h].from
      /\ holds'[h].agent = holds[h].agent
      /\ holds'[h].amount = holds[h].amount
  BY <1>1, <1>3 DEF Hold
<1>5. h \in ActiveHolds /\ holds[h].status = "Active"
  BY DEF Settle, IsActive, ActiveHolds
<1>6. ActiveHolds' = ActiveHolds \ {h}
  BY <1>3, <1>4 DEF ActiveHolds
<1> QED
  BY <1>3, <1>4, <1>5, <1>6

-----------------------------------------------------------------------------
(* One active hold per assignment and kind.                                *)

LEMMA SettleKeepsSlots ==
  ASSUME SettlementTypeOK, OneActiveHoldPerSlot, NEW h \in DOMAIN holds,
         NEW to, NEW status \in {"Released", "Refunded"},
         Settle(h, to, status)
  PROVE  OneActiveHoldPerSlot'
<1>1. ActiveHolds' = ActiveHolds \ {h}
  BY SettleEffect
<1>2. \A g \in ActiveHolds' : holds'[g] = holds[g]
  BY <1>1, SettleEffect DEF ActiveHolds
<1> QED
  BY <1>1, <1>2 DEF OneActiveHoldPerSlot

LEMMA NextKeepsSlots ==
  /\ SettlementTypeOK /\ OneActiveHoldPerSlot
  /\ [SettlementNext]_settlementVars
  => OneActiveHoldPerSlot'
<1> SUFFICES ASSUME SettlementTypeOK, OneActiveHoldPerSlot,
                    [SettlementNext]_settlementVars
             PROVE  OneActiveHoldPerSlot'
  OBVIOUS
<1>1. ASSUME NEW agent \in Agents, NEW amount \in Amounts,
             DepositFunds(agent, amount)
      PROVE  OneActiveHoldPerSlot'
  BY <1>1 DEF DepositFunds, OneActiveHoldPerSlot, ActiveHolds
<1>2. ASSUME NEW request \in HoldRequest, CreateHold(request)
      PROVE  OneActiveHoldPerSlot'
  <2>1. ActiveHolds' = ActiveHolds \cup {nextHold + 1}
    BY <1>2, CreateHoldEffect DEF ActiveHolds
  <2>2. \A g \in ActiveHolds :
          /\ holds'[g] = holds[g]
          /\ ~ /\ holds[g].assignment = request.assignment
               /\ holds[g].kind = request.kind
    BY <1>2, CreateHoldEffect DEF ActiveHolds, CreateHold, Taken
  <2>3. /\ holds'[nextHold + 1].assignment = request.assignment
        /\ holds'[nextHold + 1].kind = request.kind
    BY <1>2, CreateHoldEffect
  <2> QED
    BY <2>1, <2>2, <2>3 DEF OneActiveHoldPerSlot
<1>3. ASSUME NEW h \in HoldId, NEW evidence \in ReleaseEvidence,
             Release(h, evidence)
      PROVE  OneActiveHoldPerSlot'
  BY <1>3, SettleKeepsSlots DEF Release
<1>4. ASSUME NEW h \in HoldId, Refund(h)
      PROVE  OneActiveHoldPerSlot'
  BY <1>4, SettleKeepsSlots DEF Refund
<1>5. CASE UNCHANGED settlementVars
  BY <1>5 DEF settlementVars, OneActiveHoldPerSlot, ActiveHolds
<1> QED
  BY <1>1, <1>2, <1>3, <1>4, <1>5 DEF SettlementNext

(* At most one active hold per assignment and kind, whatever callers ask   *)
(* for and in whatever order (core.rs:67-77): the gateway that lists the   *)
(* holds of an assignment never has two to pay.                            *)
THEOREM SlotsAreExclusive == SettlementSpec => []OneActiveHoldPerSlot
<1>1. SettlementInit => OneActiveHoldPerSlot
  BY DEF SettlementInit, OneActiveHoldPerSlot, ActiveHolds
<1> QED
  BY <1>1, SettlementTypeCorrect, NextKeepsSlots, PTL DEF SettlementSpec

-----------------------------------------------------------------------------
(* A settled hold is final.                                                *)

LEMMA NextEvolves ==
  SettlementTypeOK /\ [SettlementNext]_settlementVars
    => \A h \in DOMAIN holds : HoldEvolves(h)
<1> SUFFICES ASSUME SettlementTypeOK, [SettlementNext]_settlementVars,
                    NEW h \in DOMAIN holds
             PROVE  HoldEvolves(h)
  OBVIOUS
<1>1. ASSUME NEW agent \in Agents, NEW amount \in Amounts,
             DepositFunds(agent, amount)
      PROVE  HoldEvolves(h)
  BY <1>1 DEF DepositFunds, HoldEvolves
<1>2. ASSUME NEW request \in HoldRequest, CreateHold(request)
      PROVE  HoldEvolves(h)
  BY <1>2, CreateHoldEffect DEF HoldEvolves
<1>3. ASSUME NEW g \in DOMAIN holds, NEW to,
             NEW status \in {"Released", "Refunded"}, Settle(g, to, status)
      PROVE  HoldEvolves(h)
  <2>1. /\ holds' = [holds EXCEPT ![g].status = status]
        /\ holds[g].status = "Active"
    BY <1>3 DEF Settle, IsActive
  <2>2. /\ DOMAIN holds' = DOMAIN holds
        /\ h # g => holds'[h] = holds[h]
        /\ h = g => holds'[h] = [holds[h] EXCEPT !.status = status]
    BY <2>1
  <2> QED
    BY <1>3, <2>1, <2>2 DEF HoldEvolves
<1>4. CASE UNCHANGED settlementVars
  BY <1>4 DEF settlementVars, HoldEvolves
<1> QED
  BY <1>1, <1>2, <1>3, <1>4 DEF SettlementNext, Release, Refund

(* A hold is paid out or paid back at most once, and its terms never       *)
(* change, under any interleaving of the callers of release and refund     *)
(* (core.rs:109-165).                                                      *)
THEOREM SettledHoldsStayFinal == SettlementSpec => SettledHoldsAreFinal
<1>1. SettlementTypeOK /\ [SettlementNext]_settlementVars
        => [\A h \in DOMAIN holds : HoldEvolves(h)]_settlementVars
  BY NextEvolves
<1> QED
  BY <1>1, SettlementTypeCorrect, PTL DEF SettlementSpec, SettledHoldsAreFinal

-----------------------------------------------------------------------------
(* The ledger matches the holds.                                           *)

LEMMA AppendEffect ==
  ASSUME ledger \in Seq(LedgerEntry), NEW entry, ledger' = Append(ledger, entry)
  PROVE  /\ Len(ledger) + 1 \notin DOMAIN ledger
         /\ DOMAIN ledger' = DOMAIN ledger \cup {Len(ledger) + 1}
         /\ \A i \in DOMAIN ledger : ledger'[i] = ledger[i]
         /\ ledger'[Len(ledger) + 1] = entry
<1>1. Len(ledger) \in Nat /\ DOMAIN ledger = 1 .. Len(ledger)
  OBVIOUS
<1>2. Len(ledger') = Len(ledger) + 1 /\ DOMAIN ledger' = 1 .. Len(ledger')
  OBVIOUS
<1>3. \A i \in DOMAIN ledger : ledger'[i] = ledger[i]
  OBVIOUS
<1>4. ledger'[Len(ledger) + 1] = entry
  OBVIOUS
<1> QED
  BY <1>1, <1>2, <1>3, <1>4

(* A hold that an entry does not concern keeps its place in the ledger.    *)
LEMMA UnconcernedHold ==
  ASSUME ledger \in Seq(LedgerEntry), NEW entry, ledger' = Append(ledger, entry),
         NEW h \in DOMAIN holds, holds'[h] = holds[h],
         entry.kind = "Deposited" \/ entry.hold # h,
         OpenedOnce(h), ClosedOnce(h)
  PROVE  OpenedOnce(h)' /\ ClosedOnce(h)'
<1>1. /\ EntriesFor(h, {"HoldCreated"})' = EntriesFor(h, {"HoldCreated"})
      /\ EntriesFor(h, {"Released", "Refunded"})'
           = EntriesFor(h, {"Released", "Refunded"})
  BY AppendEffect DEF EntriesFor
<1>2. \A i \in DOMAIN ledger : i \in DOMAIN ledger' /\ ledger'[i] = ledger[i]
  BY AppendEffect
<1> QED
  BY <1>1, <1>2 DEF OpenedOnce, ClosedOnce, CreatedBy, ClosedBy

LEMMA CreateHoldKeepsMatch ==
  ASSUME SettlementTypeOK, LedgerMatchesHolds, NEW request \in HoldRequest,
         CreateHold(request)
  PROVE  LedgerMatchesHolds'
<1> PICK id : id = nextHold + 1
  OBVIOUS
<1> DEFINE entry == [kind |-> "HoldCreated", hold |-> id,
                     from |-> request.from, agent |-> request.agent,
                     amount |-> request.amount]
<1>1. ledger \in Seq(LedgerEntry) /\ ledger' = Append(ledger, entry)
  BY DEF SettlementTypeOK, CreateHold, NextHoldId
<1>2. EntriesFor(id, {"HoldCreated", "Released", "Refunded"}) = {}
  BY CreateHoldEffect DEF LedgerMatchesHolds, NamesAHold, EntriesFor
<1>3. EntriesFor(id, {"HoldCreated"})' = {Len(ledger) + 1}
  <2>1. EntriesFor(id, {"HoldCreated"}) = {}
    BY <1>2 DEF EntriesFor
  <2> QED
    BY <1>1, <2>1, AppendEffect DEF EntriesFor
<1>4. EntriesFor(id, {"Released", "Refunded"})' = {}
  <2>1. EntriesFor(id, {"Released", "Refunded"}) = {}
    BY <1>2 DEF EntriesFor
  <2> QED
    BY <1>1, <2>1, AppendEffect DEF EntriesFor
<1>5. OpenedOnce(id)' /\ ClosedOnce(id)'
  BY <1>1, <1>3, <1>4, AppendEffect, CreateHoldEffect
     DEF OpenedOnce, ClosedOnce, CreatedBy
<1>6. ASSUME NEW h \in DOMAIN holds
      PROVE  OpenedOnce(h)' /\ ClosedOnce(h)'
  BY <1>1, <1>6, UnconcernedHold, CreateHoldEffect DEF LedgerMatchesHolds
<1>7. ASSUME NEW i \in DOMAIN ledger'
      PROVE  NamesAHold(i)'
  BY <1>1, <1>7, AppendEffect, CreateHoldEffect
     DEF LedgerMatchesHolds, NamesAHold
<1> QED
  BY <1>5, <1>6, <1>7, CreateHoldEffect DEF LedgerMatchesHolds

LEMMA SettleKeepsMatch ==
  ASSUME SettlementTypeOK, LedgerMatchesHolds, NEW h \in DOMAIN holds,
         NEW status \in {"Released", "Refunded"}, NEW to,
         to = IF status = "Released" THEN holds[h].agent ELSE holds[h].from,
         Settle(h, to, status)
  PROVE  LedgerMatchesHolds'
<1> DEFINE entry == [kind |-> status, hold |-> h, to |-> to,
                     amount |-> holds[h].amount]
<1>1. ledger \in Seq(LedgerEntry) /\ ledger' = Append(ledger, entry)
  BY DEF SettlementTypeOK, Settle
<1>2. /\ holds[h].status = "Active" /\ DOMAIN holds' = DOMAIN holds
      /\ holds'[h].status = status
      /\ \A g \in DOMAIN holds \ {h} : holds'[g] = holds[g]
  BY SettleEffect
<1>3. /\ holds'[h].from = holds[h].from /\ holds'[h].agent = holds[h].agent
      /\ holds'[h].amount = holds[h].amount
  BY SettleEffect
<1>4. EntriesFor(h, {"HoldCreated"})' = EntriesFor(h, {"HoldCreated"})
  BY <1>1, AppendEffect DEF EntriesFor
<1>5. EntriesFor(h, {"Released", "Refunded"})' = {Len(ledger) + 1}
  <2>1. EntriesFor(h, {"Released", "Refunded"}) = {}
    BY <1>2 DEF LedgerMatchesHolds, ClosedOnce
  <2> QED
    BY <1>1, <2>1, AppendEffect DEF EntriesFor
<1>6. OpenedOnce(h)'
  BY <1>1, <1>3, <1>4, AppendEffect
     DEF LedgerMatchesHolds, OpenedOnce, CreatedBy
<1>7. ClosedOnce(h)'
  BY <1>1, <1>2, <1>3, <1>5, AppendEffect DEF ClosedOnce, ClosedBy
<1>8. ASSUME NEW g \in DOMAIN holds \ {h}
      PROVE  OpenedOnce(g)' /\ ClosedOnce(g)'
  BY <1>1, <1>2, <1>8, UnconcernedHold DEF LedgerMatchesHolds
<1>9. ASSUME NEW i \in DOMAIN ledger'
      PROVE  NamesAHold(i)'
  BY <1>1, <1>2, <1>9, AppendEffect DEF LedgerMatchesHolds, NamesAHold
<1> QED
  BY <1>2, <1>6, <1>7, <1>8, <1>9 DEF LedgerMatchesHolds

LEMMA NextKeepsMatch ==
  /\ SettlementTypeOK /\ LedgerMatchesHolds
  /\ [SettlementNext]_settlementVars
  => LedgerMatchesHolds'
<1> SUFFICES ASSUME SettlementTypeOK, LedgerMatchesHolds,
                    [SettlementNext]_settlementVars
             PROVE  LedgerMatchesHolds'
  OBVIOUS
<1>1. ASSUME NEW agent \in Agents, NEW amount \in Amounts,
             DepositFunds(agent, amount)
      PROVE  LedgerMatchesHolds'
  <2> DEFINE entry ==
        [kind |-> "Deposited", agent |-> agent, amount |-> amount]
  <2>1. /\ ledger \in Seq(LedgerEntry) /\ ledger' = Append(ledger, entry)
        /\ holds' = holds
    BY <1>1 DEF SettlementTypeOK, DepositFunds
  <2>2. ASSUME NEW h \in DOMAIN holds
        PROVE  OpenedOnce(h)' /\ ClosedOnce(h)'
    BY <2>1, <2>2, UnconcernedHold DEF LedgerMatchesHolds
  <2>3. ASSUME NEW i \in DOMAIN ledger'
        PROVE  NamesAHold(i)'
    BY <2>1, <2>3, AppendEffect DEF LedgerMatchesHolds, NamesAHold
  <2> QED
    BY <2>1, <2>2, <2>3 DEF LedgerMatchesHolds
<1>2. ASSUME NEW request \in HoldRequest, CreateHold(request)
      PROVE  LedgerMatchesHolds'
  BY <1>2, CreateHoldKeepsMatch
<1>3. ASSUME NEW h \in HoldId, NEW evidence \in ReleaseEvidence,
             Release(h, evidence)
      PROVE  LedgerMatchesHolds'
  BY <1>3, SettleKeepsMatch DEF Release
<1>4. ASSUME NEW h \in HoldId, Refund(h)
      PROVE  LedgerMatchesHolds'
  BY <1>4, SettleKeepsMatch DEF Refund
<1>5. CASE UNCHANGED settlementVars
  BY <1>5 DEF settlementVars, LedgerMatchesHolds, OpenedOnce, ClosedOnce,
              NamesAHold, EntriesFor, CreatedBy, ClosedBy
<1> QED
  BY <1>1, <1>2, <1>3, <1>4, <1>5 DEF SettlementNext

(* The ledger is a faithful trail of the holds: whoever replays it knows   *)
(* which holds exist, which are open, and who got the money of the closed  *)
(* ones, although the core never reads it back (core.rs:94-162).           *)
THEOREM LedgerIsFaithful == SettlementSpec => []LedgerMatchesHolds
<1>1. SettlementInit => LedgerMatchesHolds
  BY DEF SettlementInit, LedgerMatchesHolds
<1> QED
  BY <1>1, SettlementTypeCorrect, NextKeepsMatch, PTL DEF SettlementSpec

-----------------------------------------------------------------------------
(* Money is conserved.                                                     *)

(* The three sums of FundsConserved, as functions on finite sets.          *)
HeldAmounts == [h \in ActiveHolds |-> holds[h].amount]
DepositedAmounts == [i \in Deposited |-> ledger[i].amount]

(* They can be summed, and FundsConserved is about these sums.             *)
Books ==
  /\ IsFiniteSet(Agents) /\ IntOn(balances, Agents)
  /\ IsFiniteSet(ActiveHolds) /\ IntOn(HeldAmounts, ActiveHolds)
  /\ IsFiniteSet(Deposited) /\ IntOn(DepositedAmounts, Deposited)
  /\ FundsConserved <=>
       SumFunctionOnSet(balances, Agents)
         + SumFunctionOnSet(HeldAmounts, ActiveHolds)
         = SumFunctionOnSet(DepositedAmounts, Deposited)

LEMMA BooksAreSummable == SettlementTypeOK => Books
<1> SUFFICES ASSUME SettlementTypeOK
             PROVE  Books
  OBVIOUS
<1>1. IsFiniteSet(Agents) /\ IntOn(balances, Agents) /\ DOMAIN balances = Agents
  BY AgentsAssumption, BoundsAssumption DEF SettlementTypeOK, IntOn
<1>2. IsFiniteSet(ActiveHolds)
  <2>1. nextHold \in Int /\ DOMAIN holds = 1 .. nextHold
    BY BoundsAssumption DEF SettlementTypeOK
  <2>2. IsFiniteSet(1 .. nextHold)
    BY <2>1, FS_Interval
  <2> QED
    BY <2>1, <2>2, FS_Subset DEF ActiveHolds
<1>3. IntOn(HeldAmounts, ActiveHolds)
  <2> SUFFICES ASSUME NEW h \in ActiveHolds
               PROVE  HeldAmounts[h] \in Nat
    BY DEF IntOn
  <2>1. holds[h] \in Hold
    BY DEF SettlementTypeOK, ActiveHolds
  <2>2. holds[h].amount \in Amounts
    BY <2>1 DEF Hold
  <2>3. HeldAmounts[h] = holds[h].amount
    BY DEF HeldAmounts
  <2> QED
    BY <2>2, <2>3, AmountsAssumption
<1>4. IsFiniteSet(Deposited)
  <2>1. DOMAIN ledger = 1 .. Len(ledger) /\ Len(ledger) \in Int
    BY DEF SettlementTypeOK
  <2>2. IsFiniteSet(1 .. Len(ledger))
    BY <2>1, FS_Interval
  <2> QED
    BY <2>1, <2>2, FS_Subset DEF Deposited
<1>5. IntOn(DepositedAmounts, Deposited)
  <2> SUFFICES ASSUME NEW i \in Deposited
               PROVE  DepositedAmounts[i] \in Nat
    BY DEF IntOn
  <2>1. ledger[i] \in LedgerEntry
    BY DEF SettlementTypeOK, Deposited
  <2>2. ledger[i].amount \in Amounts
    BY <2>1 DEF LedgerEntry
  <2>3. DepositedAmounts[i] = ledger[i].amount
    BY DEF DepositedAmounts
  <2> QED
    BY <2>2, <2>3, AmountsAssumption
<1>6. FundsConserved <=>
              SumFunctionOnSet(balances, Agents)
                + SumFunctionOnSet(HeldAmounts, ActiveHolds)
                = SumFunctionOnSet(DepositedAmounts, Deposited)
  BY <1>1, Zenon DEF FundsConserved, HeldAmounts, DepositedAmounts, SumFunction
<1> QED
  BY <1>1, <1>2, <1>3, <1>4, <1>5, <1>6 DEF Books

LEMMA BooksStaySummable == SettlementTypeOK' => Books'
  BY BooksAreSummable, PTL

(* A deposit adds one term and changes one balance by as much; a hold moves*)
(* a balance into a new term; a settlement takes that term out again.      *)
LEMMA DepositConserves ==
  ASSUME SettlementTypeOK, SettlementTypeOK', FundsConserved,
         NEW agent \in Agents, NEW amount \in Amounts,
         DepositFunds(agent, amount)
  PROVE  FundsConserved'
<1>0. Books /\ Books'
  BY BooksAreSummable, BooksStaySummable
<1>1. /\ ChangesAt(balances, balances', Agents, agent)
      /\ balances'[agent] = balances[agent] + amount
  BY <1>0 DEF Books, DepositFunds, Credit, SettlementTypeOK, ChangesAt, Agree
<1>2. ActiveHolds' = ActiveHolds /\ HeldAmounts' = HeldAmounts
  BY DEF DepositFunds, ActiveHolds, HeldAmounts
<1>3. \E i : /\ GrowsAt(DepositedAmounts, DepositedAmounts',
                       Deposited, Deposited', i)
             /\ DepositedAmounts'[i] = amount
  <2>1. PICK i :
          /\ i \notin DOMAIN ledger
          /\ DOMAIN ledger' = DOMAIN ledger \cup {i}
          /\ \A j \in DOMAIN ledger : ledger'[j] = ledger[j]
          /\ ledger'[i].kind = "Deposited" /\ ledger'[i].amount = amount
    <3>1. ledger \in Seq(LedgerEntry)
      BY DEF SettlementTypeOK
    <3>2. PICK entry :
            /\ entry = [kind |-> "Deposited", agent |-> agent, amount |-> amount]
            /\ ledger' = Append(ledger, entry)
      BY DEF DepositFunds
    <3>3. entry.kind = "Deposited" /\ entry.amount = amount
      BY <3>2
    <3> QED
      BY <3>1, <3>2, <3>3, AppendEffect
  <2>2. Deposited' = Deposited \cup {i} /\ i \notin Deposited
    BY <2>1 DEF Deposited
  <2>3. Agree(DepositedAmounts, DepositedAmounts', Deposited)
    BY <2>1, <2>2 DEF Agree, DepositedAmounts, Deposited
  <2>4. DepositedAmounts'[i] = amount
    BY <2>1, <2>2 DEF DepositedAmounts
  <2>5. GrowsAt(DepositedAmounts, DepositedAmounts', Deposited, Deposited', i)
    BY <1>0, <2>2, <2>3 DEF GrowsAt, Books
  <2> QED
    BY <2>4, <2>5
<1>4. SumFunctionOnSet(HeldAmounts, ActiveHolds) \in Int
  BY <1>0, SumIsInt DEF Books
<1>5. amount \in Int
  BY <1>3, SumGrows
<1> QED
  BY <1>0, <1>1, <1>2, <1>3, <1>4, <1>5, SumChanges, SumGrows DEF Books

LEMMA CreateHoldConserves ==
  ASSUME SettlementTypeOK, SettlementTypeOK', FundsConserved,
         NEW request \in HoldRequest, CreateHold(request)
  PROVE  FundsConserved'
<1>0. Books /\ Books'
  BY BooksAreSummable, BooksStaySummable
<1> PICK from, amount : from = request.from /\ amount = request.amount
  OBVIOUS
<1>1. /\ ChangesAt(balances, balances', Agents, from)
      /\ balances'[from] = balances[from] - amount
  <2>1. from \in Agents
    BY DEF HoldRequest
  <2> QED
    BY <1>0, <2>1
       DEF Books, CreateHold, Debit, SettlementTypeOK, ChangesAt, Agree
<1>2. \E id : /\ GrowsAt(HeldAmounts, HeldAmounts', ActiveHolds, ActiveHolds', id)
              /\ HeldAmounts'[id] = amount
  <2>1. PICK id :
          /\ id \notin DOMAIN holds
          /\ DOMAIN holds' = DOMAIN holds \cup {id}
          /\ \A h \in DOMAIN holds : holds'[h] = holds[h]
          /\ holds'[id].amount = amount /\ holds'[id].status = "Active"
    BY CreateHoldEffect
  <2>2. ActiveHolds' = ActiveHolds \cup {id} /\ id \notin ActiveHolds
    BY <2>1 DEF ActiveHolds
  <2>3. Agree(HeldAmounts, HeldAmounts', ActiveHolds)
    BY <2>1, <2>2 DEF Agree, HeldAmounts, ActiveHolds
  <2>4. HeldAmounts'[id] = amount
    BY <2>1, <2>2 DEF HeldAmounts
  <2>5. GrowsAt(HeldAmounts, HeldAmounts', ActiveHolds, ActiveHolds', id)
    BY <1>0, <2>2, <2>3 DEF GrowsAt, Books
  <2> QED
    BY <2>4, <2>5
<1>3. Deposited' = Deposited /\ DepositedAmounts' = DepositedAmounts
  <2>1. /\ Len(ledger) + 1 \notin DOMAIN ledger
        /\ DOMAIN ledger' = DOMAIN ledger \cup {Len(ledger) + 1}
        /\ \A i \in DOMAIN ledger : ledger'[i] = ledger[i]
        /\ ledger'[Len(ledger) + 1].kind = "HoldCreated"
    BY AppendEffect DEF CreateHold, SettlementTypeOK
  <2> QED
    BY <2>1 DEF Deposited, DepositedAmounts
<1>4. amount \in Int
  BY <1>2, SumGrows
<1> QED
  BY <1>0, <1>1, <1>2, <1>3, <1>4, SumChanges, SumGrows DEF Books

LEMMA SettleConserves ==
  ASSUME SettlementTypeOK, SettlementTypeOK', FundsConserved,
         NEW h \in DOMAIN holds, NEW to \in Agents,
         NEW status \in {"Released", "Refunded"}, Settle(h, to, status)
  PROVE  FundsConserved'
<1>0. Books /\ Books'
  BY BooksAreSummable, BooksStaySummable
<1> PICK amount : amount = holds[h].amount
  OBVIOUS
<1>1. /\ ChangesAt(balances, balances', Agents, to)
      /\ balances'[to] = balances[to] + amount
  BY <1>0 DEF Books, Settle, Credit, SettlementTypeOK, ChangesAt, Agree
<1>2. /\ GrowsAt(HeldAmounts', HeldAmounts, ActiveHolds', ActiveHolds, h)
      /\ HeldAmounts[h] = amount
  <2>1. ActiveHolds' = ActiveHolds \ {h} /\ h \in ActiveHolds
    BY SettleEffect
  <2>2. Agree(HeldAmounts', HeldAmounts, ActiveHolds')
    BY <2>1, SettleEffect DEF Agree, HeldAmounts, ActiveHolds
  <2> QED
    BY <1>0, <2>1, <2>2 DEF GrowsAt, Books, HeldAmounts
<1>3. Deposited' = Deposited /\ DepositedAmounts' = DepositedAmounts
  <2>1. /\ Len(ledger) + 1 \notin DOMAIN ledger
        /\ DOMAIN ledger' = DOMAIN ledger \cup {Len(ledger) + 1}
        /\ \A i \in DOMAIN ledger : ledger'[i] = ledger[i]
        /\ ledger'[Len(ledger) + 1].kind = status
    BY AppendEffect DEF Settle, SettlementTypeOK
  <2> QED
    BY <2>1 DEF Deposited, DepositedAmounts
<1>4. amount \in Int
  BY <1>2, SumGrows
<1> QED
  BY <1>0, <1>1, <1>2, <1>3, <1>4, SumChanges, SumGrows DEF Books

LEMMA NextConserves ==
  /\ SettlementTypeOK /\ SettlementTypeOK' /\ FundsConserved
  /\ [SettlementNext]_settlementVars
  => FundsConserved'
<1> SUFFICES ASSUME SettlementTypeOK, SettlementTypeOK', FundsConserved,
                    [SettlementNext]_settlementVars
             PROVE  FundsConserved'
  OBVIOUS
<1>1. ASSUME NEW h \in HoldId, NEW evidence \in ReleaseEvidence,
             Release(h, evidence)
      PROVE  FundsConserved'
  BY <1>1, SettleConserves DEF Release, SettlementTypeOK, Hold
<1>2. ASSUME NEW h \in HoldId, Refund(h)
      PROVE  FundsConserved'
  BY <1>2, SettleConserves DEF Refund, SettlementTypeOK, Hold
<1>3. CASE UNCHANGED settlementVars
  BY <1>3 DEF settlementVars, FundsConserved, ActiveHolds, Deposited
<1> QED
  BY <1>1, <1>2, <1>3, DepositConserves, CreateHoldConserves
     DEF SettlementNext

LEMMA InitConserved == SettlementInit => FundsConserved
<1> SUFFICES ASSUME SettlementInit
             PROVE  FundsConserved
  OBVIOUS
<1>0. SettlementTypeOK /\ Books
  BY InitTypeOK, BooksAreSummable
<1>1. ActiveHolds = {} /\ Deposited = {}
  BY DEF SettlementInit, ActiveHolds, Deposited
<1>2. /\ SumFunctionOnSet(HeldAmounts, ActiveHolds) = 0
      /\ SumFunctionOnSet(DepositedAmounts, Deposited) = 0
  BY <1>0, <1>1, SumUnfolds DEF Books
<1>3. SumFunctionOnSet(balances, Agents) = 0
  BY <1>0, SumOfZeros DEF Books, SettlementInit
<1> QED
  BY <1>0, <1>2, <1>3 DEF Books

(* Whatever is held, released and refunded, in any order and by any        *)
(* callers, what was deposited is on an account or in an active hold, for  *)
(* any number of agents and holds (core.rs:24-165).                        *)
THEOREM FundsStayConserved == SettlementSpec => []FundsConserved
  BY InitConserved, NextConserves, SettlementTypeCorrect, PTL
     DEF SettlementSpec

-----------------------------------------------------------------------------
(* For the modules that compose this core with others.                     *)

(* All that is kept of the money.                                          *)
Accounting ==
  /\ SettlementTypeOK /\ OneActiveHoldPerSlot
  /\ LedgerMatchesHolds /\ FundsConserved

LEMMA NextKeepsAccounting ==
  ASSUME Accounting, [SettlementNext]_settlementVars
  PROVE  Accounting'
BY NextTypeOK, NextKeepsSlots, NextKeepsMatch, NextConserves DEF Accounting

(* They begin with one deposit.                                            *)
LEMMA OneDepositIsAccounted ==
  ASSUME NEW payer \in Agents, NEW amount \in Amounts \ {0},
         amount <= MaxBalance,
         holds = [h \in {} |-> {}], nextHold = 0,
         balances = [a \in Agents |-> IF a = payer THEN amount ELSE 0],
         ledger = <<[kind |-> "Deposited", agent |-> payer, amount |-> amount]>>
  PROVE  Accounting
<1>1. amount \in Nat
  BY AmountsAssumption
<1>2. SettlementTypeOK
  <2>1. nextHold \in 0 .. MaxHolds /\ holds \in [1 .. nextHold -> Hold]
    BY BoundsAssumption
  <2>2. balances \in [Agents -> 0 .. MaxBalance]
    BY <1>1, BoundsAssumption
  <2>3. [kind |-> "Deposited", agent |-> payer, amount |-> amount] \in LedgerEntry
    BY DEF LedgerEntry
  <2> QED
    BY <2>1, <2>2, <2>3 DEF SettlementTypeOK
<1>3. DOMAIN holds = {} /\ DOMAIN ledger = {1} /\ ledger[1].kind = "Deposited"
  OBVIOUS
<1>4. OneActiveHoldPerSlot /\ LedgerMatchesHolds
  BY <1>3 DEF OneActiveHoldPerSlot, ActiveHolds, LedgerMatchesHolds, NamesAHold
<1>5. Books
  BY <1>2, BooksAreSummable
<1>6. ActiveHolds = {} /\ Deposited = {1}
  BY <1>3 DEF ActiveHolds, Deposited
<1>7. SumFunctionOnSet(HeldAmounts, ActiveHolds) = 0
  BY <1>5, <1>6, SumUnfolds DEF Books
<1>8. SumFunctionOnSet(DepositedAmounts, Deposited) = amount
  <2>1. SumFunctionOnSet(DepositedAmounts, {1} \ {1}) = 0
    BY FS_EmptySet, SumUnfolds
  <2>2. DepositedAmounts[1] = amount /\ 1 \in Deposited
    BY <1>3, <1>6 DEF DepositedAmounts
  <2>3. SumFunctionOnSet(DepositedAmounts, Deposited)
          = DepositedAmounts[1] + SumFunctionOnSet(DepositedAmounts, Deposited \ {1})
    BY <1>5, <2>2, SumWithout DEF Books
  <2> QED
    BY <1>1, <1>6, <2>1, <2>2, <2>3
<1>9. SumFunctionOnSet(balances, Agents) = amount
  <2>1. SumFunctionOnSet(balances, Agents \ {payer}) = 0
    <3>1. IsFiniteSet(Agents \ {payer})
      BY <1>5, FS_Subset DEF Books
    <3> QED
      BY <3>1, SumOfZeros
  <2>2. balances[payer] = amount
    OBVIOUS
  <2>3. SumFunctionOnSet(balances, Agents)
          = balances[payer] + SumFunctionOnSet(balances, Agents \ {payer})
    BY <1>5, SumWithout DEF Books
  <2> QED
    BY <1>1, <2>1, <2>2, <2>3
<1> QED
  BY <1>1, <1>2, <1>4, <1>5, <1>7, <1>8, <1>9 DEF Books, Accounting

-----------------------------------------------------------------------------
(* The ledger alone is a journal of the accounts.                          *)

(* What each entry adds to the funds of a.                                 *)
Effects(a) == [i \in DOMAIN ledger |-> LedgerJournal!Effect(ledger[i], a)]

(* The invariant of the refinement: replaying the ledger gives the balances*)
(* that the core keeps in a map of its own.                                *)
Replays == \A a \in Agents : LedgerJournal!Available(a) = balances[a]

LEMMA EffectIsInt ==
  ASSUME NEW entry \in LedgerEntry, NEW a
  PROVE  LedgerJournal!Effect(entry, a) \in Int
<1>1. entry.amount \in Amounts
  BY DEF LedgerEntry
<1>2. entry.amount \in Nat
  BY <1>1, AmountsAssumption
<1> QED
  BY <1>2 DEF LedgerJournal!Effect

LEMMA EffectsAreInts ==
  ASSUME NEW a, ledger \in Seq(LedgerEntry)
  PROVE  IsFiniteSet(DOMAIN ledger) /\ IntOn(Effects(a), DOMAIN ledger)
<1>1. DOMAIN ledger = 1 .. Len(ledger) /\ Len(ledger) \in Int
  OBVIOUS
<1>2. IsFiniteSet(DOMAIN ledger)
  BY <1>1, FS_Interval
<1>3. \A i \in DOMAIN ledger : ledger[i] \in LedgerEntry
  OBVIOUS
<1> QED
  BY <1>2, <1>3, EffectIsInt DEF IntOn, Effects

(* The sum of the module Journal is the sum of this one.                   *)
LEMMA JournalSums ==
  ASSUME NEW f
  PROVE  LedgerJournal!SumFunction(f) = SumFunctionOnSet(f, DOMAIN f)
BY Zenon DEF LedgerJournal!SumFunction, LedgerJournal!SumFunctionOnSet,
   LedgerJournal!FoldFunctionOnSet, LedgerJournal!MapThenFoldSet,
   SumFunctionOnSet, FoldFunctionOnSet, MapThenFoldSet

LEMMA FundsIsASum ==
  ASSUME NEW a
  PROVE  LedgerJournal!Available(a) = SumFunctionOnSet(Effects(a), DOMAIN ledger)
  BY JournalSums, Zenon DEF LedgerJournal!Available, Effects

(* The ledger grows by one entry, at a new place.                          *)
Appended(place, entry) ==
  /\ place \notin DOMAIN ledger
  /\ DOMAIN ledger' = DOMAIN ledger \cup {place}
  /\ \A i \in DOMAIN ledger : ledger'[i] = ledger[i]
  /\ ledger'[place] = entry

LEMMA FundsGrowAt ==
  ASSUME SettlementTypeOK, NEW entry \in LedgerEntry, NEW place,
         Appended(place, entry), NEW a
  PROVE  LedgerJournal!Available(a)'
           = LedgerJournal!Available(a) + LedgerJournal!Effect(entry, a)
<1>1. /\ ledger \in Seq(LedgerEntry) /\ IsFiniteSet(DOMAIN ledger)
      /\ \A i \in DOMAIN ledger : ledger[i] \in LedgerEntry
  BY EffectsAreInts DEF SettlementTypeOK
<1>2. GrowsAt(Effects(a), Effects(a)', DOMAIN ledger, DOMAIN ledger', place)
  BY <1>1, EffectIsInt DEF GrowsAt, Appended, IntOn, Agree, Effects
<1>3. Effects(a)'[place] = LedgerJournal!Effect(entry, a)
  BY DEF Effects, Appended
<1>4. LedgerJournal!Available(a)' = SumFunctionOnSet(Effects(a)', DOMAIN ledger')
  BY JournalSums, Zenon DEF LedgerJournal!Available, Effects
<1> QED
  BY <1>2, <1>3, <1>4, SumGrows, FundsIsASum

LEMMA FundsGrow ==
  ASSUME SettlementTypeOK, NEW entry \in LedgerEntry,
         ledger' = Append(ledger, entry), NEW a
  PROVE  LedgerJournal!Available(a)'
           = LedgerJournal!Available(a) + LedgerJournal!Effect(entry, a)
<1>1. Appended(Len(ledger) + 1, entry)
  BY AppendEffect DEF SettlementTypeOK, Appended
<1> QED
  BY <1>1, FundsGrowAt

LEMMA SettleReplays ==
  ASSUME SettlementTypeOK, Replays, NEW h \in DOMAIN holds, h \in HoldId,
         NEW to \in Agents,
         NEW status \in {"Released", "Refunded"}, Settle(h, to, status)
  PROVE  Replays'
<1> DEFINE entry == [kind |-> status, hold |-> h, to |-> to,
                     amount |-> holds[h].amount]
<1>1. holds[h] \in Hold
  BY DEF SettlementTypeOK
<1>2. holds[h].amount \in Amounts \ {0}
  BY <1>1 DEF Hold
<1>3. entry \in LedgerEntry
  BY <1>2 DEF LedgerEntry
<1>4. \A a \in Agents : LedgerJournal!Available(a)'
        = LedgerJournal!Available(a) + LedgerJournal!Effect(entry, a)
  BY <1>3, FundsGrow DEF Settle
<1>5. \A a \in Agents : LedgerJournal!Effect(entry, a)
        = IF a = to THEN holds[h].amount ELSE 0
  BY DEF LedgerJournal!Effect
<1>6. holds[h].amount \in Nat
  BY <1>2, AmountsAssumption
<1>7. \A a \in Agents : balances'[a]
        = balances[a] + (IF a = to THEN holds[h].amount ELSE 0)
  BY <1>6, BoundsAssumption DEF Settle, Credit, SettlementTypeOK
<1> HIDE DEF entry
<1> QED
  BY <1>4, <1>5, <1>7 DEF Replays

LEMMA NextReplays ==
  ASSUME SettlementTypeOK, Replays, [SettlementNext]_settlementVars
  PROVE  Replays'
<1>1. ASSUME NEW agent \in Agents, NEW amount \in Amounts,
             DepositFunds(agent, amount)
      PROVE  Replays'
  <2> DEFINE entry ==
        [kind |-> "Deposited", agent |-> agent, amount |-> amount]
  <2>1. entry \in LedgerEntry
    BY <1>1 DEF LedgerEntry, DepositFunds
  <2>2. \A a \in Agents : LedgerJournal!Available(a)'
          = LedgerJournal!Available(a) + LedgerJournal!Effect(entry, a)
    BY <1>1, <2>1, FundsGrow DEF DepositFunds
  <2>3. \A a \in Agents : LedgerJournal!Effect(entry, a)
          = IF a = agent THEN amount ELSE 0
    BY DEF LedgerJournal!Effect
  <2>4. amount \in Nat
    BY AmountsAssumption
  <2>5. \A a \in Agents : balances'[a]
          = balances[a] + (IF a = agent THEN amount ELSE 0)
    BY <1>1, <2>4, BoundsAssumption DEF DepositFunds, Credit, SettlementTypeOK
  <2> HIDE DEF entry
  <2> QED
    BY <2>2, <2>3, <2>5 DEF Replays
<1>2. ASSUME NEW request \in HoldRequest, CreateHold(request)
      PROVE  Replays'
  <2> DEFINE entry ==
        [kind |-> "HoldCreated", hold |-> nextHold + 1,
         from |-> request.from, agent |-> request.agent,
         amount |-> request.amount]
  <2>0. /\ request.from \in Agents /\ request.agent \in Agents
        /\ request.amount \in Amounts \ {0}
    BY <1>2 DEF HoldRequest, CreateHold
  <2>n. nextHold + 1 \in HoldId
    BY <1>2, BoundsAssumption DEF CreateHold, HoldId, SettlementTypeOK
  <2>1. entry \in LedgerEntry
    BY <2>0, <2>n DEF LedgerEntry
  <2>2. \A a \in Agents : LedgerJournal!Available(a)'
          = LedgerJournal!Available(a) + LedgerJournal!Effect(entry, a)
    BY <1>2, <2>1, FundsGrow DEF CreateHold, NextHoldId
  <2>3. \A a \in Agents : LedgerJournal!Effect(entry, a)
          = IF a = request.from THEN 0 - request.amount ELSE 0
    BY DEF LedgerJournal!Effect
  <2>4. request.amount \in Nat
    BY <2>0, AmountsAssumption
  <2>5. \A a \in Agents : balances'[a]
          = balances[a] + (IF a = request.from THEN 0 - request.amount ELSE 0)
    BY <1>2, <2>4, BoundsAssumption DEF CreateHold, Debit, SettlementTypeOK
  <2> HIDE DEF entry
  <2> QED
    BY <2>2, <2>3, <2>5 DEF Replays
<1>3. ASSUME NEW h \in HoldId, NEW evidence \in ReleaseEvidence,
             Release(h, evidence)
      PROVE  Replays'
  BY <1>3, SettleReplays DEF Release, SettlementTypeOK, Hold
<1>4. ASSUME NEW h \in HoldId, Refund(h)
      PROVE  Replays'
  BY <1>4, SettleReplays DEF Refund, SettlementTypeOK, Hold
<1>5. CASE UNCHANGED settlementVars
  <2>1. \A a \in Agents : LedgerJournal!Available(a)' = LedgerJournal!Available(a)
    BY <1>5, Zenon DEF settlementVars, LedgerJournal!Available
  <2> QED
    BY <1>5, <2>1 DEF settlementVars, Replays
<1> QED
  BY <1>1, <1>2, <1>3, <1>4, <1>5 DEF SettlementNext

LEMMA InitReplays == SettlementInit => Replays
<1> SUFFICES ASSUME SettlementInit, NEW a \in Agents
             PROVE  LedgerJournal!Available(a) = balances[a]
  BY DEF Replays
<1>1. DOMAIN ledger = {}
  BY DEF SettlementInit
<1>2. LedgerJournal!Available(a) = 0
  BY <1>1, FundsIsASum, SumUnfolds, FS_EmptySet
<1> QED
  BY <1>2 DEF SettlementInit

(* A settlement closes its hold in the journal as the entry that opened it *)
(* says: the ledger and the holds agree (LedgerMatchesHolds).              *)
LEMMA SettleIsRecorded ==
  ASSUME SettlementTypeOK, LedgerMatchesHolds, NEW h \in DOMAIN holds,
         h \in HoldId, NEW status \in {"Released", "Refunded"},
         Settle(h, IF status = "Released" THEN holds[h].agent
                                          ELSE holds[h].from, status)
  PROVE  LedgerJournal!RecordClose(h, status)
<1>1. holds[h].status = "Active"
  BY SettleEffect
<1>2. LedgerJournal!Closing(h) = {}
  BY <1>1 DEF LedgerMatchesHolds, ClosedOnce, EntriesFor, LedgerJournal!Closing
<1>3. PICK i \in DOMAIN ledger :
        EntriesFor(h, {"HoldCreated"}) = {i} /\ CreatedBy(h, i)
  BY DEF LedgerMatchesHolds, OpenedOnce
<1>4. i \in LedgerJournal!Opening(h)
  BY <1>3 DEF EntriesFor, LedgerJournal!Opening
<1>5. /\ ledger[i].agent = holds[h].agent /\ ledger[i].from = holds[h].from
      /\ ledger[i].amount = holds[h].amount
  BY <1>3 DEF CreatedBy
<1>6. ledger' = Append(ledger,
         [kind |-> status, hold |-> h,
          to |-> IF status = "Released" THEN ledger[i].agent
                                        ELSE ledger[i].from,
          amount |-> ledger[i].amount])
  BY <1>5 DEF Settle
<1> QED
  BY <1>2, <1>4, <1>6 DEF LedgerJournal!RecordClose

LEMMA NextIsRecorded ==
  ASSUME SettlementTypeOK, LedgerMatchesHolds, Replays,
         [SettlementNext]_settlementVars
  PROVE  [LedgerJournal!JournalNext]_ledger
<1>1. ASSUME NEW agent \in Agents, NEW amount \in Amounts,
             DepositFunds(agent, amount)
      PROVE  LedgerJournal!RecordDeposit(agent, amount)
  <2>1. amount \in Nat
    BY AmountsAssumption
  <2> QED
    BY <1>1, <2>1 DEF DepositFunds, LedgerJournal!RecordDeposit
<1>2. ASSUME NEW request \in HoldRequest, CreateHold(request)
      PROVE  /\ request.from \in Agents /\ request.agent \in Agents
             /\ request.amount \in Amounts /\ nextHold + 1 \in HoldId
             /\ LedgerJournal!RecordHold(nextHold + 1, request.from,
                                         request.agent, request.amount)
  <2>0. /\ request.from \in Agents /\ request.agent \in Agents
        /\ request.amount \in Amounts
    BY DEF HoldRequest
  <2>1. request.amount \in Nat
    BY <2>0, AmountsAssumption
  <2>2. nextHold + 1 \in HoldId
    BY <1>2, BoundsAssumption DEF CreateHold, HoldId, SettlementTypeOK
  <2>3. LedgerJournal!Available(request.from) >= request.amount
    BY <1>2, <2>0 DEF CreateHold, CanPay, Replays
  <2>4. LedgerJournal!Opening(nextHold + 1) = {}
    <3>1. nextHold + 1 \notin DOMAIN holds
      BY <1>2, CreateHoldEffect
    <3> QED
      BY <3>1 DEF LedgerMatchesHolds, NamesAHold, LedgerJournal!Opening
  <2>5. request.amount > 0
    BY <1>2, <2>1 DEF CreateHold
  <2>6. ledger' = Append(ledger,
                      [kind |-> "HoldCreated", hold |-> nextHold + 1,
                       from |-> request.from, agent |-> request.agent,
                       amount |-> request.amount])
    BY <1>2 DEF CreateHold, NextHoldId
  <2> QED
    BY <2>0, <2>2, <2>3, <2>4, <2>5, <2>6 DEF LedgerJournal!RecordHold
<1>3. ASSUME NEW h \in HoldId, NEW evidence \in ReleaseEvidence,
             Release(h, evidence)
      PROVE  LedgerJournal!RecordClose(h, "Released")
  BY <1>3, SettleIsRecorded DEF Release
<1>4. ASSUME NEW h \in HoldId, Refund(h)
      PROVE  LedgerJournal!RecordClose(h, "Refunded")
  BY <1>4, SettleIsRecorded DEF Refund
<1>5. CASE UNCHANGED settlementVars
  BY <1>5 DEF settlementVars
<1>6. CASE SettlementNext
  <2>1. LedgerJournal!JournalNext
    BY <1>1, <1>2, <1>3, <1>4, <1>6 DEF SettlementNext, LedgerJournal!JournalNext
  <2> QED
    BY <2>1
<1> QED
  BY <1>5, <1>6

(* Every entry of the ledger is justified by the entries before it: funds  *)
(* enough for a hold, one opening before one closing, and money to whom the*)
(* opening names.  The ledger is enough to audit the accounts or to rebuild*)
(* them (core.rs:24-165).                                                  *)
THEOREM SettlementImplementsJournal == SettlementSpec => LedgerIsAJournal
<1>1. SettlementInit => LedgerJournal!JournalInit
  BY DEF SettlementInit, LedgerJournal!JournalInit
<1>2. SettlementSpec => []Replays
  <2>1. SettlementTypeOK /\ Replays /\ [SettlementNext]_settlementVars
          => Replays'
    BY NextReplays
  <2> QED
    BY <2>1, InitReplays, SettlementTypeCorrect, PTL DEF SettlementSpec
<1>3. SettlementTypeOK /\ LedgerMatchesHolds /\ Replays
        /\ [SettlementNext]_settlementVars => [LedgerJournal!JournalNext]_ledger
  BY NextIsRecorded
<1> QED
  BY <1>1, <1>2, <1>3, SettlementTypeCorrect, LedgerIsFaithful, PTL
     DEF SettlementSpec, LedgerIsAJournal, LedgerJournal!JournalSpec

-----------------------------------------------------------------------------
(* Numbers written as digits, and the order of the strings.                *)

(* A nonempty set of numbers has a least one.                              *)
LEMMA LeastNumber ==
  ASSUME NEW N \in SUBSET Nat, N # {}
  PROVE  \E n \in N : \A m \in N : n <= m
<1> DEFINE R == OpToRel(<, Nat)
<1>1. IsWellFoundedOn(R, Nat)
  BY NatLessThanWellFounded
<1>2. \A m, n \in Nat : m < n => <<m, n>> \in R
  BY Zenon DEF OpToRel
<1> HIDE DEF R
<1>3. \E n \in N : \A m \in N : <<m, n>> \notin R
  BY <1>1, WFMin
<1>4. PICK n \in N : \A m \in N : <<m, n>> \notin R
  BY <1>3
<1>5. \A m \in N : n <= m
  <2> TAKE m \in N
  <2>1. m \in Nat /\ n \in Nat /\ ~(m < n)
    BY <1>2, <1>4
  <2> QED
    BY <2>1
<1> QED
  BY <1>5

LEMMA Quotients ==
  ASSUME NEW n \in Nat, n >= 10
  PROVE  /\ n \div 10 \in Nat /\ n \div 10 < n
         /\ n % 10 \in 0 .. 9 /\ n = 10 * (n \div 10) + (n % 10)
OBVIOUS

(* An initial piece of the recursion of Digits.                            *)
Figures == Seq(0 .. 9)

(* g follows the recursion of Digits at m; a piece does so up to n.        *)
Unfolds(g, m) ==
  g[m] = IF m < 10 THEN <<m>> ELSE Append(g[m \div 10], m % 10)

IsPiece(g, n) ==
  /\ g \in [0 .. n -> Figures]
  /\ \A m \in 0 .. n : Unfolds(g, m)

Piece(n) == CHOOSE g : IsPiece(g, n)

LEMMA PiecesAgree ==
  ASSUME NEW n \in Nat, NEW k \in Nat, NEW g, NEW h,
         IsPiece(g, n), IsPiece(h, k)
  PROVE  \A m \in Nat : m <= n /\ m <= k => g[m] = h[m]
<1> DEFINE N == {m \in Nat : m <= n /\ m <= k /\ g[m] # h[m]}
<1> SUFFICES ASSUME N # {} PROVE FALSE
  OBVIOUS
<1>1. PICK m \in N : \A j \in N : m <= j
  BY LeastNumber
<1>2. /\ m \in 0 .. n /\ m \in 0 .. k /\ g[m] # h[m]
      /\ Unfolds(g, m) /\ Unfolds(h, m)
  BY DEF IsPiece
<1>3. CASE m < 10
  BY <1>2, <1>3 DEF Unfolds
<1>4. CASE m >= 10
  <2>1. m \div 10 \in Nat /\ m \div 10 < m
    BY <1>4, Quotients
  <2>2. g[m \div 10] = h[m \div 10]
    BY <1>1, <1>2, <2>1
  <2> QED
    BY <1>2, <1>4, <2>2 DEF Unfolds
<1> QED
  BY <1>3, <1>4

LEMMA PiecesExist == \A n \in Nat : \E g : IsPiece(g, n)
<1> DEFINE N == {n \in Nat : ~ \E g : IsPiece(g, n)}
<1> SUFFICES ASSUME N # {} PROVE FALSE
  OBVIOUS
<1>1. PICK n \in N : \A j \in N : n <= j
  BY LeastNumber
<1>2. \A k \in Nat : k < n => \E g : IsPiece(g, k)
  BY <1>1
<1>3. ASSUME NEW d \in Figures, NEW old,
             \/ n < 10 /\ d = <<n>>
             \/ n >= 10 /\ d = Append(old[n \div 10], n % 10),
             n = 0 \/ IsPiece(old, n - 1)
      PROVE  FALSE
  <2> DEFINE g == [m \in 0 .. n |-> IF m = n THEN d ELSE old[m]]
  <2>1. g \in [0 .. n -> Figures]
    BY <1>3 DEF IsPiece
  <2>2. ASSUME NEW m \in 0 .. n PROVE Unfolds(g, m)
    <3>1. m < n => g[m] = old[m] /\ Unfolds(old, m)
      BY <1>3 DEF IsPiece
    <3>2. m = n => g[m] = d
      OBVIOUS
    <3>3. m >= 10 => m \div 10 \in 0 .. n /\ m \div 10 < m
      BY Quotients
    <3>4. m >= 10 => g[m \div 10] = old[m \div 10]
      BY <3>3
    <3> HIDE DEF g
    <3>5. m = n \/ m < n
      OBVIOUS
    <3>6. n < 10 \/ n >= 10
      OBVIOUS
    <3>7. CASE m = n
      <4>1. CASE n < 10
        BY <1>3, <3>2, <3>7, <4>1 DEF Unfolds
      <4>2. CASE n >= 10
        <5>1. d = Append(old[n \div 10], n % 10) /\ ~(n < 10)
          BY <1>3, <4>2
        <5>2. g[n] = d /\ g[n \div 10] = old[n \div 10]
          BY <3>2, <3>4, <3>7, <4>2
        <5> QED
          BY <3>7, <5>1, <5>2, Zenon DEF Unfolds
      <4> QED
        BY <3>6, <4>1, <4>2
    <3>8. CASE m < n
      BY <3>1, <3>4, <3>8 DEF Unfolds
    <3> QED
      BY <3>5, <3>7, <3>8
  <2> HIDE DEF g
  <2>3. IsPiece(g, n)
    BY <2>1, <2>2 DEF IsPiece
  <2> QED
    BY <1>1, <2>3
<1>4. CASE n < 10
  <2>1. <<n>> \in Figures
    BY <1>4 DEF Figures
  <2>2. CASE n = 0
    BY <1>3, <1>4, <2>1, <2>2
  <2>3. CASE n # 0
    <3>1. PICK old : IsPiece(old, n - 1)
      BY <1>2, <2>3
    <3> QED
      BY <1>3, <1>4, <2>1, <3>1
  <2> QED
    BY <2>2, <2>3
<1>5. CASE n >= 10
  <2>1. PICK old : IsPiece(old, n - 1)
    BY <1>2, <1>5
  <2>2. n \div 10 \in 0 .. n - 1 /\ n % 10 \in 0 .. 9
    BY <1>5, Quotients
  <2>3. old[n \div 10] \in Figures
    BY <2>1, <2>2 DEF IsPiece
  <2>4. Append(old[n \div 10], n % 10) \in Figures
    BY <2>2, <2>3 DEF Figures
  <2> QED
    BY <1>3, <1>5, <2>1, <2>4
<1>6. n < 10 \/ n >= 10
  OBVIOUS
<1> QED
  BY <1>4, <1>5, <1>6

LEMMA PiecesAre ==
  \A n \in Nat : IsPiece(Piece(n), n)
BY PiecesExist DEF Piece

(* Digits exists, and is what its definition says.                         *)
LEMMA DigitsUnfold ==
  /\ Digits \in [Nat -> Figures]
  /\ \A n \in Nat : Unfolds(Digits, n)
<1> DEFINE F == [n \in Nat |-> Piece(n)[n]]
<1>1. \A n \in Nat, m \in Nat : m <= n => Piece(n)[m] = F[m]
  BY PiecesAre, PiecesAgree
<1>2. ASSUME NEW n \in Nat PROVE F[n] \in Figures /\ Unfolds(F, n)
  <2>1. IsPiece(Piece(n), n)
    BY PiecesAre
  <2>2. Piece(n)[n] \in Figures /\ Unfolds(Piece(n), n)
    BY <2>1 DEF IsPiece
  <2>3. F[n] = Piece(n)[n]
    OBVIOUS
  <2>4. n >= 10 => /\ n \div 10 \in Nat
                   /\ F[n \div 10] = Piece(n)[n \div 10]
    BY <1>1, Quotients
  <2> HIDE DEF F
  <2> QED
    BY <2>2, <2>3, <2>4 DEF Unfolds
<1>3. F = [n \in Nat |-> IF n < 10 THEN <<n>>
                         ELSE Append(F[n \div 10], n % 10)]
  <2>1. \A n \in Nat : F[n] = IF n < 10 THEN <<n>>
                              ELSE Append(F[n \div 10], n % 10)
    BY <1>2 DEF Unfolds
  <2>2. F = [n \in Nat |-> F[n]]
    OBVIOUS
  <2> HIDE DEF F
  <2> QED
    BY <2>1, <2>2, Zenon
<1> HIDE DEF F
<1>4. Digits = [n \in Nat |-> IF n < 10 THEN <<n>>
                              ELSE Append(Digits[n \div 10], n % 10)]
  BY <1>3, Zenon DEF Digits
<1>5. \A n \in Nat : Unfolds(Digits, n)
  BY <1>4, Zenon DEF Unfolds
<1> DEFINE N == {n \in Nat : Digits[n] \notin Figures}
<1>6. N = {}
  <2> SUFFICES ASSUME N # {} PROVE FALSE
    OBVIOUS
  <2>1. PICK n \in N : \A j \in N : n <= j
    BY LeastNumber
  <2>2. CASE n < 10
    <3>1. <<n>> \in Figures
      BY <2>2 DEF Figures
    <3> QED
      BY <1>5, <2>2, <3>1 DEF Unfolds
  <2>3. CASE n >= 10
    <3>1. n \div 10 \in Nat /\ n \div 10 < n /\ n % 10 \in 0 .. 9
      BY <2>3, Quotients
    <3>2. Digits[n \div 10] \in Figures
      BY <2>1, <3>1
    <3>3. Append(Digits[n \div 10], n % 10) \in Figures
      BY <3>1, <3>2 DEF Figures
    <3>4. Digits[n] = Append(Digits[n \div 10], n % 10)
      <4>1. Unfolds(Digits, n) /\ ~(n < 10)
        BY <1>5, <2>3
      <4> QED
        BY <4>1, Zenon DEF Unfolds
    <3> QED
      BY <3>3, <3>4
  <2>4. n < 10 \/ n >= 10
    OBVIOUS
  <2> QED
    BY <2>2, <2>3, <2>4
<1>7. Digits = [n \in Nat |-> Digits[n]]
  BY <1>4, Zenon
<1> HIDE DEF N
<1>8. \A n \in Nat : Digits[n] \in Figures
  BY <1>6 DEF N
<1> QED
  BY <1>5, <1>7, <1>8

(* Different numbers are written differently.                              *)
LEMMA DigitsDiffer ==
  \A m, n \in Nat : Digits[m] = Digits[n] => m = n
<1> DEFINE N == {m \in Nat : \E n \in Nat : m # n /\ Digits[m] = Digits[n]}
<1> SUFFICES ASSUME N # {} PROVE FALSE
  OBVIOUS
<1>1. PICK m \in N : \A j \in N : m <= j
  BY LeastNumber
<1>2. PICK n \in Nat : m # n /\ Digits[m] = Digits[n]
  OBVIOUS
<1>3. \A k \in Nat : k < m => \A j \in Nat : Digits[k] = Digits[j] => k = j
  BY <1>1
<1>4. ASSUME NEW k \in Nat, k >= 10
      PROVE  /\ k \div 10 \in Nat /\ k \div 10 < k
             /\ k = 10 * (k \div 10) + (k % 10)
             /\ k % 10 \in 0 .. 9
             /\ Digits[k \div 10] \in Figures
             /\ Digits[k] = Append(Digits[k \div 10], k % 10)
             /\ Digits[k \div 10] # << >>
  <2>1. /\ k \div 10 \in Nat /\ k \div 10 < k
        /\ k = 10 * (k \div 10) + (k % 10)
        /\ k % 10 \in 0 .. 9
    BY <1>4, Quotients
  <2>2. /\ Digits[k \div 10] \in Figures
        /\ Digits[k] = Append(Digits[k \div 10], k % 10)
    BY <1>4, <2>1, DigitsUnfold DEF Unfolds
  <2>3. Digits[k \div 10] # << >>
    <3> DEFINE j == k \div 10
    <3>1. j \in Nat /\ Unfolds(Digits, j)
      BY <2>1, DigitsUnfold
    <3>2. j >= 10 => /\ j \div 10 \in Nat /\ Digits[j \div 10] \in Figures
                     /\ j % 10 \in 0 .. 9
      BY <3>1, Quotients, DigitsUnfold
    <3> HIDE DEF j
    <3> QED
      BY <3>1, <3>2 DEF Unfolds, Figures, j
  <2> QED
    BY <2>1, <2>2, <2>3
<1>5. \A k \in Nat : k < 10 => Digits[k] = <<k>>
  BY DigitsUnfold DEF Unfolds
<1>6. ASSUME NEW s \in Figures, NEW t \in Figures, NEW a \in 0 .. 9,
             NEW b \in 0 .. 9
      PROVE  /\ Append(s, a) = Append(t, b) => s = t /\ a = b
             /\ s # << >> => \A c : Append(s, a) # <<c>>
  <2>1. Append(s, a) = Append(t, b) => s = t /\ a = b
    BY AppendInjective DEF Figures
  <2>2. s # << >> => Len(Append(s, a)) > 1
    BY AppendProperties, EmptySeq DEF Figures
  <2>3. \A c : Len(<<c>>) = 1
    OBVIOUS
  <2>4. s # << >> => \A c : Append(s, a) # <<c>>
    <3> SUFFICES ASSUME s # << >>, NEW c, Append(s, a) = <<c>> PROVE FALSE
      OBVIOUS
    <3> QED
      BY <2>2, <2>3
  <2> QED
    BY <2>1, <2>4
<1>11. m \in Nat
  BY DEF N
<1>12. \A s \in Figures, a \in 0 .. 9 : \A c :
         s # << >> => Append(s, a) # <<c>>
  BY <1>6
<1> HIDE DEF N
<1>7. CASE m < 10 /\ n < 10
  BY <1>2, <1>5, <1>7, <1>11
<1>8. CASE m < 10 /\ n >= 10
  <2>1. Digits[n] # <<m>>
    BY <1>4, <1>8, <1>12
  <2> QED
    BY <1>2, <1>5, <1>8, <1>11, <2>1
<1>9. CASE m >= 10 /\ n < 10
  <2>1. Digits[m] # <<n>>
    BY <1>4, <1>9, <1>11, <1>12
  <2> QED
    BY <1>2, <1>5, <1>9, <2>1
<1>10. CASE m >= 10 /\ n >= 10
  <2>1. Digits[m \div 10] = Digits[n \div 10] /\ m % 10 = n % 10
    <3> DEFINE s == Digits[m \div 10]
               t == Digits[n \div 10]
               a == m % 10
               b == n % 10
    <3>1. /\ s \in Figures /\ a \in 0 .. 9
          /\ Digits[m] = Append(s, a)
      BY <1>4, <1>10, <1>11
    <3>2. /\ t \in Figures /\ b \in 0 .. 9
          /\ Digits[n] = Append(t, b)
      BY <1>4, <1>10
    <3> HIDE DEF s, t, a, b
    <3>3. Append(s, a) = Append(t, b)
      BY <1>2, <3>1, <3>2
    <3>4. s = t /\ a = b
      BY <1>6, <3>1, <3>2, <3>3
    <3> QED
      BY <3>4 DEF s, t, a, b
  <2>2. m \div 10 = n \div 10
    BY <1>3, <1>4, <1>10, <1>11, <2>1
  <2> QED
    BY <1>2, <1>4, <1>10, <1>11, <2>1, <2>2
<1> QED
  BY <1>7, <1>8, <1>9, <1>10, <1>11

LEMMA FiguresAre ==
  ASSUME NEW s \in Figures
  PROVE  /\ DOMAIN s = 1 .. Len(s) /\ Len(s) \in Nat
         /\ \A k \in DOMAIN s : s[k] \in Nat
BY DEF Figures

(* Of two different strings one comes before the other.                    *)
LEMMA StringsCompare ==
  ASSUME NEW s \in Figures, NEW t \in Figures, s # t
  PROVE  ComesBefore(s, t) \/ ComesBefore(t, s)
<1> DEFINE N == {k \in Nat : /\ k \in DOMAIN s /\ k \in DOMAIN t
                             /\ s[k] # t[k]}
<1>0. /\ DOMAIN s = 1 .. Len(s) /\ DOMAIN t = 1 .. Len(t)
      /\ Len(s) \in Nat /\ Len(t) \in Nat
      /\ \A k \in DOMAIN s : s[k] \in Nat
      /\ \A k \in DOMAIN t : t[k] \in Nat
  BY FiguresAre
<1>1. CASE N # {}
  <2>1. PICK k \in N : \A j \in N : k <= j
    BY <1>1, LeastNumber
  <2>2. /\ k \in Nat /\ k \in DOMAIN s /\ k \in DOMAIN t /\ s[k] # t[k]
    OBVIOUS
  <2>3. \A j \in 1 .. k - 1 : s[j] = t[j]
    BY <1>0, <2>1, <2>2
  <2>4. s[k] < t[k] \/ t[k] < s[k]
    BY <1>0, <2>2
  <2> QED
    BY <2>2, <2>3, <2>4 DEF ComesBefore
<1>2. CASE N = {}
  <2>1. \A k \in DOMAIN s : k \in DOMAIN t => s[k] = t[k]
    BY <1>0, <1>2
  <2> HIDE DEF N
  <2>2. Len(s) # Len(t)
    BY <1>0, <2>1, SeqEqual DEF Figures
  <2>3. CASE Len(s) < Len(t)
    BY <1>0, <2>1, <2>3 DEF ComesBefore
  <2>4. CASE Len(t) < Len(s)
    BY <1>0, <2>1, <2>4 DEF ComesBefore
  <2>5. Len(s) < Len(t) \/ Len(t) < Len(s)
    <3>1. \A a, b \in Nat : a # b => a < b \/ b < a
      OBVIOUS
    <3>2. Len(s) \in Nat /\ Len(t) \in Nat
      BY FiguresAre
    <3> QED
      BY <2>2, <3>1, <3>2
  <2> QED
    BY <2>3, <2>4, <2>5
<1> QED
  BY <1>1, <1>2

LEMMA StringsAsymmetric ==
  ASSUME NEW s \in Figures, NEW t \in Figures,
         ComesBefore(s, t), ComesBefore(t, s)
  PROVE  FALSE
<1>0. /\ DOMAIN s = 1 .. Len(s) /\ DOMAIN t = 1 .. Len(t)
      /\ Len(s) \in Nat /\ Len(t) \in Nat
      /\ \A k \in DOMAIN s : s[k] \in Nat
      /\ \A k \in DOMAIN t : t[k] \in Nat
  BY FiguresAre
<1>1. CASE Len(s) < Len(t) /\ \A j \in DOMAIN s : s[j] = t[j]
  BY <1>0, <1>1 DEF ComesBefore
<1>2. CASE Len(t) < Len(s) /\ \A j \in DOMAIN t : t[j] = s[j]
  BY <1>0, <1>2 DEF ComesBefore
<1>3. ASSUME NEW k \in DOMAIN s \cap DOMAIN t, s[k] < t[k],
             \A j \in 1 .. k - 1 : s[j] = t[j],
             NEW l \in DOMAIN s \cap DOMAIN t, t[l] < s[l],
             \A j \in 1 .. l - 1 : t[j] = s[j]
      PROVE  FALSE
  <2>1. k < l \/ l < k \/ k = l
    BY <1>0
  <2> QED
    BY <1>0, <1>3, <2>1
<1> QED
  BY <1>1, <1>2, <1>3 DEF ComesBefore

LEMMA StringsTransitive ==
  ASSUME NEW s \in Figures, NEW t \in Figures, NEW u \in Figures,
         ComesBefore(s, t), ComesBefore(t, u)
  PROVE  ComesBefore(s, u)
<1>0. /\ DOMAIN s = 1 .. Len(s) /\ DOMAIN t = 1 .. Len(t)
      /\ DOMAIN u = 1 .. Len(u)
      /\ Len(s) \in Nat /\ Len(t) \in Nat /\ Len(u) \in Nat
      /\ \A k \in DOMAIN s : s[k] \in Nat
      /\ \A k \in DOMAIN t : t[k] \in Nat
      /\ \A k \in DOMAIN u : u[k] \in Nat
  BY FiguresAre
<1>1. ASSUME NEW k \in DOMAIN s \cap DOMAIN t, s[k] < t[k],
             \A j \in 1 .. k - 1 : s[j] = t[j]
      PROVE  ComesBefore(s, u)
  <2>1. ASSUME NEW l \in DOMAIN t \cap DOMAIN u, t[l] < u[l],
               \A j \in 1 .. l - 1 : t[j] = u[j]
        PROVE  ComesBefore(s, u)
    <3>1. CASE k <= l
      <4>1. k \in DOMAIN s \cap DOMAIN u /\ s[k] < u[k]
        BY <1>0, <1>1, <2>1, <3>1
      <4>2. \A j \in 1 .. k - 1 : s[j] = u[j]
        BY <1>0, <1>1, <2>1, <3>1
      <4> QED
        BY <4>1, <4>2 DEF ComesBefore
    <3>2. CASE l < k
      <4>1. l \in DOMAIN s \cap DOMAIN u /\ s[l] < u[l]
        BY <1>0, <1>1, <2>1, <3>2
      <4>2. \A j \in 1 .. l - 1 : s[j] = u[j]
        BY <1>0, <1>1, <2>1, <3>2
      <4> QED
        BY <4>1, <4>2 DEF ComesBefore
    <3> QED
      BY <1>0, <3>1, <3>2
  <2>2. CASE Len(t) < Len(u) /\ \A j \in DOMAIN t : t[j] = u[j]
    <3>1. k \in DOMAIN s \cap DOMAIN u /\ s[k] < u[k]
      BY <1>0, <1>1, <2>2
    <3>2. \A j \in 1 .. k - 1 : s[j] = u[j]
      BY <1>0, <1>1, <2>2
    <3> QED
      BY <3>1, <3>2 DEF ComesBefore
  <2> QED
    BY <2>1, <2>2 DEF ComesBefore
<1>2. CASE Len(s) < Len(t) /\ \A j \in DOMAIN s : s[j] = t[j]
  <2>1. ASSUME NEW l \in DOMAIN t \cap DOMAIN u, t[l] < u[l],
               \A j \in 1 .. l - 1 : t[j] = u[j]
        PROVE  ComesBefore(s, u)
    <3>1. CASE l <= Len(s)
      <4>1. l \in DOMAIN s \cap DOMAIN u /\ s[l] < u[l]
        BY <1>0, <1>2, <2>1, <3>1
      <4>2. \A j \in 1 .. l - 1 : s[j] = u[j]
        BY <1>0, <1>2, <2>1, <3>1
      <4> QED
        BY <4>1, <4>2 DEF ComesBefore
    <3>2. CASE Len(s) < l
      BY <1>0, <1>2, <2>1, <3>2 DEF ComesBefore
    <3> QED
      BY <1>0, <3>1, <3>2
  <2>2. CASE Len(t) < Len(u) /\ \A j \in DOMAIN t : t[j] = u[j]
    BY <1>0, <1>2, <2>2 DEF ComesBefore
  <2> QED
    BY <2>1, <2>2 DEF ComesBefore
<1> QED
  BY <1>1, <1>2 DEF ComesBefore

(* Sessions in the order of latest_review_session.                         *)
(* They are a parameter here, so that two states can be looked at.         *)
Younger(rs, r, q) ==
  \/ rs[q].createdAt < rs[r].createdAt
  \/ /\ rs[q].createdAt = rs[r].createdAt
     /\ ComesBefore(Digits[q], Digits[r])

(* What the order needs of the sessions it is to compare.                  *)
CanBeCompared(rs, ids) ==
  \A r \in ids : r \in Nat /\ rs[r].createdAt \in Nat

LEMMA YoungerIsAnOrder ==
  ASSUME NEW rs, NEW ids, CanBeCompared(rs, ids)
  PROVE  /\ \A r, q \in ids : r # q => Younger(rs, r, q) \/ Younger(rs, q, r)
         /\ \A r, q \in ids : ~(Younger(rs, r, q) /\ Younger(rs, q, r))
         /\ \A r, q, p \in ids :
              Younger(rs, r, q) /\ Younger(rs, q, p) => Younger(rs, r, p)
<1>1. \A r \in ids : /\ r \in Nat /\ rs[r].createdAt \in Nat
                     /\ Digits[r] \in Figures
  BY DigitsUnfold DEF CanBeCompared
<1>2. ASSUME NEW r \in ids, NEW q \in ids, r # q
      PROVE  Younger(rs, r, q) \/ Younger(rs, q, r)
  <2>1. Digits[r] # Digits[q]
    BY <1>1, <1>2, DigitsDiffer
  <2>2. ComesBefore(Digits[q], Digits[r]) \/ ComesBefore(Digits[r], Digits[q])
    BY <1>1, <2>1, StringsCompare
  <2> QED
    BY <1>1, <2>2 DEF Younger
<1>3. ASSUME NEW r \in ids, NEW q \in ids, Younger(rs, r, q), Younger(rs, q, r)
      PROVE  FALSE
  <2>1. ~(ComesBefore(Digits[q], Digits[r]) /\ ComesBefore(Digits[r], Digits[q]))
    BY <1>1, StringsAsymmetric
  <2> QED
    BY <1>1, <1>3, <2>1 DEF Younger
<1>4. ASSUME NEW r \in ids, NEW q \in ids, NEW p \in ids,
             Younger(rs, r, q), Younger(rs, q, p)
      PROVE  Younger(rs, r, p)
  <2>1. ComesBefore(Digits[p], Digits[q]) /\ ComesBefore(Digits[q], Digits[r])
          => ComesBefore(Digits[p], Digits[r])
    BY <1>1, StringsTransitive
  <2> QED
    BY <1>1, <1>4, <2>1 DEF Younger
<1> QED
  BY <1>2, <1>3, <1>4

(* r comes before all the others; of finitely many sessions one does.      *)
IsLatest(rs, r, ids) ==
  r \in ids /\ \A q \in ids \ {r} : Younger(rs, r, q)

LEMMA OneIsLatest ==
  ASSUME NEW rs, NEW n \in Nat, NEW ids \in SUBSET (0 .. n), CanBeCompared(rs, ids), ids # {}
  PROVE  \E r : IsLatest(rs, r, ids)
<1> DEFINE N == {k \in Nat : \E some \in SUBSET ids :
                   /\ some \subseteq 0 .. k /\ some # {}
                   /\ ~ \E r : IsLatest(rs, r, some)}
<1> SUFFICES ASSUME N # {} PROVE FALSE
  OBVIOUS
<1>1. PICK k \in N : \A j \in N : k <= j
  BY LeastNumber
<1>2. PICK some \in SUBSET ids :
        /\ some \subseteq 0 .. k /\ some # {}
        /\ ~ \E r : IsLatest(rs, r, some)
  OBVIOUS
<1>3. k \in Nat
  OBVIOUS
<1>4. \A j \in Nat : j < k =>
        \A rest \in SUBSET ids :
          rest \subseteq 0 .. j /\ rest # {} => \E r : IsLatest(rs, r, rest)
  BY <1>1, <1>3
<1> HIDE DEF N
<1> DEFINE rest == some \ {k}
<1>5. CASE rest = {}
  <2>1. some = {k}
    BY <1>2, <1>5
  <2> QED
    BY <1>2, <2>1 DEF IsLatest
<1>6. CASE rest # {}
  <2>1. k - 1 \in Nat /\ k - 1 < k /\ rest \subseteq 0 .. k - 1
    <3>1. \A q \in rest : q \in 0 .. k /\ q # k
      BY <1>2
    <3> HIDE DEF rest
    <3>2. PICK q \in rest : q \in 0 .. k /\ q # k
      BY <1>6, <3>1
    <3> QED
      BY <1>3, <3>1, <3>2
  <2>2. PICK r : IsLatest(rs, r, rest)
    BY <1>2, <1>4, <1>6, <2>1
  <2>3. r \in some /\ r # k /\ \A q \in some \ {k, r} : Younger(rs, r, q)
    BY <2>2 DEF IsLatest
  <2>4. k \in some
    <3>1. ~IsLatest(rs, r, some)
      BY <1>2
    <3> QED
      BY <2>3, <3>1 DEF IsLatest
  <2>5. r \in ids /\ k \in ids /\ some \subseteq ids
    BY <1>2, <2>3, <2>4
  <2>6. CASE Younger(rs, r, k)
    <3>1. IsLatest(rs, r, some)
      BY <2>3, <2>6 DEF IsLatest
    <3> QED
      BY <1>2, <3>1
  <2>7. CASE Younger(rs, k, r)
    <3>1. \A q \in some \ {k, r} : Younger(rs, k, q)
      BY <2>3, <2>5, <2>7, YoungerIsAnOrder
    <3>2. IsLatest(rs, k, some)
      BY <2>4, <2>7, <3>1 DEF IsLatest
    <3> QED
      BY <1>2, <3>2
  <2> QED
    BY <2>3, <2>5, <2>6, <2>7, YoungerIsAnOrder
<1> QED
  BY <1>5, <1>6

-----------------------------------------------------------------------------
(* Review sessions and their verdicts.                                     *)

VerdictGiven == [by : Reviewers, kind : VerdictKind]

(* OneVerdictEach, for one session.                                        *)
OneEach(session) ==
  LET given == session.verdicts
  IN  /\ \A i \in DOMAIN given : given[i].by \in session.members
      /\ \A i, j \in DOMAIN given : given[i].by = given[j].by => i = j

(* VerdictsAreFinal, for two states of a session.                          *)
Extends(old, new) ==
  /\ [new EXCEPT !.verdicts = old.verdicts] = old
  /\ Len(old.verdicts) <= Len(new.verdicts)
  /\ SubSeq(new.verdicts, 1, Len(old.verdicts)) = old.verdicts

(* The inductive invariant, and what a step keeps.                         *)
ReviewInv ==
  /\ ReviewTypeOK
  /\ \A r \in DOMAIN reviews : OneEach(reviews[r])

Good ==
  /\ ReviewInv'
  /\ \A r \in DOMAIN reviews :
       r \in DOMAIN reviews' /\ Extends(reviews[r], reviews'[r])

-----------------------------------------------------------------------------
(* What each operation does to the sessions.                               *)

LEMMA SessionsAre ==
  ASSUME ReviewTypeOK, NEW r \in DOMAIN reviews
  PROVE  /\ reviews[r] \in ReviewSession
         /\ reviews[r].verdicts \in Seq(VerdictGiven)
BY DEF ReviewTypeOK, ReviewSession, VerdictGiven

LEMMA SameExtends ==
  ASSUME NEW session \in ReviewSession
  PROVE  Extends(session, session)
<1>1. session.verdicts \in Seq(VerdictGiven)
  BY DEF ReviewSession, VerdictGiven
<1>2. SubSeq(session.verdicts, 1, Len(session.verdicts)) = session.verdicts
  BY <1>1, SubSeqFull
<1>3. [session EXCEPT !.verdicts = session.verdicts] = session
  BY DEF ReviewSession
<1>4. Len(session.verdicts) \in Nat
  BY <1>1
<1> QED
  BY <1>2, <1>3, <1>4 DEF Extends

LEMMA RequestReviewGood ==
  ASSUME ReviewInv, NEW target \in Targets, NEW members \in SUBSET Reviewers,
         NEW at \in ReviewTimes, RequestReview(target, members, at)
  PROVE  Good
<1> DEFINE new == [target |-> target, members |-> members,
                   verdicts |-> << >>, createdAt |-> at]
<1>1. PICK n \in PriorReviews .. MaxReviews :
        reviews \in [PriorReviews + 1 .. n -> ReviewSession]
  BY DEF ReviewInv, ReviewTypeOK
<1>2. /\ n \in Nat /\ PriorReviews \in Nat /\ n >= PriorReviews
      /\ Cardinality(DOMAIN reviews) = n - PriorReviews
  <2>1. n \in Nat /\ PriorReviews \in Nat /\ n >= PriorReviews
    BY ReviewAssumption
  <2>2. Cardinality(PriorReviews + 1 .. n)
          = IF PriorReviews + 1 > n THEN 0 ELSE n - (PriorReviews + 1) + 1
    BY <2>1, FS_Interval
  <2>3. DOMAIN reviews = PriorReviews + 1 .. n
    BY <1>1
  <2> QED
    BY <2>1, <2>2, <2>3
<1>3. NextReviewId = n + 1 /\ n + 1 \in PriorReviews .. MaxReviews
  BY <1>2, ReviewAssumption DEF NextReviewId, RequestReview
<1>4. /\ DOMAIN reviews' = PriorReviews + 1 .. n + 1
      /\ reviews' = [r \in PriorReviews + 1 .. n + 1 |->
                       IF r = n + 1 THEN new ELSE reviews[r]]
  BY <1>1, <1>2, <1>3 DEF RequestReview
<1>5. << >> \in Seq(VerdictGiven)
  OBVIOUS
<1>6. new \in ReviewSession
  BY <1>5 DEF ReviewSession, VerdictGiven
<1>7. OneEach(new)
  BY DEF OneEach
<1>8. /\ n + 1 \in DOMAIN reviews' /\ reviews'[n + 1] = new
      /\ \A r \in DOMAIN reviews : r \in DOMAIN reviews' /\ reviews'[r] = reviews[r]
      /\ \A r \in DOMAIN reviews' : r = n + 1 \/ r \in DOMAIN reviews
  BY <1>1, <1>2, <1>4
<1> HIDE DEF new
<1>9. reviews' \in [PriorReviews + 1 .. n + 1 -> ReviewSession]
  BY <1>1, <1>2, <1>4, <1>6
<1>10. ReviewTypeOK'
  BY <1>3, <1>9 DEF ReviewTypeOK
<1>11. \A r \in DOMAIN reviews' : OneEach(reviews'[r])
  BY <1>7, <1>8 DEF ReviewInv
<1>12. \A r \in DOMAIN reviews : Extends(reviews[r], reviews'[r])
  BY <1>8, SessionsAre, SameExtends DEF ReviewInv
<1> QED
  BY <1>8, <1>10, <1>11, <1>12 DEF Good, ReviewInv, OneEach

LEMMA SubmitVerdictGood ==
  ASSUME ReviewInv, NEW r, NEW evidence, NEW kind \in VerdictKind,
         evidence.by \in Reviewers,
         SubmitVerdict(r, evidence, kind)
  PROVE  Good
<1> DEFINE old == reviews[r]
           verdict == [by |-> evidence.by, kind |-> kind]
           given == Append(old.verdicts, verdict)
           new == [old EXCEPT !.verdicts = given]
<1>1. /\ r \in DOMAIN reviews /\ evidence.by \in old.members
      /\ \A i \in DOMAIN old.verdicts : old.verdicts[i].by # evidence.by
  BY DEF SubmitVerdict, CanSubmitVerdict, HasJudged, VerdictsBy
<1>2. old \in ReviewSession /\ old.verdicts \in Seq(VerdictGiven) /\ OneEach(old)
  BY <1>1, SessionsAre DEF ReviewInv
<1>3. verdict \in VerdictGiven
  BY DEF VerdictGiven
<1>4. /\ given \in Seq(VerdictGiven)
      /\ Len(given) = Len(old.verdicts) + 1 /\ Len(old.verdicts) \in Nat
      /\ \A i \in 1 .. Len(old.verdicts) : given[i] = old.verdicts[i]
      /\ given[Len(old.verdicts) + 1] = verdict
  BY <1>2, <1>3, AppendProperties
<1>5. reviews' = [reviews EXCEPT ![r] = new]
  BY <1>1, <1>2 DEF SubmitVerdict, ReviewSession
<1>6. /\ new \in ReviewSession /\ new.verdicts = given
      /\ new.members = old.members
      /\ [new EXCEPT !.verdicts = old.verdicts] = old
  BY <1>2, <1>4 DEF ReviewSession, VerdictGiven
<1>7. DOMAIN given = 1 .. Len(old.verdicts) + 1 /\ DOMAIN old.verdicts = 1 .. Len(old.verdicts)
  BY <1>2, <1>4
<1>8. SubSeq(given, 1, Len(old.verdicts)) = old.verdicts
  <2> DEFINE n == Len(old.verdicts)
             head == SubSeq(given, 1, n)
  <2>1. \A i \in 1 .. n : given[i] \in VerdictGiven
    BY <1>4, <1>7
  <2>2. /\ head \in Seq(VerdictGiven)
        /\ Len(head) = IF 1 <= n THEN n - 1 + 1 ELSE 0
        /\ \A i \in 1 .. n - 1 + 1 : head[i] = given[1 + i - 1]
    BY <1>4, <2>1, SubSeqProperties
  <2>3. Len(head) = n
    BY <1>4, <2>2
  <2>4. \A i \in 1 .. n : head[i] = old.verdicts[i]
    BY <1>4, <2>2
  <2> HIDE DEF head
  <2> QED
    BY <1>2, <2>2, <2>3, <2>4 DEF head
<1> HIDE DEF old, verdict, given, new
<1>9. OneEach(new)
  <2>1. verdict.by = evidence.by
    BY DEF verdict
  <2>2. \A i \in DOMAIN old.verdicts : old.verdicts[i].by # evidence.by
    BY <1>1 DEF old
  <2>3. /\ \A i \in DOMAIN old.verdicts : old.verdicts[i].by \in old.members
        /\ \A i, j \in DOMAIN old.verdicts :
             old.verdicts[i].by = old.verdicts[j].by => i = j
    BY <1>2 DEF OneEach
  <2>4. evidence.by \in old.members
    BY <1>1 DEF old
  <2>5. \A i \in DOMAIN given :
          \/ i \in DOMAIN old.verdicts /\ given[i] = old.verdicts[i]
          \/ i = Len(old.verdicts) + 1 /\ given[i] = verdict
    BY <1>4, <1>7
  <2>6. \A i \in DOMAIN given : given[i].by \in old.members
    BY <2>1, <2>3, <2>4, <2>5
  <2>7. \A i, j \in DOMAIN given : given[i].by = given[j].by => i = j
    BY <2>1, <2>2, <2>3, <2>5
  <2> QED
    BY <1>6, <2>6, <2>7 DEF OneEach
<1>10. Extends(old, new)
  BY <1>4, <1>6, <1>8 DEF Extends
<1>11. /\ DOMAIN reviews' = DOMAIN reviews
       /\ \A q \in DOMAIN reviews : reviews'[q] = IF q = r THEN new ELSE reviews[q]
  BY <1>5 DEF ReviewInv, ReviewTypeOK
<1>12. ReviewTypeOK'
  <2>1. PICK n \in PriorReviews .. MaxReviews :
          reviews \in [PriorReviews + 1 .. n -> ReviewSession]
    BY DEF ReviewInv, ReviewTypeOK
  <2>2. reviews' \in [PriorReviews + 1 .. n -> ReviewSession]
    BY <1>5, <1>6, <2>1
  <2> QED
    BY <2>1, <2>2 DEF ReviewTypeOK
<1>13. \A q \in DOMAIN reviews : Extends(reviews[q], reviews'[q])
  BY <1>10, <1>11, SessionsAre, SameExtends DEF ReviewInv, old
<1>14. \A q \in DOMAIN reviews' : OneEach(reviews'[q])
  BY <1>9, <1>11 DEF ReviewInv
<1> QED
  BY <1>11, <1>12, <1>13, <1>14 DEF Good, ReviewInv, OneEach

-----------------------------------------------------------------------------
(* The invariant and its consequences.                                     *)

LEMMA ReviewStep ==
  ASSUME ReviewInv, [ReviewNext]_reviews
  PROVE  Good
<1>1. CASE UNCHANGED reviews
  BY <1>1, SessionsAre, SameExtends DEF ReviewInv, ReviewTypeOK, OneEach, Good
<1>2. ASSUME NEW r \in ReviewId, NEW by \in Reviewers, NEW hasOutput \in BOOLEAN,
             NEW status \in {"Assigned", "Submitted"}, NEW kind \in VerdictKind,
             SubmitVerdict(r, Evidence(by, status, hasOutput), kind)
      PROVE  Good
  <2>1. Evidence(by, status, hasOutput).by = by
    BY DEF Evidence
  <2> QED
    BY <1>2, <2>1, SubmitVerdictGood
<1> QED
  BY <1>1, <1>2, RequestReviewGood DEF ReviewNext

LEMMA ReviewInvariant == ReviewSpec => []ReviewInv
<1>1. ReviewInit => ReviewInv
  <2> SUFFICES ASSUME ReviewInit
               PROVE  ReviewInv
    OBVIOUS
  <2>1. /\ PriorReviews \in PriorReviews .. MaxReviews
        /\ PriorReviews + 1 .. PriorReviews = {}
    BY ReviewAssumption
  <2>2. reviews \in [PriorReviews + 1 .. PriorReviews -> ReviewSession]
    BY <2>1 DEF ReviewInit
  <2> QED
    BY <2>1, <2>2 DEF ReviewInv, ReviewTypeOK
<1>2. ReviewInv /\ [ReviewNext]_reviews => ReviewInv'
  BY ReviewStep DEF Good
<1> QED
  BY <1>1, <1>2, PTL DEF ReviewSpec

(* Review ids are given out without gaps and every session has its fields' *)
(* types (core.rs:17-22).                                                  *)
THEOREM ReviewTypeCorrect == ReviewSpec => []ReviewTypeOK
<1>1. ReviewInv => ReviewTypeOK
  BY DEF ReviewInv
<1> QED
  BY <1>1, ReviewInvariant, PTL

(* However verdicts come in, a session has at most one of each reviewer    *)
(* and none of anybody it did not ask, so that "all passed" means that     *)
(* everybody who was asked agreed (core.rs:79-97).                         *)
THEOREM VerdictsAreIndividual == ReviewSpec => []OneVerdictEach
<1>1. ReviewInv => OneVerdictEach
  BY DEF ReviewInv, OneEach, OneVerdictEach
<1> QED
  BY <1>1, ReviewInvariant, PTL

(* What a settlement has read of a session stays true: its target, its     *)
(* members and its time never change and its verdicts are only added to    *)
(* (core.rs:38-48, 99-106).                                                *)
THEOREM VerdictsStayFinal == ReviewSpec => VerdictsAreFinal
<1>1. ReviewInv /\ [ReviewNext]_reviews
        => [\A r \in DOMAIN reviews :
              r \in DOMAIN reviews' /\ Extends(reviews[r], reviews'[r])]_reviews
  BY ReviewStep DEF Good
<1>2. (\A r \in DOMAIN reviews :
         r \in DOMAIN reviews' /\ Extends(reviews[r], reviews'[r]))
        => \A r \in DOMAIN reviews :
             LET old == reviews[r].verdicts
                 new == reviews'[r].verdicts
             IN  /\ r \in DOMAIN reviews'
                 /\ [reviews'[r] EXCEPT !.verdicts = old] = reviews[r]
                 /\ Len(old) <= Len(new) /\ SubSeq(new, 1, Len(old)) = old
  BY DEF Extends
<1> QED
  BY <1>1, <1>2, ReviewInvariant, PTL DEF ReviewSpec, VerdictsAreFinal

(* Latest, of sessions that are a parameter.                               *)
LatestBy(rs, ids) == CHOOSE r \in ids : \A q \in ids \ {r} : Younger(rs, r, q)

LEMMA LatestIs ==
  ASSUME NEW rs, NEW n \in PriorReviews .. MaxReviews,
         rs \in [PriorReviews + 1 .. n -> ReviewSession],
         NEW ids \in SUBSET DOMAIN rs, ids # {}
  PROVE  CanBeCompared(rs, ids) /\ IsLatest(rs, LatestBy(rs, ids), ids)
<1>1. /\ n \in Nat /\ ids \in SUBSET (0 .. n)
      /\ \A r \in ids : r \in Nat /\ rs[r] \in ReviewSession
  BY ReviewAssumption
<1>2. CanBeCompared(rs, ids)
  BY <1>1, ReviewAssumption DEF CanBeCompared, ReviewSession
<1>3. \E r : IsLatest(rs, r, ids)
  BY <1>1, <1>2, OneIsLatest
<1>4. \E r \in ids : \A q \in ids \ {r} : Younger(rs, r, q)
  BY <1>3 DEF IsLatest
<1> QED
  BY <1>2, <1>4 DEF LatestBy, IsLatest

LEMMA LatestIsAlone ==
  ASSUME NEW rs, NEW ids, CanBeCompared(rs, ids), NEW r, NEW q,
         IsLatest(rs, r, ids), IsLatest(rs, q, ids)
  PROVE  r = q
BY YoungerIsAnOrder DEF IsLatest

(* Only a session that is just being requested takes over from the latest  *)
(* session of a target, although ids are compared as strings: what was     *)
(* latest stays so until then, and verdicts have no say in it              *)
(* (gateway.rs:284-290).                                                   *)
THEOREM LatestOnlyMovesOn == ReviewSpec => NeverLatestAgain
<1> DEFINE Of(rs, target) == {r \in DOMAIN rs : rs[r].target = target}
           MovesOn(target) ==
             Of(reviews, target) # {} =>
               \/ LatestBy(reviews', Of(reviews', target))
                    = LatestBy(reviews, Of(reviews, target))
               \/ LatestBy(reviews', Of(reviews', target)) \notin DOMAIN reviews
<1>1. ASSUME ReviewInv, [ReviewNext]_reviews, NEW target \in Targets
      PROVE  MovesOn(target)
  <2> DEFINE old == Of(reviews, target)
             new == Of(reviews', target)
             l == LatestBy(reviews, old)
             m == LatestBy(reviews', new)
  <2> SUFFICES ASSUME old # {}, m \in DOMAIN reviews PROVE m = l
    OBVIOUS
  <2>1. Good
    BY <1>1, ReviewStep
  <2>2. \A r \in DOMAIN reviews :
          /\ r \in DOMAIN reviews' /\ reviews'[r].target = reviews[r].target
          /\ reviews'[r].createdAt = reviews[r].createdAt
    <3> TAKE r \in DOMAIN reviews
    <3>1. /\ r \in DOMAIN reviews'
          /\ [reviews'[r] EXCEPT !.verdicts = reviews[r].verdicts] = reviews[r]
      BY <2>1 DEF Good, Extends
    <3>2. reviews[r] \in ReviewSession /\ reviews'[r] \in ReviewSession
      BY <1>1, <2>1, <3>1 DEF Good, ReviewInv, ReviewTypeOK
    <3> QED
      BY <3>1, <3>2 DEF ReviewSession
  <2>3. /\ old \subseteq new /\ old \subseteq DOMAIN reviews
        /\ new \subseteq DOMAIN reviews' /\ new # {}
        /\ \A r \in new : r \in DOMAIN reviews => r \in old
    BY <2>2
  <2> HIDE DEF old, new, Of
  <2>4. CanBeCompared(reviews, old) /\ IsLatest(reviews, l, old)
    BY <1>1, <2>3, LatestIs DEF ReviewInv, ReviewTypeOK
  <2>5. IsLatest(reviews', m, new)
    BY <2>1, <2>3, LatestIs DEF Good, ReviewInv, ReviewTypeOK
  <2>6. \A r, q \in old : Younger(reviews', r, q) => Younger(reviews, r, q)
    BY <2>2, <2>3 DEF Younger
  <2> HIDE DEF l, m
  <2>7. IsLatest(reviews, m, old)
    BY <2>3, <2>5, <2>6 DEF IsLatest
  <2> QED
    BY <2>4, <2>7, LatestIsAlone
<1>2. ReviewInv /\ [ReviewNext]_reviews
        => [\A target \in Targets : MovesOn(target)]_reviews
  BY <1>1
<1>3. (\A target \in Targets : MovesOn(target))
        => \A target \in Targets :
             LET latest == Latest(SessionsOf(target))
             IN  SessionsOf(target) # {}
                   => \/ Latest(SessionsOf(target))' = latest
                      \/ Latest(SessionsOf(target))' \notin DOMAIN reviews
  BY Zenon DEF Latest, LatestBy, SessionsOf, IsYounger, Younger
<1> HIDE DEF MovesOn
<1> QED
  BY <1>2, <1>3, ReviewInvariant, PTL
     DEF ReviewSpec, NeverLatestAgain, Latest, SessionsOf, IsYounger

=============================================================================
