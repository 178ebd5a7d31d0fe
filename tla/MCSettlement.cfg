\* Two agents who pay each other for two assignments; an account overflows at 4.
SPECIFICATION SettlementSpec
CONSTANTS
  Agents = {alice, bob}
  Tasks = {t1}
  Assignments = {a1, a2}
  Reviews = {r1}
  Amounts = {0, 1, 2}
  MaxBalance = 3
  MaxDeposits = 2
  MaxHolds = 2
SYMMETRY Symmetry
INVARIANTS
  SettlementTypeOK
  OneActiveHoldPerSlot
  LedgerMatchesHolds
  FundsConserved
PROPERTIES
  SettledHoldsAreFinal
  LedgerIsAJournal
CHECK_DEADLOCK FALSE
