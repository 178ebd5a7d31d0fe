\* Two agents that choose the same keys, two handlers at once, and tasks that
\* are closed and left meanwhile; a retry may come in time or too late.
SPECIFICATION KeyedSpec
CONSTANTS
  Agents = {alice, bob}
  Keys = {key1, key2}
  MaxTime = 2
  MaxTasks = 2
  PendingTimeout = 2
  MaxRecords = 3
  MaxCalls = 2
  Endings = {"Completed"}
SYMMETRY Symmetry
INVARIANTS
  TaskTypeOK
  IndexesMatch
  OneHandlerPerKey
  AnswersAreTrue
PROPERTIES
  AnswersAreFinal
CHECK_DEADLOCK FALSE
