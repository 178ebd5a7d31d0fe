\* One agent, one key: a handler is dropped after it created the task, and the
\* client asks again when the key is free.
SPECIFICATION KeyedSpec
CONSTANTS
  Agents = {alice}
  Keys = {key1}
  MaxTime = 2
  MaxTasks = 2
  PendingTimeout = 2
  MaxRecords = 1
  MaxCalls = 1
  Endings = {}
INVARIANTS
  OneTaskPerKey
CHECK_DEADLOCK FALSE
