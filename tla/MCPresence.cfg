\* Two agents, one always idle and one always busy, and one capability.
SPECIFICATION PresenceSpec
CONSTANTS
  Agents = {1, 2}
  IdleTimeout = 2
  BusyTimeout = 1
  Busy = {2}
  Capabilities = {"draw"}
  MaxConcurrency = 1
  MaxMarks = 2
  Drops = TRUE
INVARIANTS
  DiscoveryIsExact
PROPERTIES
  NoFalseAlarm
  SilenceIsReported
  HiddenOnlyWhenSilent
