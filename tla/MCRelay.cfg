\* Two callers and one place in the channel; one slot, for two downloads.
SPECIFICATION ServiceSpec
CONSTANTS
  MaxBlobSize = 1
  DefaultTtl = 1
  MaxTtl = 1
  DefaultDownloads = 2
  DownloadLimit = 2
  Sizes = {1}
  Ttls = {0}
  Downloads = {0, 3}
  MaxTime = 1
  MaxSlots = 1
  Callers = {c1, c2}
  CommandBuffer = 1
  Nobody = nobody
INVARIANTS
  RelayTypeOK
  CopiesAreCounted
PROPERTIES
  SweepsAreThorough
  CallsAreAtomic
  CallsAreAnswered
CHECK_DEADLOCK FALSE
