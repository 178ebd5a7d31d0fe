\* Two pieces of work in one session, and two handlers that may overlap: the
\* key of the first expires while it is still at work.
SPECIFICATION DeliverySpec
CONSTANTS
  alice = alice
  t1 = t1
  Agents = {alice}
  Tasks = {t1}
  Manifests <- MCManifests
  Outputs <- MCOutputs
  NoOutput = none
  Uris = {0, 1}
  Keys = {key1}
  PendingTimeout = 2
  MaxTime = 2
  MaxSessions = 1
  MaxAssignments = 2
  MaxCalls = 2
INVARIANTS
  LiveSessionTypeOK
  ReferencesSound
  SessionClockLeads
  OutputsNameTheirWork
  LocatorsFindTheWork
  RetriesHashAlike
PROPERTIES
  NothingGoesBack
CHECK_DEADLOCK FALSE
