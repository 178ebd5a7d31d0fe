\* Two agents, two processes of one user, two tokens, and handlers that read any
\* of two times; capabilities play no part.
CONSTANTS
  a1 = a1
  a2 = a2
  Agents = {a1, a2}
  Capabilities = {}
  MaxConcurrency = 1
  p1 = p1
  p2 = p2
  Processes = {p1, p2}
  NoToken = NoToken
  NoCredentials = NoCredentials
  MaxTokens = 2
  MaxTime = 1
SYMMETRY Symmetry
SPECIFICATION AccountsSpec
INVARIANTS AccountsTypeOK
PROPERTIES RevokedForGood IdentityIsKept
CHECK_DEADLOCK FALSE
