SPECIFICATION WorkerSpec
CONSTANTS
  Isolates = {i1, i2}
  Slots = {c1, c2}
  Ttl = 2
  Slow = 1
  BlockTime = 2
  MaxVisits = 2
  Visitor = {v1}
  Guest = guest
  Request = {c1, c2}
  TokenTtl = 2
  Hold = 1
  Latency = 1
  Lag = 0
  MaxEpoch = 1
  MaxTokens = 1
  MaxClock = 3
  Ids = {i1, i2, c1, c2}
  Cap = 2
  Budget = 2
  Slack = 1
  MaxJoins = 7
SYMMETRY Alike
INVARIANTS
  WorkerTypeOK
  StalenessBounded
  SettledVerdict
  TokenFollowsSeat
  GateCurrent
  CountsExact
PROPERTIES
  ServedInOrder
CHECK_DEADLOCK FALSE
