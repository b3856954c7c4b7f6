SPECIFICATION Spec
CONSTANTS
  v1 = v1
  v2 = v2
  v3 = v3
  Visitor = {v1, v2, v3}
  Hash <- SameHash
  Capacity = 1
  Stay = 4
  TokenTtl = 2
  Retain = 2
  SweepGap = 1
  ActiveTick = 1
  WaitTick = 2
  IdleTick = 3
  ProbeTick = 2
  RetryDelay = 1
  SlowDiv = 2
  RateDen = 2
  StatusBudget = 2
  MinPeriod = 1
  FrontBand = 1
  NearEta = 1
  BandTicks = 1
  Settings <- LineSettings
  MaxClock = 3
  MaxSeq = 4
SYMMETRY AnyVisitor
INVARIANTS
  TypeOK
  AheadCoherent
  ArrivalOrder
PROPERTIES
  LineCapped
  ImplementsLine
