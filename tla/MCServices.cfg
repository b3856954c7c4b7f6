SPECIFICATION ServicesSpec
CONSTANTS
  Webhook = {1, 2, 3}
  MaxAttempts = 3
  RetryDelay <- Delays
  Batch = 2
  SendTimeout = 1
  Pace = {0, 2}
  NoAlarm = NoAlarm
  MaxCrashes = 1
  Threshold = {2, 3}
  Interval = 2
  ProbeTimeout = 1
  MaxLost = 1
  Width = 2
  Retention = 3
  MaxJoins = 3
  MaxAdmits = 2
  MaxClock = 7
  d1 = d1
  Desks = {d1}
  Queues = {q1, q2}
  Slots = {c1, c2}
  First = q1
  Times = {1}
  Bounds = {1, 2}
  MaxSaves = 2
INVARIANTS
  OutboxArmed
  AttemptsExact
  LevelEarned
  NeverOvercounts
  LostOnlyToStaleAlarm
PROPERTIES
  Settles
  Gradual
  FollowsOrigin
  CatchesUp
