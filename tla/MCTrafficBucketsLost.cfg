SPECIFICATION BucketsSpec
CONSTANTS
  Width = 2
  Retention = 3
  MaxJoins = 3
  MaxAdmits = 2
  MaxClock = 7
INVARIANTS
  Conserved
