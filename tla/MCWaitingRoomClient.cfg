SPECIFICATION ClientSpec
CONSTANTS
  Chains = {c1, c2}
  Nowhere = Nowhere
  MaxFailed = 1
  Setups <- SomeSetups
INVARIANTS
  RedirectsEntered
  TimersFollow
PROPERTIES
  ConfirmedArrives
CHECK_DEADLOCK FALSE
