\* A trigger price must be positive; that of a BUY is rounded down after the check.
CONSTANTS
  Clients = {c1, c2}
  MaxTime = 6
  Requests = 2
  Period = 3
  Timeouts = {0, 2}
  FailureThreshold = 2
  RecoverySeconds = 3
  MaxFailuresCounted = 6
  TtlSeconds = 2
  MaxLoads = 4
  StaleAfter = 2
  RefreshSeconds = 2
  Skews <- BehindAndAhead
  MasterQuantities = {3, 5}
  Multipliers = {1, 2}
  Step = 2
  Prices = {1, 2}
  Profiles <- AccountProfiles
  NoInstruction <- Uninstructed
  OrderInputs <- SmallOrders
  TwapInputs = {}
  VolumeInputs = {}
SPECIFICATION Spec
CHECK_DEADLOCK FALSE
INVARIANT TriggersArePositive
