CONSTANTS
  Threads = {t1, t2}
  Scenarios = {"BEARISH_VOLUME_BREAKDOWN", "LEAD_TRADER_CLOSES_POSITION", "STOP_LOSS_HIT", "ORDER_REJECTION", "API_CONNECTION_FAILURE"}
  Controls = {"pause", "resume", "emergency", "dashboard"}
  MaxOpenPositions = 1
  MaxSignals = 2
SPECIFICATION Spec
SYMMETRY ThreadSymmetry
INVARIANTS TypeOK PositionsBackedByOrders ClosedOnce ExposureBound
