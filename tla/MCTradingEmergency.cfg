\* Two handlers: an emergency stop beside a lead trader that opens a long.
CONSTANTS
  Threads = {t1, t2}
  Scenarios = {"LEAD_TRADER_OPENS_LONG"}
  Controls = {"emergency"}
  MaxOpenPositions = 3
  MaxSignals = 2
SPECIFICATION Spec
SYMMETRY ThreadSymmetry
INVARIANT EmergencyMeansFlat
