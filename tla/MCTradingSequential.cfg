CONSTANTS
  Threads = {t1}
  Scenarios <- MovingScenarios
  Controls = {"start", "stop"}
  MaxOpenPositions = 3
  MaxSignals = 6
SPECIFICATION FairSpec
INVARIANTS EmergencyMeansFlat SignalsNeverRepeat RealizedPnlNeverMoves
PROPERTIES RequestsTerminate ImplementsBook
