\* Two coroutines submitting one intent, three times each; two streams, three events and a
\* window of two.
CONSTANTS
  Callers = {c1, c2}
  Intents = {i1}
  MaxRetries = 2
  MaxCalls = 3
  Streams = {ticker, depth}
  Events = {e1, e2, e3}
  MaxSeen = 2
  NotAnEvent = none
SPECIFICATION Spec
CHECK_DEADLOCK FALSE
INVARIANTS TypeOK DuplicatesAccountedFor CancelHolds ClosedGatesPlaceNothing DuplicatesAreRecent StreamsResent LossesRecovered StopReopensOnce
PROPERTIES SubmissionsEnd StopEndsRun
