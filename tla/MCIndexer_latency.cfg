\* A fill one block after its intent was submitted, no crash, no failure.
SPECIFICATION Spec
CONSTANTS
  worker = worker
  Solver <- Workers
  MaxIntents = 1
  MaxBids = 1
  MaxSelections = 1
  MaxBlock = 2
  MaxRange = 1
  MaxFaults = 0
INVARIANT LatencyMeasured
CHECK_DEADLOCK FALSE
