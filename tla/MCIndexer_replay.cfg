\* One intent, two bids, two selections, a crash or a failing query anywhere.
SPECIFICATION Spec
CONSTANTS
  worker = worker
  Solver <- Workers
  MaxIntents = 1
  MaxBids = 2
  MaxSelections = 2
  MaxBlock = 2
  MaxRange = 1
  MaxFaults = 1
INVARIANTS NoDataLoss FillsBounded 
PROPERTIES FinalRowsStay EventuallyIndexed
CHECK_DEADLOCK FALSE
