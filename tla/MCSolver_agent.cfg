\* One intent, with a plan or without, two bids, two selections, a crash or an error
\* anywhere.
SPECIFICATION Spec
CONSTANTS
  agent = agent
  rival = rival
  Solver <- Solvers
  Self = agent
  StartLatest = FALSE
  Workable <- First
  MaxIntents = 1
  MaxBids = 2
  MaxSelections = 2
  MaxBlock = 4
  MaxFaults = 1
INVARIANTS OneBidPerLife PlansBounded
PROPERTIES OpenIntentsPickedUp SelectedBidsFilled
CHECK_DEADLOCK FALSE
