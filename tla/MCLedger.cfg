\* Two accounts, two solvers, calls two deep, two settlements.
SPECIFICATION Spec
CONSTANTS
  payer = payer
  payee = payee
  registry = registry
  adapter = adapter
  ZeroAddress = ZeroAddress
  Account = {payer, payee}
  Instructions <- TheInstructions
  Amounts = {1}
  Values = {0, 1, 2}
  Endowment = 2
  MaxSolvers = 2
  MaxDepth = 2
  MaxSettlements = 2
  MaxTime = 2
INVARIANTS ContractsCovered SettledExactly
CHECK_DEADLOCK FALSE
