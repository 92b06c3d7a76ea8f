\* Spends under limits, or session orders that re-enter, or signed payments: see Scoped.
SPECIFICATION Spec
CONSTANTS
  Native = Native
  token = token
  key = key
  watcher = watcher
  method = method
  merchant = merchant
  h1 = h1
  h2 = h2
  NoGuardian = NoGuardian
  Module = Module
  Self = Self
  Target = {token}
  Selector = {method}
  Guardian = {watcher}
  PaymentKey = {merchant}
  PaymentHash = {h1, h2}
  Amount = {1, 2}
  Maximum = {0, 1, 2}
  Day = 2
  MaxTime = 5
  Key = {key}
  Calls <- TheCalls
  Order <- SessionOrders
  Expiry = {2, 3}
  MaxDepth = 2
  MaxSpends = 3
  MaxPayments = 2
  GrantedTarget <- AllTargets
  GrantedFunction <- AllFunctions
INVARIANTS TypeOK BooksBalance SpentWithinPeak AtMostTwiceADay NonceHonouredOnce PaymentsRecordedOnce
PROPERTIES FrozenMeansStill PowersStayWithSigner
CONSTRAINT Scoped
CHECK_DEADLOCK FALSE
