SPECIFICATION Spec
CONSTANTS
  t1 = t1
  t2 = t2
  Threads = {t1, t2}
  Symbols = {alice, bob}
  Calls <- SymCalls
  MaxCalls = 1
  MayFail = {}
  Locking = TRUE
  NoThread = NoThread
  NoSymbol = NoSymbol
  NoId = NoId
INVARIANTS
  SingleCaller
