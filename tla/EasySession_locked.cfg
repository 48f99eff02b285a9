SPECIFICATION FairSpec
CONSTANTS
  t1 = t1
  t2 = t2
  Threads = {t1, t2}
  Symbols = {alice}
  Calls <- LockedCalls
  MaxCalls = 2
  MayFail = {"intern", "iud", "step", "snapshot"}
  Locking = TRUE
  NoThread = NoThread
  NoSymbol = NoSymbol
  NoId = NoId
INVARIANTS
  TypeOK
  LockedInv
  CloseFrees
PROPERTIES
  ImplementsContract
  EveryCallReturns
