SPECIFICATION FairSpec
CONSTANTS
  t1 = t1
  t2 = t2
  Threads = {t1, t2}
  Calls <- ClosingCalls
  MaxCalls = 3
  MayFail = {"set_cb", "step"}
  Locking = TRUE
  FloatProgram = FALSE
  NoThread = NoThread
  NoId = NoId
INVARIANTS
  TypeOK
  CloseFrees
PROPERTIES
  ImplementsContract
  EveryCallReturns
