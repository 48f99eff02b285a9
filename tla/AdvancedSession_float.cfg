SPECIFICATION Spec
CONSTANTS
  t1 = t1
  t2 = t2
  Threads = {t1}
  Calls <- UntypedCalls
  MaxCalls = 2
  MayFail = {}
  Locking = TRUE
  FloatProgram = TRUE
  NoThread = NoThread
  NoId = NoId
INVARIANTS
  FloatStepRefused
