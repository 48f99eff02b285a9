SPECIFICATION Spec
CONSTANTS
  t1 = t1
  t2 = t2
  Threads = {t1}
  Calls <- AllCalls
  MaxCalls = 5
  MayFail = {"iud", "step", "snapshot", "make_compound"}
  Locking = TRUE
  FloatProgram = FALSE
  NoThread = NoThread
  NoId = NoId
INVARIANTS
  DeltasExactlyOnce
  ArmedSlotAlive
  StepsDrainTheirKind
