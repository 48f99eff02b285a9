SPECIFICATION FairSpec
CONSTANTS
  t1 = t1
  t2 = t2
  Threads = {t1, t2}
  MaxCaptures = 1
  MaxPrints <- Inside
  MaxOutside <- Beside
  Capacity = 1
INVARIANTS
  StdoutRestored
  CapturedInOrder
  NothingEscapes
  NoDescriptorLeft
PROPERTIES
  EveryCaptureReturns
