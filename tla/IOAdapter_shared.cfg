SPECIFICATION FairSpec
CONSTANTS
  t1 = t1
  t2 = t2
  reader = reader
  Threads = {t1, t2, reader}
  Schemes = {csv}
  Calls <- SharedCalls
  MaxCalls = 2
  RowKinds = {"raises", "empty", "no_memory", "ragged", "good"}
  Replaces = FALSE
  Pins = TRUE
  NoThread = NoThread
  NoId = NoId
INVARIANTS
  TypeOK
  AdaptersKeptAlive
  NoCallIntoCollected
  RegistriesAgree
  FailedReadsReported
PROPERTIES
  EveryCallReturns
