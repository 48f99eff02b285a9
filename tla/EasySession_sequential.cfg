SPECIFICATION Spec
CONSTANTS
  t1 = t1
  t2 = t2
  Threads = {t1, t2}
  Symbols = {alice}
  Calls <- AllBesideIntern
  MaxCalls = 4
  MayFail = {"iud", "sym", "step", "snapshot", "make_compound"}
  Locking = TRUE
  NoThread = NoThread
  NoSymbol = NoSymbol
  NoId = NoId
INVARIANTS
  DeltasExactlyOnce
  NoSymbolMissed
  StagedBuffersAlive
  CompoundsDieWithEngine
  ArgtypesRestored
