SPECIFICATION FairSpec
CONSTANTS
  main = main
  helper = helper
  Tasks = {main, helper}
  Owner = main
  Calls <- SharedCalls
  MaxCalls <- Bounds
  Cancellable = {main, helper}
  Blocks = {"none", "orderly"}
  NoTask = NoTask
  NoJob = NoJob
INVARIANTS
  SessionOnOpenProgram
  DeltasReachOneTask
  ExitClosesInner
PROPERTIES
  AbandonedSessionFreed
