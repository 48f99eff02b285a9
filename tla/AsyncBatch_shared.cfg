SPECIFICATION FairSpec
CONSTANTS
  main = main
  helper = helper
  Tasks = {main, helper}
  Owner = main
  Calls <- SharedCalls
  MaxCalls <- Bounds
  Cancellable = {main, helper}
  NoTask = NoTask
  NoJob = NoJob
INVARIANTS
  JobsSeeOpenProgram
  NoExecutorLost
  ResultsOwned
PROPERTIES
  EveryCallResolves
