SPECIFICATION FairSpec
CONSTANTS
  Jobs = {j1}
  Backend = "local"
  CacheJobs = {j1}
  Environment = {"cancel", "delete", "gc", "restart", "interrupt", "kill", "quota", "backend"}
INVARIANTS
  FailedHasEnded
  RetiredTaskWindsUp
  DurableOutcome
PROPERTIES
  TerminalStable
  SpawnsOnlyWanted
  KeepsPromise
  Settles
  SettlesAfterRestarts
