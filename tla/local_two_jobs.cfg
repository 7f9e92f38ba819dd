SPECIFICATION Spec
CONSTANTS
  Jobs = {j1, j2}
  Backend = "local"
  CacheJobs = {j1}
  Environment = {"cancel", "restart", "full"}
INVARIANTS
  TypeOK
  TaskEndsTerminal
  CompletedIsReal
  LaunchIsLogged
