SPECIFICATION FairSpec
CONSTANTS
  Jobs = {j1}
  Backend = "slurm_ssh"
  CacheJobs = {j1}
  Environment = {"cancel", "delete", "gc", "restart", "interrupt", "kill", "quota"}
INVARIANTS
  RetiredTaskWindsUp
  DurableOutcome
PROPERTIES
  Settles
  SettlesAfterRestarts
