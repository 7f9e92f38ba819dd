SPECIFICATION Spec
CONSTANTS
  Jobs = {j1}
  Backend = "local"
  CacheJobs = {}
  Environment = {"delete", "restart"}
INVARIANTS
  DeletedIsGone
