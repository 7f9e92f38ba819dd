SPECIFICATION Spec
CONSTANTS
  Jobs = {j1}
  Backend = "slurm_ssh"
  CacheJobs = {}
  Environment = {"cancel"}
PROPERTIES
  TerminalStable
