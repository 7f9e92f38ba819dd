SPECIFICATION FairSpec
CONSTANTS
  Backends = {"local", "slurm_ssh"}
  MAX_IN_MEMORY_LINES = 2
  MaxUnits = 3
  MaxOutput = 2
  Clients = {c1}
  Environment = {"cancel", "delete", "restart", "full", "kill", "backend"}
INVARIANTS
  TypeOK
  LogIsOutput
  NothingReadIsLost
  DoneMeansAll
  MonitorReadsAll
  StreamAscends
PROPERTIES
  StreamEnds
