SPECIFICATION Spec
CONSTANTS
  Backends = {"local"}
  MAX_IN_MEMORY_LINES = 4
  MaxUnits = 2
  MaxOutput = 2
  Clients = {c1}
  Environment = {}
INVARIANTS
  SentOnce
