SPECIFICATION Spec
CONSTANTS
  None = None
  Rules = {ra}
  Wildcards = {{wa}}
  SnakemakeIds = {0}
  MaxRows = 6
  MaxSlurmId = 2
  Backends = {"local", "slurm_ssh"}
INVARIANTS
  TypeOK
  RoutesAgree
  OverviewIsWhole
  LogsAreThoseWithContent
PROPERTIES
  AnswersPersist
