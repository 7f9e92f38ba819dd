SPECIFICATION Spec
CONSTANTS
  Jobs = {j1, j2}
  Files = {f1}
  Shown = {j1}
  Backends = {"local", "slurm_ssh"}
  None = None
INVARIANTS
  OutputsAreListed
