\* A task is deleted before rt_start.
SPECIFICATION Spec
SYMMETRY Symmetry
CONSTANTS
  Tasks = {t1, t2, t3}
  Idle = idle
  Null = null
  Functions = {f}
  NoFunction = none
  Periods = {3, 4}
  Capacities = {1, 2}
  IdlePeriod = 5
  IntMax = 11
  AddPhases = {"create"}
  DeletePhases = {"create"}
INVARIANTS
  JumpsToSaved
