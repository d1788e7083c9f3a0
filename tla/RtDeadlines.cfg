\* Tasks added before rt_start and left alone afterwards.  rt_time has 12
\* values, a multiple of every period, as it wraps.
SPECIFICATION MCSpec
CONSTANTS
  Tasks = {1, 2, 3}
  Idle = idle
  Null = null
  Functions = {f}
  NoFunction = none
  Periods = {0, 2, 3, 4, 6}
  Capacities = {0, 1, 2}
  IdlePeriod = 5
  IntMax = 5
  AddPhases = {"create"}
  DeletePhases = {}
INVARIANTS
  DispatchInBounds
  DeadlinesMet
PROPERTIES
  ReleaseSpacing
  JobsRecur
