\* Tasks come and go before and after rt_start.
SPECIFICATION TimingSpec
SYMMETRY Symmetry
CONSTANTS
  Tasks = {t1, t2, t3}
  Idle = idle
  Null = null
  Functions = {f}
  NoFunction = none
  Periods = {0, 2, 3}
  Capacities = {0, 1, 2}
  IdlePeriod = 5
  IntMax = 3
  AddPhases = {"create", "run"}
  DeletePhases = {"create", "run"}
\* A switch to a context nobody saved has no defined continuation.
CHECK_DEADLOCK FALSE
INVARIANTS
  TypeOK
  BudgetInv
  WindowBudget
PROPERTIES
  RunsShortestPeriod
  PreemptedByShorter
  ScanAgrees
  ImplementsRateMonotonic
