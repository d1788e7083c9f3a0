------------------------------ MODULE RtTiming ------------------------------
(***************************************************************************)
(* What RtKernel's tasks get out of the ticks over time: two history       *)
(* variables beside the kernel, which reads neither.                       *)
(***************************************************************************)
EXTENDS RtKernel

VARIABLES
    used,   \* ticks a task got since rt_time was last a multiple of its period
    since   \* ticks since a task was last released, counted up to its period

timingVars == <<vars, used, since>>

TimingInit ==
    /\ Init
    /\ used = [t \in Tasks |-> 0]
    /\ since = [t \in Tasks |-> 0]

(* One tick: the windows of a task start at the multiples of its period.   *)
TimedSwitch ==
    /\ ContextSwitch
    /\ used' = [t \in Tasks |->
                  IF t \notin allocated THEN 0
                  ELSE (IF rt_time % period[t] = 0 THEN 0 ELSE used[t])
                       + (IF t = rt_running_task' THEN 1 ELSE 0)]
    /\ since' = [t \in Tasks |->
                  IF t \in Released THEN 1
                  ELSE IF since[t] < period[t] THEN since[t] + 1 ELSE since[t]]

TimingNext ==
    \/ TimedSwitch
    \/ Next /\ ~ ContextSwitch /\ UNCHANGED <<used, since>>

TimingSpec == TimingInit /\ [][TimingNext]_timingVars
FairTimingSpec == TimingSpec /\ Fairness
-----------------------------------------------------------------------------
(* A task never uses more than its capacity in one window between two      *)
(* multiples of its period, whatever is added, deleted, preempted or       *)
(* carried over: the bandwidth every other task's guarantee rests on.      *)
WindowBudget == \A t \in allocated : used[t] <= executed[t] /\ used[t] <= capacity[t]

(* rt_time wraps at a multiple of every period.                            *)
WrapsAtPeriods == \A p \in Periods \ {0} : (2 * IntMax + 2) % p = 0

(* rt_time counts multiples of the periods: up to its first wrap whatever  *)
(* they are, and for good if it wraps at a multiple of each.               *)
Steady == WrapsAtPeriods \/ rt_time >= 0

(* Two releases of a task are at least its period apart, across the wrap   *)
(* of rt_time too (rt_time % _period is evaluated on a wrapping int).      *)
ReleaseSpacing == [][ContextSwitch => \A t \in Released : since[t] = period[t]]_timingVars
-----------------------------------------------------------------------------
(* Response-time analysis: within some r ticks of a common release, t and  *)
(* every task of no longer period get all they can ask for.                *)
Rivals(t) == {u \in Listed \ {t} : state[u] # BLOCKED /\ period[u] <= period[t]}

Demand(t, r) ==
    capacity[t]
    + SumFunction([u \in Rivals(t) |-> ((r + period[u] - 1) \div period[u]) * capacity[u]])

Feasible(t) ==
    /\ state[t] # BLOCKED
    /\ period[t] < IdlePeriod
    /\ \E r \in 1 .. period[t] : Demand(t, r) <= r

(* Deadlines: a listed task that response-time analysis accepts has had    *)
(* its whole budget when its next release comes; tasks of longer period,   *)
(* accepted or not, never delay it.  Tasks are added before rt_start.      *)
DeadlinesMet ==
    phase = "run" /\ cpu # "rt_start" =>
       \A t \in Listed :
          Feasible(t) /\ rt_time % period[t] = 0 => executed[t] = capacity[t]

(* The timer drives every accepted task through job after job: it gets a   *)
(* first tick and a last one again and again.                              *)
JobsRecur ==
    \A t \in Tasks :
       /\ (phase = "run" /\ t \in Listed /\ Feasible(t))
             ~> (state[t] = RUNNING /\ executed[t] = 1)
       /\ (phase = "run" /\ t \in Listed /\ Feasible(t))
             ~> (state[t] # READY /\ executed[t] = capacity[t])
=============================================================================
