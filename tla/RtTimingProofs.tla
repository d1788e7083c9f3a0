--------------------------- MODULE RtTimingProofs ---------------------------
(***************************************************************************)
(* For every value of the constants: the bandwidth of every task is        *)
(* bounded, its releases are a period apart, and it meets its deadlines if *)
(* response-time analysis accepts it.                                      *)
(***************************************************************************)
EXTENDS RtTiming, RtKernelProofs, FiniteSetTheorems

WInv ==
    /\ IInv
    /\ used \in [Tasks -> Nat]
    /\ \A t \in Tasks : used[t] <= executed[t]

LEMMA TimedSwitchWInv ==
    ASSUME WInv, TimedSwitch
    PROVE  WInv'
  <1>1. IInv /\ ContextSwitch
    BY DEF WInv, TimedSwitch
  <1>2. IInv'
    BY <1>1, ContextSwitchIInv
  <1>3. /\ used' \in [Tasks -> Nat]
        /\ \A t \in Tasks : used'[t] <= executed'[t]
    <2>1. used' = [t \in Tasks |->
                     IF t \notin allocated THEN 0
                     ELSE (IF rt_time % period[t] = 0 THEN 0 ELSE used[t])
                          + (IF t = rt_running_task' THEN 1 ELSE 0)]
      BY DEF TimedSwitch
    <2>2. ASSUME NEW t \in Tasks
          PROVE  used'[t] \in Nat /\ used'[t] <= executed'[t]
      <3>1. executed'[t] = (IF t \in Released THEN 0 ELSE executed[t])
                           + (IF t = rt_running_task' THEN 1 ELSE 0)
        BY <1>1, SwitchFacts
      <3>2. t \in Released => rt_time % period[t] = 0
        BY DEF Released
      <3>3. used[t] \in Nat /\ executed[t] \in Nat /\ used[t] <= executed[t]
        BY DEF WInv, IInv, TypeOK
      <3> QED
        BY <2>1, <3>1, <3>2, <3>3
    <2> QED
      BY <2>1, <2>2
  <1> QED
    BY <1>2, <1>3 DEF WInv

LEMMA OtherStepWInv ==
    ASSUME WInv, Next, ~ ContextSwitch, UNCHANGED used
    PROVE  WInv'
  <1>1. IInv'
    BY NextIInv DEF WInv
  <1>2. executed' = executed
    BY DEF Next, AddTask, DelTask, StartInit, StartSlot, StartClock
  <1> QED
    BY <1>1, <1>2 DEF WInv

(* Bandwidth: in no window between two multiples of its period does a task *)
(* get more ticks than its capacity, whatever is added, deleted, preempted *)
(* or carried over (rt_context_switch).                                    *)
THEOREM TaskBandwidth == TimingSpec => []WindowBudget
  <1>1. TimingInit => WInv
    BY InitIInv DEF TimingInit, Init, WInv
  <1>2. WInv /\ [TimingNext]_timingVars => WInv'
    <2> SUFFICES ASSUME WInv, [TimingNext]_timingVars PROVE WInv'
      OBVIOUS
    <2>1. CASE UNCHANGED timingVars
      <3>1. UNCHANGED vars /\ UNCHANGED used /\ UNCHANGED executed
        BY <2>1 DEF timingVars, vars
      <3>2. IInv'
        BY <3>1, NextIInv DEF WInv
      <3> QED
        BY <3>1, <3>2 DEF WInv
    <2> QED
      BY <2>1, TimedSwitchWInv, OtherStepWInv DEF TimingNext
  <1>3. WInv => WindowBudget
    <2> SUFFICES ASSUME WInv, NEW t \in allocated
                 PROVE  used[t] <= executed[t] /\ used[t] <= capacity[t]
      BY DEF WindowBudget
    <2>1. t \in Tasks /\ executed[t] <= capacity[t] /\ capacity[t] \in 1 .. period[t]
      BY DEF WInv, IInv, TypeOK, BudgetInv, Setup
    <2>2. used[t] \in Nat /\ executed[t] \in Nat /\ period[t] \in Nat /\ used[t] <= executed[t]
      BY <2>1 DEF WInv, IInv, TypeOK, Setup
    <2> QED
      BY <2>1, <2>2
  <1> QED
    BY <1>1, <1>2, <1>3, PTL DEF TimingSpec
-----------------------------------------------------------------------------
(* Until a task's period has passed since it was last released, rt_time    *)
(* tells how long ago that was; a task no tick has reached yet was never   *)
(* dispatched.                                                             *)
Multiple(x, p) == \E q \in Int : x = q * p

SInv ==
    /\ IInv
    /\ since \in [Tasks -> Nat]
    /\ phase # "run" => rt_time = 0 /\ \A t \in Tasks : since[t] = 0
    /\ \A t \in allocated :
          /\ period[t] \in Periods
          /\ since[t] <= period[t]
          /\ since[t] < period[t] => Multiple(rt_time - since[t], period[t])
          /\ since[t] = 0 => executed[t] = 0

LEMMA MultipleOfMod ==
    ASSUME NEW x \in Int, NEW p \in Nat \ {0}, x % p = 0
    PROVE  Multiple(x, p)
BY DEF Multiple

LEMMA MultipleLess ==
    ASSUME NEW x \in Int, NEW y \in Int, NEW p \in Nat \ {0}, Multiple(x, p), Multiple(y, p)
    PROVE  Multiple(x - y, p)
  <1>1. PICK q \in Int, r \in Int : x = q * p /\ y = r * p
    BY DEF Multiple
  <1>2. x - y = (q - r) * p
    BY <1>1
  <1>3. q - r \in Int
    OBVIOUS
  <1> QED
    BY <1>2, <1>3 DEF Multiple

LEMMA MultipleSmall ==
    ASSUME NEW p \in Nat \ {0}, NEW x \in 0 .. p - 1, Multiple(x, p)
    PROVE  x = 0
  <1>1. PICK q \in Int : x = q * p
    BY DEF Multiple
  <1>2. CASE q = 0
    BY <1>1, <1>2
  <1>3. CASE q > 0
    <2>1. q * p >= 1 * p
      BY <1>3
    <2> QED BY <1>1, <2>1
  <1>4. CASE q < 0
    <2>1. q * p <= (-1) * p
      BY <1>4
    <2> QED BY <1>1, <2>1
  <1> QED BY <1>2, <1>3, <1>4

(* A task is released when its period has passed.                          *)
LEMMA Spaced ==
    ASSUME SInv, ContextSwitch, NEW t \in Released
    PROVE  since[t] = period[t]
  <1>1. IInv /\ t \in allocated
    BY SwitchFacts DEF SInv
  <1>2. period[t] \in Nat \ {0} /\ capacity[t] \in Nat \ {0} /\ executed[t] = capacity[t]
    BY <1>1, RetiredFacts
  <1>3. since[t] \in Nat /\ since[t] <= period[t] /\ rt_time \in Int
    BY <1>1 DEF SInv, IInv, TypeOK
  <1>4. since[t] # 0
    BY <1>1, <1>2 DEF SInv
  <1>5. ASSUME since[t] < period[t] PROVE FALSE
    <2>1. Multiple(rt_time - since[t], period[t])
      BY <1>1, <1>5 DEF SInv
    <2>2. Multiple(rt_time, period[t])
      BY <1>2, <1>3, MultipleOfMod DEF Released
    <2>3. Multiple(rt_time - (rt_time - since[t]), period[t])
      BY <1>2, <1>3, <2>1, <2>2, MultipleLess
    <2>4. rt_time - (rt_time - since[t]) = since[t] /\ since[t] \in 0 .. period[t] - 1
      BY <1>2, <1>3, <1>5
    <2>5. Multiple(since[t], period[t])
      BY <2>3, <2>4
    <2> QED
      BY <1>2, <1>4, <2>4, <2>5, MultipleSmall
  <1> QED
    BY <1>2, <1>3, <1>5

(* rt_time is negative just after it wrapped.                              *)
LEMMA WrapsOnlyAtPeriods ==
    ASSUME Steady', IInv, rt_time' = rt_time + 1 - (2 * IntMax + 2)
    PROVE  WrapsAtPeriods
  <1>1. rt_time \in - IntMax - 1 .. IntMax /\ IntMax \in Nat
    BY NumbersAssumption DEF IInv, TypeOK
  <1>2. ~ (rt_time' >= 0)
    BY <1>1
  <1> QED BY <1>2 DEF Steady, WrapsAtPeriods

LEMMA TimedSwitchSInv ==
    ASSUME Steady', SInv, TimedSwitch
    PROVE  SInv'
  <1>1. IInv /\ ContextSwitch /\ phase = "run"
    BY DEF SInv, TimedSwitch, ContextSwitch
  <1>2. IInv'
    BY <1>1, ContextSwitchIInv
  <1>3. UNCHANGED <<phase, allocated, period>> /\ rt_time' = Wrap(rt_time + 1)
    BY <1>1 DEF ContextSwitch, fields
  <1>4. since' = [t \in Tasks |->
                    IF t \in Released THEN 1
                    ELSE IF since[t] < period[t] THEN since[t] + 1 ELSE since[t]]
    BY DEF TimedSwitch
  <1>5. since' \in [Tasks -> Nat]
    BY <1>4 DEF SInv
  <1>6. ASSUME NEW t \in allocated
        PROVE  /\ since'[t] \in 1 .. period[t]
               /\ since'[t] < period[t] => Multiple(rt_time' - since'[t], period[t])
    <2>1. /\ period[t] \in Nat \ {0} /\ period[t] \in Periods /\ t \in Tasks
          /\ since[t] \in Nat /\ since[t] <= period[t]
      BY <1>1 DEF SInv, IInv, TypeOK, Setup
    <2>2. since'[t] \in 1 .. period[t]
      BY <1>4, <2>1
    <2>3. ASSUME since'[t] < period[t] PROVE Multiple(rt_time' - since'[t], period[t])
      <3>1. rt_time \in Int /\ IntMax \in Nat /\ since'[t] \in Int
        BY <1>1, <2>2, NumbersAssumption DEF IInv, TypeOK
      <3>2. Multiple(rt_time + 1 - since'[t], period[t])
        <4>1. CASE t \in Released
          <5>1. since'[t] = 1 /\ rt_time % period[t] = 0
            BY <1>4, <2>1, <4>1 DEF Released
          <5>2. rt_time + 1 - since'[t] = rt_time
            BY <3>1, <5>1
          <5> QED BY <2>1, <3>1, <5>1, <5>2, MultipleOfMod
        <4>2. CASE t \notin Released
          <5>1. since[t] < period[t] /\ since'[t] = since[t] + 1
            BY <1>4, <2>1, <2>3, <4>2
          <5>2. rt_time + 1 - since'[t] = rt_time - since[t]
            BY <2>1, <3>1, <5>1
          <5> QED BY <5>1, <5>2 DEF SInv
        <4> QED BY <4>1, <4>2
      <3>3. CASE rt_time' = rt_time + 1
        <4>1. rt_time' - since'[t] = rt_time + 1 - since'[t]
          BY <3>1, <3>3
        <4> QED BY <3>2, <4>1
      <3>4. CASE rt_time' = rt_time + 1 - (2 * IntMax + 2)
        <4>1. (2 * IntMax + 2) % period[t] = 0
          BY <1>1, <2>1, <3>4, WrapsOnlyAtPeriods DEF WrapsAtPeriods
        <4>2. Multiple(2 * IntMax + 2, period[t])
          BY <2>1, <3>1, <4>1, MultipleOfMod
        <4>3. Multiple((rt_time + 1 - since'[t]) - (2 * IntMax + 2), period[t])
          BY <2>1, <3>1, <3>2, <4>2, MultipleLess
        <4>4. rt_time' - since'[t] = (rt_time + 1 - since'[t]) - (2 * IntMax + 2)
          BY <3>1, <3>4
        <4> QED BY <4>3, <4>4
      <3>5. rt_time' = rt_time + 1 \/ rt_time' = rt_time + 1 - (2 * IntMax + 2)
        <4>1. rt_time \in - IntMax - 1 .. IntMax
          BY <1>1 DEF IInv, TypeOK
        <4> QED BY <1>3, <3>1, <4>1 DEF Wrap
      <3> QED BY <3>3, <3>4, <3>5
    <2> QED BY <2>2, <2>3
  <1>7. ASSUME NEW t \in allocated
        PROVE  /\ period[t] \in Periods /\ since'[t] <= period[t]
               /\ since'[t] < period[t] => Multiple(rt_time' - since'[t], period[t])
               /\ since'[t] # 0
    <2>1. period[t] \in Periods /\ period[t] \in Nat
      BY <1>1 DEF SInv, IInv, Setup
    <2> QED BY <1>6, <2>1
  <1> QED
    BY <1>1, <1>2, <1>3, <1>5, <1>7 DEF SInv

LEMMA OtherStepSInv ==
    ASSUME AddPhases \subseteq {"create"}, SInv, Next, ~ ContextSwitch, UNCHANGED since
    PROVE  SInv'
  <1>1. IInv /\ IInv' /\ executed' = executed
    BY NextIInv DEF SInv, Next, AddTask, DelTask, StartInit, StartSlot, StartClock
  <1>2. ASSUME NEW t \in Tasks, NEW f \in Functions, NEW p \in Periods, NEW c \in Capacities,
               NEW s \in States, AddTask(t, f, p, c, s)
        PROVE  SInv'
    <2>1. phase = "create" /\ rt_time = 0 /\ phase' = phase /\ rt_time' = rt_time
      BY <1>2 DEF AddTask, Calling, SInv
    <2>2. allocated' = allocated \cup {t} /\ t \notin allocated /\ allocated \subseteq Tasks
          /\ period' = [period EXCEPT ![t] = p] /\ period \in [Objects -> Nat]
      BY <1>1, <1>2 DEF AddTask, IInv, TypeOK
    <2>3. ASSUME NEW u \in allocated'
          PROVE  /\ period'[u] \in Periods /\ period'[u] \in Nat
                 /\ since[u] = 0 /\ executed[u] = 0
      <3>1. CASE u = t
        BY <1>1, <1>2, <2>1, <2>2, <3>1, NumbersAssumption DEF SInv, IInv, Setup, Objects
      <3>2. CASE u # t
        BY <1>1, <2>1, <2>2, <3>2 DEF SInv, IInv, Setup, Objects
      <3> QED BY <3>1, <3>2
    <2>4. ASSUME NEW u \in allocated' PROVE Multiple(rt_time' - since[u], period'[u])
      <3>1. rt_time' - since[u] = 0 * period'[u]
        BY <2>1, <2>3
      <3> QED BY <3>1 DEF Multiple
    <2> QED
      BY <1>1, <2>1, <2>3, <2>4 DEF SInv
  <1>3. ASSUME NEW pos \in 0 .. Len(rt_list_task), DelTask(pos)
        PROVE  SInv'
    BY <1>1, <1>3 DEF DelTask, fields, SInv
  <1>4. ASSUME StartInit
        PROVE  SInv'
    <2>1. \A t \in allocated : period'[t] = period[t]
      BY <1>1, <1>4, TasksAssumption DEF StartInit, IInv, TypeOK
    <2> QED
      BY <1>1, <1>4, <2>1 DEF StartInit, SInv
  <1>5. ASSUME StartSlot \/ StartClock
        PROVE  SInv'
    BY <1>1, <1>5 DEF StartSlot, StartClock, fields, SInv
  <1> QED
    BY <1>2, <1>3, <1>4, <1>5 DEF Next

(* Releases of a task are a period apart up to the first wrap of rt_time,  *)
(* and across its wraps if they come at multiples of the period; tasks are *)
(* added before rt_start (rt_time % _period in rt_context_switch).         *)
THEOREM ReleasesSpaced ==
    AddPhases \subseteq {"create"} => (TimingSpec /\ []Steady => ReleaseSpacing)
  <1> SUFFICES ASSUME AddPhases \subseteq {"create"}
               PROVE  TimingSpec /\ []Steady => ReleaseSpacing
    OBVIOUS
  <1>1. TimingInit => SInv
    <2> SUFFICES ASSUME TimingInit PROVE SInv
      OBVIOUS
    <2>1. IInv
      BY InitIInv DEF TimingInit
    <2> QED
      BY <2>1 DEF TimingInit, Init, SInv
  <1>2. SInv /\ [TimingNext]_timingVars /\ Steady' => SInv'
    <2> SUFFICES ASSUME SInv, [TimingNext]_timingVars, Steady' PROVE SInv'
      OBVIOUS
    <2>1. CASE UNCHANGED timingVars
      <3>1. UNCHANGED vars /\ UNCHANGED since
        BY <2>1 DEF timingVars
      <3>2. IInv'
        BY <3>1, NextIInv DEF SInv
      <3> QED
        BY <3>1, <3>2 DEF SInv, vars, fields
    <2> QED
      BY <2>1, TimedSwitchSInv, OtherStepSInv DEF TimingNext
  <1>3. SInv /\ [TimingNext]_timingVars
          => [ContextSwitch => \A t \in Released : since[t] = period[t]]_timingVars
    BY Spaced
  <1> QED
    BY <1>1, <1>2, <1>3, PTL DEF TimingSpec, ReleaseSpacing
-----------------------------------------------------------------------------
(* Sums over a finite set, for the demand of Feasible: the function that   *)
(* folds it exists, and a property of a sum that fails does so for a set   *)
(* without an element whose removal would make it hold.                    *)
Pick(s) == CHOOSE x \in s : TRUE
Subsets(S, n) == {s \in SUBSET S : Cardinality(s) <= n}
SumOver(f, D, g) == g = [s \in D |-> IF s = {} THEN 0 ELSE f[Pick(s)] + g[s \ {Pick(s)}]]

LEMMA PickFacts ==
    ASSUME NEW S, IsFiniteSet(S), NEW s \in SUBSET S, s # {}
    PROVE  /\ Pick(s) \in s /\ Pick(s) \in S /\ s \ {Pick(s)} \in SUBSET S
           /\ IsFiniteSet(s) /\ Cardinality(s) \in Nat
           /\ Cardinality(s \ {Pick(s)}) = Cardinality(s) - 1
  <1>1. Pick(s) \in s
    BY DEF Pick
  <1>2. IsFiniteSet(s) /\ Cardinality(s) \in Nat
    BY FS_Subset, FS_CardinalityType
  <1> QED BY <1>1, <1>2, FS_RemoveElement

LEMMA SumExists ==
    ASSUME NEW f, NEW S, IsFiniteSet(S), NEW len \in Nat
    PROVE  \E g : SumOver(f, Subsets(S, len), g)
  <1> DEFINE T == {n \in Nat : ~ \E g : SumOver(f, Subsets(S, n), g)}
  <1>1. SUFFICES ASSUME T # {} PROVE FALSE
    OBVIOUS
  <1>2. PICK m \in T : \A n \in T : m <= n
    <2>1. T \subseteq Nat
      OBVIOUS
    <2> HIDE DEF T
    <2> QED BY <1>1, <2>1, Least
  <1>3. m \in Nat /\ ~ \E g : SumOver(f, Subsets(S, m), g)
    OBVIOUS
  <1>4. CASE m = 0
    <2> DEFINE g == [s \in Subsets(S, 0) |-> 0]
    <2>1. ASSUME NEW s \in Subsets(S, 0) PROVE s = {}
      <3>1. s \in SUBSET S /\ Cardinality(s) <= 0
        BY DEF Subsets
      <3>2. IsFiniteSet(s) /\ Cardinality(s) \in Nat
        BY <3>1, FS_Subset, FS_CardinalityType
      <3> QED BY <3>1, <3>2, FS_EmptySet
    <2>2. SumOver(f, Subsets(S, 0), g)
      BY <2>1 DEF SumOver
    <2> QED BY <1>3, <1>4, <2>2
  <1>5. CASE m # 0
    <2>1. m - 1 \in Nat /\ m - 1 \notin T
      BY <1>2, <1>3, <1>5
    <2>2. PICK h : SumOver(f, Subsets(S, m - 1), h)
      BY <2>1
    <2> DEFINE D == Subsets(S, m - 1)
               E == Subsets(S, m)
               g == [s \in E |-> IF s = {} THEN 0 ELSE f[Pick(s)] + h[s \ {Pick(s)}]]
               G == [s \in E |-> IF s = {} THEN 0 ELSE f[Pick(s)] + g[s \ {Pick(s)}]]
    <2>3. ASSUME NEW s \in E, s # {}
          PROVE  s \ {Pick(s)} \in D /\ s \ {Pick(s)} \in E
      <3>1. s \in SUBSET S /\ Cardinality(s) <= m
        BY DEF Subsets
      <3>2. /\ s \ {Pick(s)} \in SUBSET S /\ Cardinality(s) \in Nat
            /\ Cardinality(s \ {Pick(s)}) = Cardinality(s) - 1
        BY <2>3, <3>1, PickFacts
      <3>3. Cardinality(s \ {Pick(s)}) <= m - 1 /\ Cardinality(s \ {Pick(s)}) <= m
        BY <1>3, <3>1, <3>2
      <3> QED BY <3>2, <3>3 DEF Subsets
    <2>4. ASSUME NEW s \in D PROVE g[s] = h[s]
      <3>1. s \in E
        BY <1>3, <2>1, FS_Subset, FS_CardinalityType DEF Subsets
      <3>2. h[s] = IF s = {} THEN 0 ELSE f[Pick(s)] + h[s \ {Pick(s)}]
        BY <2>2 DEF SumOver
      <3> QED BY <3>1, <3>2
    <2>5. g = G
      <3> HIDE DEF D, E
      <3>1. ASSUME NEW s \in E PROVE g[s] = G[s]
        BY <2>3, <2>4
      <3>2. g = [s \in E |-> g[s]] /\ G = [s \in E |-> G[s]]
        OBVIOUS
      <3> HIDE DEF g, G
      <3> QED BY <3>1, <3>2
    <2>6. SumOver(f, E, g)
      <3> HIDE DEF E
      <3> QED BY <2>5 DEF SumOver
    <2> QED BY <1>3, <2>6
  <1> QED BY <1>4, <1>5

LEMMA SumSteps ==
    ASSUME NEW f, NEW S, IsFiniteSet(S)
    PROVE  \E g : SumOver(f, SUBSET S, g) /\ SumFunctionOnSet(f, S) = g[S]
  <1>1. SumFunctionOnSet(f, S) = (CHOOSE g : SumOver(f, SUBSET S, g))[S]
    BY DEF SumFunctionOnSet, FoldFunctionOnSet, MapThenFoldSet, SumOver, Pick
  <1>2. Cardinality(S) \in Nat /\ SUBSET S = Subsets(S, Cardinality(S))
    BY FS_Subset, FS_CardinalityType DEF Subsets
  <1>3. \E g : SumOver(f, SUBSET S, g)
    <2>1. PICK g : SumOver(f, Subsets(S, Cardinality(S)), g)
      BY <1>2, SumExists
    <2>2. SumOver(f, SUBSET S, g)
      BY <1>2, <2>1 DEF SumOver
    <2> QED BY <2>2
  <1> QED BY <1>1, <1>3

(* A set of subsets has one of least size.                                 *)
LEMMA LeastSubset ==
    ASSUME NEW S, IsFiniteSet(S), NEW B, B \subseteq SUBSET S, B # {}
    PROVE  \E s \in B : s # {} => s \ {Pick(s)} \notin B
  <1> DEFINE T == {Cardinality(s) : s \in B}
  <1>1. \A s \in B : Cardinality(s) \in Nat
    BY FS_Subset, FS_CardinalityType
  <1>2. PICK m \in T : \A n \in T : m <= n
    <2>1. T \subseteq Nat /\ T # {}
      BY <1>1
    <2> HIDE DEF T
    <2> QED BY <2>1, Least
  <1>3. PICK s \in B : m = Cardinality(s)
    OBVIOUS
  <1>4. ASSUME s # {} PROVE s \ {Pick(s)} \notin B
    <2>1. Cardinality(s \ {Pick(s)}) = m - 1 /\ m \in Nat
      BY <1>1, <1>3, <1>4, PickFacts
    <2> QED BY <1>2, <2>1
  <1> QED BY <1>4

(* One step of a sum: what holds of the empty sum and is kept by each.     *)
LEMMA SumFacts ==
    ASSUME NEW S, IsFiniteSet(S), NEW f, \A x \in S : f[x] \in Nat,
           NEW h, \A x \in S : h[x] \in Nat, NEW y,
           \A x \in S : h[x] = f[x] + (IF x = y THEN 1 ELSE 0)
    PROVE  /\ SumFunctionOnSet(f, S) \in Nat
           /\ SumFunctionOnSet(h, S) = SumFunctionOnSet(f, S) + (IF y \in S THEN 1 ELSE 0)
  <1>1. PICK g : SumOver(f, SUBSET S, g) /\ SumFunctionOnSet(f, S) = g[S]
    BY SumSteps
  <1>2. PICK k : SumOver(h, SUBSET S, k) /\ SumFunctionOnSet(h, S) = k[S]
    BY SumSteps
  <1> DEFINE P(s) == g[s] \in Nat /\ k[s] = g[s] + (IF y \in s THEN 1 ELSE 0)
             B == {s \in SUBSET S : ~ P(s)}
  <1>3. SUFFICES ASSUME B # {} PROVE FALSE
    BY <1>1, <1>2
  <1>4. PICK s \in B : s # {} => s \ {Pick(s)} \notin B
    <2>1. B \subseteq SUBSET S
      OBVIOUS
    <2> HIDE DEF B
    <2> QED BY <1>3, <2>1, LeastSubset
  <1>5. s \in SUBSET S /\ ~ P(s)
    OBVIOUS
  <1>6. /\ g[s] = IF s = {} THEN 0 ELSE f[Pick(s)] + g[s \ {Pick(s)}]
        /\ k[s] = IF s = {} THEN 0 ELSE h[Pick(s)] + k[s \ {Pick(s)}]
    BY <1>1, <1>2, <1>5 DEF SumOver
  <1>7. s # {}
    BY <1>5, <1>6
  <1>8. Pick(s) \in s /\ Pick(s) \in S /\ s \ {Pick(s)} \in SUBSET S
    BY <1>5, <1>7, PickFacts
  <1>9. P(s \ {Pick(s)})
    BY <1>4, <1>7, <1>8
  <1>10. f[Pick(s)] \in Nat /\ h[Pick(s)] = f[Pick(s)] + (IF Pick(s) = y THEN 1 ELSE 0)
    BY <1>8
  <1> QED BY <1>5, <1>6, <1>7, <1>8, <1>9, <1>10

LEMMA SumBound ==
    ASSUME NEW S, IsFiniteSet(S), NEW f, \A x \in S : f[x] \in Nat,
           NEW h, \A x \in S : h[x] \in Nat /\ f[x] <= h[x]
    PROVE  /\ SumFunctionOnSet(f, S) \in Nat /\ SumFunctionOnSet(h, S) \in Nat
           /\ SumFunctionOnSet(f, S) <= SumFunctionOnSet(h, S)
           /\ SumFunctionOnSet(f, S) = SumFunctionOnSet(h, S) => \A x \in S : f[x] = h[x]
           /\ (\A x \in S : f[x] = 0) => SumFunctionOnSet(f, S) = 0
  <1>1. PICK g : SumOver(f, SUBSET S, g) /\ SumFunctionOnSet(f, S) = g[S]
    BY SumSteps
  <1>2. PICK k : SumOver(h, SUBSET S, k) /\ SumFunctionOnSet(h, S) = k[S]
    BY SumSteps
  <1> DEFINE P(s) == /\ g[s] \in Nat /\ k[s] \in Nat /\ g[s] <= k[s]
                     /\ g[s] = k[s] => \A x \in s : f[x] = h[x]
                     /\ (\A x \in S : f[x] = 0) => g[s] = 0
             B == {s \in SUBSET S : ~ P(s)}
  <1>3. SUFFICES ASSUME B # {} PROVE FALSE
    BY <1>1, <1>2
  <1>4. PICK s \in B : s # {} => s \ {Pick(s)} \notin B
    <2>1. B \subseteq SUBSET S
      OBVIOUS
    <2> HIDE DEF B
    <2> QED BY <1>3, <2>1, LeastSubset
  <1>5. s \in SUBSET S /\ ~ P(s)
    OBVIOUS
  <1>6. /\ g[s] = IF s = {} THEN 0 ELSE f[Pick(s)] + g[s \ {Pick(s)}]
        /\ k[s] = IF s = {} THEN 0 ELSE h[Pick(s)] + k[s \ {Pick(s)}]
    BY <1>1, <1>2, <1>5 DEF SumOver
  <1>7. s # {}
    BY <1>5, <1>6
  <1>8. Pick(s) \in s /\ Pick(s) \in S /\ s \ {Pick(s)} \in SUBSET S
    BY <1>5, <1>7, PickFacts
  <1>9. P(s \ {Pick(s)})
    BY <1>4, <1>7, <1>8
  <1>10. f[Pick(s)] \in Nat /\ h[Pick(s)] \in Nat /\ f[Pick(s)] <= h[Pick(s)]
    BY <1>8
  <1>11. g[s] \in Nat /\ k[s] \in Nat /\ g[s] <= k[s]
    BY <1>6, <1>7, <1>9, <1>10
  <1>12. ASSUME g[s] = k[s], NEW x \in s PROVE f[x] = h[x]
    <2>1. f[Pick(s)] = h[Pick(s)] /\ g[s \ {Pick(s)}] = k[s \ {Pick(s)}]
      BY <1>6, <1>7, <1>9, <1>10, <1>12
    <2> QED BY <1>9, <2>1
  <1>13. (\A x \in S : f[x] = 0) => g[s] = 0
    BY <1>6, <1>8, <1>9
  <1> QED BY <1>5, <1>11, <1>12, <1>13

(* The tasks of t's priority and above.                                    *)
Level(t) == Rivals(t) \cup {t}

LEMMA LevelFacts ==
    ASSUME IInv, NEW t \in Listed
    PROVE  /\ IsFiniteSet(Rivals(t)) /\ t \notin Rivals(t) /\ Level(t) \subseteq Listed
           /\ \A u \in Level(t) :
                 /\ u \in allocated /\ u \in Tasks /\ u \in Objects /\ u # Idle
                 /\ period[u] \in Nat \ {0} /\ capacity[u] \in Nat \ {0}
                 /\ executed[u] \in Nat /\ executed[u] <= capacity[u]
                 /\ period[u] <= period[t]
  <1>1. rt_list_task \in Seq(Tasks) /\ Listed \subseteq allocated /\ allocated \subseteq Tasks
    BY DEF IInv, TypeOK
  <1>2. IsFiniteSet(Listed)
    <2>1. Len(rt_list_task) \in Nat /\ DOMAIN rt_list_task = 1 .. Len(rt_list_task)
      BY <1>1, LenProperties
    <2>2. IsFiniteSet(1 .. Len(rt_list_task))
      BY <2>1, FS_Interval
    <2>3. rt_list_task \in [1 .. Len(rt_list_task) -> Listed]
      BY <1>1, <2>1 DEF Listed, ToSet
    <2>4. \A u \in Listed : \E i \in 1 .. Len(rt_list_task) : rt_list_task[i] = u
      BY <2>1 DEF Listed, ToSet
    <2>5. rt_list_task \in Surjection(1 .. Len(rt_list_task), Listed)
      BY <2>3, <2>4 DEF Surjection
    <2> QED BY <2>2, <2>5, FS_Surjection
  <1>3. Rivals(t) \subseteq Listed /\ t \notin Rivals(t)
    BY DEF Rivals
  <1>4. IsFiniteSet(Rivals(t))
    BY <1>2, <1>3, FS_Subset
  <1>5. ASSUME NEW u \in Level(t)
        PROVE  /\ u \in Listed /\ u \in allocated /\ u \in Tasks /\ u \in Objects /\ u # Idle
               /\ period[u] \in Nat \ {0} /\ capacity[u] \in Nat \ {0}
               /\ executed[u] \in Nat /\ executed[u] <= capacity[u]
               /\ period[u] <= period[t]
    <2>1. u \in Listed /\ (u = t \/ period[u] <= period[t])
      BY DEF Level, Rivals
    <2>2. u \in allocated /\ u \in Tasks /\ u \in Objects /\ u # Idle
      BY <1>1, <2>1, TasksAssumption DEF Objects
    <2>3. period[u] \in Nat \ {0} /\ capacity[u] \in 1 .. period[u] /\ executed[u] <= capacity[u]
      BY <2>2 DEF IInv, Setup, BudgetInv
    <2>4. executed[u] \in Nat
      BY <2>2 DEF IInv, TypeOK
    <2> QED BY <2>1, <2>2, <2>3, <2>4
  <1> QED BY <1>3, <1>4, <1>5

(* A tick blocks no task and unblocks none.                                *)
LEMMA LevelKept ==
    ASSUME IInv, ContextSwitch, NEW t \in Listed
    PROVE  /\ Rivals(t)' = Rivals(t)
           /\ \A u \in Listed : state'[u] = BLOCKED <=> state[u] = BLOCKED
  <1> USE DEF READY, RUNNING, BLOCKED, DONE, SYS
  <1>1. UNCHANGED <<rt_list_task, period>>
    BY DEF ContextSwitch, fields
  <1>2. ASSUME NEW u \in Listed
        PROVE  state'[u] = BLOCKED <=> state[u] = BLOCKED
    <2>1. u \in allocated /\ u \in Objects
      BY SwitchFacts, RetiredFacts
    <2>2. state'[u] = IF u = rt_running_task' THEN RUNNING
                      ELSE IF u \in Released THEN READY ELSE Retired[u]
      BY <2>1, SwitchFacts
    <2>3. u = rt_running_task => state[u] = RUNNING
      BY <2>1 DEF IInv, BudgetInv
    <2>4. Retired[u] = BLOCKED <=> state[u] = BLOCKED
      BY <2>1, <2>3, RetiredFacts
    <2>5. u = rt_running_task' => Retired[u] # BLOCKED
      <3>1. u \in Contenders => Retired[u] # BLOCKED
        BY DEF Contenders, Released
      <3>2. u = Incumbent => Retired[u] # BLOCKED
        BY <2>1, <2>3, <2>4, RetiredFacts DEF Incumbent
      <3> QED BY <3>1, <3>2, SwitchFacts
    <2>6. u \in Released => Retired[u] = DONE
      BY DEF Released
    <2> QED BY <2>2, <2>4, <2>5, <2>6
  <1> QED BY <1>1, <1>2 DEF Rivals, Listed

(* While a task of the level has budget, the level gets the tick.          *)
LEMMA LevelGetsTick ==
    ASSUME IInv, ContextSwitch, rt_running_task \in Listed \cup {Idle},
           NEW t \in Listed, state[t] # BLOCKED, period[t] < IdlePeriod,
           NEW u \in Level(t), u \in Released \/ executed[u] < capacity[u]
    PROVE  rt_running_task' \in Level(t)
  <1> USE DEF READY, RUNNING, BLOCKED, DONE, SYS
  <1> DEFINE next == rt_running_task'
  <1>1. /\ u \in Listed /\ u \in allocated /\ period[u] \in Nat /\ period[t] \in Nat
        /\ period[u] <= period[t] /\ executed[u] \in Nat /\ capacity[u] \in Nat
    BY LevelFacts DEF Level
  <1>2. state[u] # BLOCKED
    BY DEF Level, Rivals
  <1>3. u \in Contenders
    <2>1. Retired[u] # BLOCKED /\ (Retired[u] = DONE => executed[u] = capacity[u])
      BY <1>1, <1>2, RetiredFacts
    <2> QED BY <1>1, <2>1 DEF Contenders
  <1>4. next \in Listed \cup {Idle} /\ Elected(next)
    BY SwitchFacts
  <1>5. period[Idle] = IdlePeriod /\ period[next] \in Nat
    BY <1>4, SwitchFacts DEF IInv, Setup, TypeOK, Objects, ContextSwitch
  <1>6. period[next] <= period[u]
    <2>1. CASE next = Incumbent /\ \A v \in Contenders : period[v] >= period[Incumbent]
      BY <1>3, <2>1
    <2>2. CASE \A j \in DOMAIN rt_list_task :
                  rt_list_task[j] \in Contenders => period[next] <= period[rt_list_task[j]]
      <3>1. PICK j \in DOMAIN rt_list_task : rt_list_task[j] = u
        BY <1>1 DEF Listed, ToSet
      <3> QED BY <1>3, <2>2, <3>1
    <2>3. ASSUME NEW v \in Contenders, period[next] = period[v] \/ period[next] < period[v]
          PROVE  period[next] <= period[v]
      <3>1. v \in Objects
        BY SwitchFacts, LevelFacts DEF Level
      <3>2. period[v] \in Nat
        BY <3>1 DEF IInv, TypeOK
      <3> QED BY <1>5, <2>3, <3>2
    <2> QED BY <1>4, <2>1, <2>2, <2>3 DEF Elected
  <1>7. next # Idle /\ next \in Listed /\ period[next] <= period[t]
    BY <1>1, <1>4, <1>5, <1>6, NumbersAssumption
  <1>8. state[next] # BLOCKED
    <2>1. state'[next] = RUNNING
      BY <1>7, SwitchFacts, LevelFacts DEF Level
    <2> QED BY <1>7, <2>1, LevelKept
  <1> QED BY <1>7, <1>8 DEF Level, Rivals

-----------------------------------------------------------------------------
LEMMA DivBound ==
    ASSUME NEW n \in Nat, NEW p \in Nat \ {0}, NEW x \in Nat, n * p <= x
    PROVE  n <= x \div p
  <1> DEFINE q == x \div p
  <1>1. q \in Nat /\ x < (q + 1) * p
    OBVIOUS
  <1> HIDE DEF q
  <1>2. ASSUME n >= q + 1 PROVE FALSE
    <2>1. n * p >= (q + 1) * p
      BY <1>1, <1>2
    <2>2. n * p \in Nat /\ (q + 1) * p \in Nat
      BY <1>1
    <2> QED BY <1>1, <2>1, <2>2
  <1>3. n <= q
    BY <1>1, <1>2
  <1> QED BY <1>3 DEF q

LEMMA TimesBound ==
    ASSUME NEW m \in Nat, NEW n \in Nat, NEW c \in Nat, m <= n
    PROVE  m * c \in Nat /\ n * c \in Nat /\ m * c <= n * c
  OBVIOUS

(* Demand is spent: when t and the rivals S have had r ticks since all of  *)
(* them were last idle, and r is enough for them, none of them is owed any.*)
Spent(S, t, r, per, cap, owed, got, jobs, due) ==
    /\ \A u \in S \cup {t} :
          /\ per[u] \in Nat \ {0} /\ cap[u] \in Nat /\ owed[u] \in Nat
          /\ got[u] \in Nat /\ jobs[u] \in Nat /\ due[u] \in Nat /\ due[u] < per[u]
          /\ jobs[u] * per[u] <= r + due[u]
          /\ got[u] + owed[u] <= jobs[u] * cap[u]
    /\ r <= per[t]
    /\ r = got[t] + SumFunctionOnSet(got, S)
    /\ cap[t] + SumFunction([u \in S |-> ((r + per[u] - 1) \div per[u]) * cap[u]]) <= r

LEMMA Saturated ==
    ASSUME NEW S, IsFiniteSet(S), NEW t, t \notin S, NEW r \in Nat \ {0},
           NEW per, NEW cap, NEW owed, NEW got, NEW jobs, NEW due,
           Spent(S, t, r, per, cap, owed, got, jobs, due)
    PROVE  \A u \in S \cup {t} : owed[u] = 0
  <1>0. /\ \A u \in S \cup {t} :
              /\ per[u] \in Nat \ {0} /\ cap[u] \in Nat /\ owed[u] \in Nat
              /\ got[u] \in Nat /\ jobs[u] \in Nat /\ due[u] \in Nat /\ due[u] < per[u]
              /\ jobs[u] * per[u] <= r + due[u]
              /\ got[u] + owed[u] <= jobs[u] * cap[u]
        /\ r <= per[t]
        /\ r = got[t] + SumFunctionOnSet(got, S)
        /\ cap[t] + SumFunction([u \in S |-> ((r + per[u] - 1) \div per[u]) * cap[u]]) <= r
    BY DEF Spent
  <1> DEFINE most(u) == (r + per[u] - 1) \div per[u]
             claim == [u \in S |-> ((r + per[u] - 1) \div per[u]) * cap[u]]
  <1>1. ASSUME NEW u \in S \cup {t}
        PROVE  /\ most(u) \in Nat /\ most(u) * cap[u] \in Nat
               /\ got[u] + owed[u] <= most(u) * cap[u]
    <2>0. /\ per[u] \in Nat \ {0} /\ cap[u] \in Nat /\ owed[u] \in Nat /\ got[u] \in Nat
          /\ jobs[u] \in Nat /\ due[u] \in Nat /\ due[u] < per[u]
          /\ jobs[u] * per[u] <= r + due[u]
          /\ got[u] + owed[u] <= jobs[u] * cap[u]
      BY <1>0
    <2>1. jobs[u] * per[u] \in Nat /\ jobs[u] * per[u] <= r + per[u] - 1
      <3> DEFINE x == jobs[u] * per[u]
      <3>1. x \in Nat /\ x <= r + due[u]
        BY <2>0
      <3> HIDE DEF x
      <3>2. x <= r + per[u] - 1
        BY <2>0, <3>1
      <3> QED BY <3>1, <3>2 DEF x
    <2>2. r + per[u] - 1 \in Nat
      BY <2>0
    <2>3. jobs[u] <= most(u) /\ most(u) \in Nat
      <3> DEFINE x == r + per[u] - 1
      <3>1. x \in Nat /\ jobs[u] * per[u] <= x
        BY <2>1, <2>2
      <3> HIDE DEF x
      <3>2. jobs[u] <= x \div per[u]
        BY <2>0, <3>1, DivBound
      <3>3. x \div per[u] \in Nat
        BY <2>0, <3>1
      <3> QED BY <3>2, <3>3 DEF x
    <2>4. jobs[u] * cap[u] <= most(u) * cap[u] /\ most(u) * cap[u] \in Nat /\ jobs[u] * cap[u] \in Nat
      BY <2>0, <2>3, TimesBound
    <2> HIDE DEF most
    <2> QED BY <2>0, <2>3, <2>4
  <1>2. got[t] + owed[t] <= cap[t]
    <2>1. per[t] \in Nat \ {0} /\ r + per[t] - 1 < 2 * per[t] /\ r + per[t] - 1 \in Nat
      <3>1. per[t] \in Nat \ {0} /\ r <= per[t]
        BY <1>0
      <3> QED BY <3>1
    <2>2. most(t) <= 1
      <3> DEFINE x == r + per[t] - 1
                 p == per[t]
      <3>1. x \in Nat /\ p \in Nat \ {0} /\ x < 2 * p
        BY <2>1
      <3> HIDE DEF x, p
      <3>2. x \div p <= 1
        BY <3>1
      <3> QED BY <3>2 DEF x, p
    <2>3. most(t) \in Nat /\ got[t] + owed[t] <= most(t) * cap[t] /\ cap[t] \in Nat
          /\ got[t] \in Nat /\ owed[t] \in Nat
      BY <1>0, <1>1
    <2> HIDE DEF most
    <2>4. most(t) * cap[t] <= 1 * cap[t]
      BY <2>2, <2>3, TimesBound
    <2> QED BY <2>3, <2>4
  <1>3. /\ \A u \in S : got[u] \in Nat
        /\ \A u \in S : claim[u] \in Nat /\ got[u] <= claim[u]
        /\ \A u \in S : got[u] + owed[u] <= claim[u] /\ owed[u] \in Nat
    BY <1>0, <1>1
  <1>4. SumFunction(claim) = SumFunctionOnSet(claim, S)
    BY DEF SumFunction
  <1> HIDE DEF claim
  <1>5. /\ SumFunctionOnSet(got, S) \in Nat /\ SumFunctionOnSet(claim, S) \in Nat
        /\ SumFunctionOnSet(got, S) <= SumFunctionOnSet(claim, S)
        /\ SumFunctionOnSet(got, S) = SumFunctionOnSet(claim, S) => \A u \in S : got[u] = claim[u]
    BY <1>3, SumBound
  <1>6. cap[t] + SumFunctionOnSet(claim, S) <= r
    <2>1. claim = [u \in S |-> ((r + per[u] - 1) \div per[u]) * cap[u]]
      BY DEF claim
    <2> QED BY <1>0, <1>4, <2>1
  <1>7. got[t] \in Nat /\ owed[t] \in Nat /\ cap[t] \in Nat
        /\ r \in Nat /\ r = got[t] + SumFunctionOnSet(got, S)
    BY <1>0
  <1>8. owed[t] = 0 /\ SumFunctionOnSet(got, S) = SumFunctionOnSet(claim, S)
    BY ONLY <1>2, <1>5, <1>6, <1>7
  <1>9. ASSUME NEW u \in S PROVE owed[u] = 0
    <2>1. got[u] = claim[u] /\ got[u] \in Nat /\ owed[u] \in Nat /\ got[u] + owed[u] <= claim[u]
      BY <1>3, <1>5, <1>8
    <2> QED BY ONLY <2>1
  <1> QED BY <1>8, <1>9

(* What the kernel still owes a task from the window it is in.  No task is *)
(* owed anything before the first tick, which releases them all.           *)
Owed(u) == IF since[u] = 0 THEN 0 ELSE capacity[u] - executed[u]

(* The last a ticks all went to the level of t: got[u] of them to task u,  *)
(* which had jobs[u] releases in them; due[u] ticks are left to its next   *)
(* multiple of its period.  Before them the level was owed nothing.        *)
Account(t, a, got, jobs, due) ==
    /\ got \in [Tasks -> Nat] /\ jobs \in [Tasks -> Nat] /\ due \in [Tasks -> Nat]
    /\ a = got[t] + SumFunctionOnSet(got, Rivals(t))
    /\ \A u \in Level(t) :
          /\ due[u] < period[u]
          /\ Multiple(rt_time + due[u], period[u])
          /\ jobs[u] * period[u] <= a + due[u]
          /\ got[u] + Owed(u) <= jobs[u] * capacity[u]

Busy(t, r) == \E a \in 0 .. r - 1 : \E got, jobs, due : Account(t, a, got, jobs, due)

LEMMA MultiplePlus ==
    ASSUME NEW x \in Int, NEW y \in Int, NEW p \in Nat \ {0}, Multiple(x, p), Multiple(y, p)
    PROVE  Multiple(x + y, p)
  <1>1. PICK q \in Int, r \in Int : x = q * p /\ y = r * p
    BY DEF Multiple
  <1>2. x + y = (q + r) * p
    BY <1>1
  <1>3. q + r \in Int
    OBVIOUS
  <1> QED
    BY <1>2, <1>3 DEF Multiple

(* The next multiple of a period comes one tick closer, or the one after.  *)
LEMMA DueTick ==
    ASSUME Steady', IInv, ContextSwitch, NEW p \in Periods \ {0},
           NEW d \in Nat, d < p, Multiple(rt_time + d, p)
    PROVE  Multiple(rt_time' + (IF d = 0 THEN p - 1 ELSE d - 1), p)
  <1> DEFINE e == IF d = 0 THEN p - 1 ELSE d - 1
  <1>1. rt_time \in - IntMax - 1 .. IntMax /\ IntMax \in Nat /\ p \in Nat \ {0}
    BY NumbersAssumption DEF IInv, TypeOK
  <1>2. rt_time \in Int /\ 2 * IntMax + 2 \in Int /\ e \in Int
    BY <1>1
  <1>3. Multiple(p, p)
    <2>1. p = 1 * p
      BY <1>1
    <2> QED BY <2>1 DEF Multiple
  <1>4. Multiple(rt_time + 1 + e, p)
    <2>1. CASE d = 0
      <3>1. rt_time + 1 + e = (rt_time + d) + p /\ rt_time + d \in Int
        BY <1>1, <1>2, <2>1
      <3> HIDE DEF e
      <3> QED BY <1>1, <1>3, <3>1, MultiplePlus
    <2>2. CASE d # 0
      <3>1. rt_time + 1 + e = rt_time + d
        BY <1>1, <1>2, <2>2
      <3> HIDE DEF e
      <3> QED BY <3>1
    <2> QED BY <2>1, <2>2
  <1> HIDE DEF e
  <1>5. rt_time' = rt_time + 1 \/ rt_time' = rt_time + 1 - (2 * IntMax + 2)
    BY <1>1 DEF ContextSwitch, Wrap
  <1>6. CASE rt_time' = rt_time + 1
    BY <1>4, <1>6 DEF e
  <1>7. CASE rt_time' = rt_time + 1 - (2 * IntMax + 2)
    <2>1. Multiple(2 * IntMax + 2, p)
      <3>1. (2 * IntMax + 2) % p = 0
        BY <1>7, WrapsOnlyAtPeriods DEF WrapsAtPeriods
      <3> QED BY <1>1, <1>2, <3>1, MultipleOfMod
    <2>2. rt_time + 1 + e \in Int
      BY <1>2
    <2>3. Multiple((rt_time + 1 + e) - (2 * IntMax + 2), p)
      BY <1>1, <1>2, <1>4, <2>1, <2>2, MultipleLess
    <2>4. rt_time' + e = (rt_time + 1 + e) - (2 * IntMax + 2)
      BY <1>2, <1>7
    <2>5. Multiple(rt_time' + e, p)
      BY <2>3, <2>4
    <2> QED BY <2>5 DEF e
  <1> QED BY <1>5, <1>6, <1>7

(* A tick takes one off what its task is owed, and a release adds a budget.*)
Fresh(u) == u \in Released \/ since[u] = 0

LEMMA OwedTick ==
    ASSUME SInv, TimedSwitch, NEW u \in allocated
    PROVE  /\ Owed(u) \in Nat /\ Owed(u)' \in Nat
           /\ Owed(u)' = (IF Fresh(u) THEN capacity[u] ELSE Owed(u))
                         - (IF u = rt_running_task' THEN 1 ELSE 0)
           /\ Fresh(u) => Owed(u) = 0 /\ Multiple(rt_time, period[u])
           /\ Fresh(u) \/ Owed(u) > 0 => u \in Released \/ executed[u] < capacity[u]
           /\ u = rt_running_task' => Fresh(u) \/ Owed(u) > 0
  <1>1. IInv /\ ContextSwitch /\ IInv'
    BY ContextSwitchIInv DEF SInv, TimedSwitch
  <1>2. /\ capacity[u] \in Nat \ {0} /\ period[u] \in Nat \ {0} /\ executed[u] \in Nat
        /\ executed[u] <= capacity[u] /\ u \in Tasks /\ since[u] \in Nat /\ since[u] <= period[u]
        /\ since[u] = 0 => executed[u] = 0
    BY <1>1, RetiredFacts DEF SInv, IInv, BudgetInv, TypeOK
  <1>3. allocated' = allocated /\ capacity' = capacity
    BY <1>1 DEF ContextSwitch, fields
  <1>4. /\ executed'[u] = (IF u \in Released THEN 0 ELSE executed[u])
                          + (IF u = rt_running_task' THEN 1 ELSE 0)
        /\ executed'[u] <= capacity[u] /\ executed'[u] \in Nat
    <2>1. executed'[u] = (IF u \in Released THEN 0 ELSE executed[u])
                         + (IF u = rt_running_task' THEN 1 ELSE 0)
      BY <1>1, <1>2, SwitchFacts
    <2>2. BudgetInv' /\ TypeOK'
      BY <1>1 DEF IInv
    <2> QED BY <1>2, <1>3, <2>1, <2>2 DEF BudgetInv, TypeOK
  <1>5. since'[u] # 0
    <2>1. since' = [v \in Tasks |-> IF v \in Released THEN 1
                                    ELSE IF since[v] < period[v] THEN since[v] + 1 ELSE since[v]]
      BY DEF TimedSwitch
    <2>2. since'[u] = IF u \in Released THEN 1
                      ELSE IF since[u] < period[u] THEN since[u] + 1 ELSE since[u]
      BY <1>2, <2>1
    <2> QED BY <1>2, <2>2
  <1>6. Owed(u)' = capacity[u] - executed'[u]
    BY <1>3, <1>5 DEF Owed
  <1>7. u \in Released => executed[u] = capacity[u]
    BY <1>1, RetiredFacts
  <1>8. Fresh(u) => Multiple(rt_time, period[u])
    <2>1. rt_time \in Int
      BY <1>1 DEF IInv, TypeOK
    <2>2. CASE u \in Released
      BY <1>2, <2>1, <2>2, MultipleOfMod DEF Released
    <2>3. CASE since[u] = 0
      <3>1. Multiple(rt_time - since[u], period[u])
        BY <1>2, <2>3 DEF SInv
      <3>2. rt_time - since[u] = rt_time
        BY <2>1, <2>3
      <3> QED BY <3>1, <3>2
    <2> QED BY <2>2, <2>3 DEF Fresh
  <1>9. u = rt_running_task' => u \in Released \/ executed[u] < capacity[u]
    BY <1>1, DispatchedHasBudget
  <1> QED BY <1>2, <1>4, <1>6, <1>7, <1>8, <1>9 DEF Owed, Fresh

(* The account of a tick that the level got.                               *)
LEMMA AccountTick ==
    ASSUME NEW p \in Nat \ {0}, NEW c \in Nat, NEW a \in Nat, NEW got \in Nat, NEW jobs \in Nat,
           NEW due \in Nat, due < p, jobs * p <= a + due,
           NEW owed \in Nat, got + owed <= jobs * c,
           NEW one \in {0, 1}, NEW fresh \in BOOLEAN, fresh => owed = 0 /\ due = 0,
           NEW then \in Nat, then = (IF fresh THEN c ELSE owed) - one
    PROVE  /\ (jobs + (IF due = 0 THEN 1 ELSE 0)) * p
                 <= a + 1 + (IF due = 0 THEN p - 1 ELSE due - 1)
           /\ got + one + then <= (jobs + (IF due = 0 THEN 1 ELSE 0)) * c
  <1>1. (jobs + 1) * p = jobs * p + p /\ (jobs + 1) * c = jobs * c + c
    OBVIOUS
  <1>2. (jobs + 0) * p = jobs * p /\ (jobs + 0) * c = jobs * c
    OBVIOUS
  <1> DEFINE x == jobs * p
             y == jobs * c
  <1>3. x \in Nat /\ y \in Nat /\ x <= a + due /\ got + owed <= y
    OBVIOUS
  <1> HIDE DEF x, y
  <1>4. CASE due = 0
    <2>1. x + p <= a + 1 + (p - 1) /\ got + one + then <= y + c
      BY <1>3, <1>4
    <2> QED BY <1>1, <1>4, <2>1 DEF x, y
  <1>5. CASE due # 0
    <2>1. x <= a + 1 + (due - 1) /\ got + one + then <= y
      BY <1>3, <1>5
    <2> QED BY <1>2, <1>5, <2>1 DEF x, y
  <1> QED BY <1>4, <1>5

(* No busy time of the level lasts as long as r.                           *)
LEMMA BusyTick ==
    ASSUME Steady', SInv, TimedSwitch, rt_running_task \in Listed \cup {Idle},
           NEW t \in Listed, state[t] # BLOCKED, period[t] < IdlePeriod,
           NEW r \in 1 .. period[t], Demand(t, r) <= r, Busy(t, r)
    PROVE  Busy(t, r)'
  <1>1. /\ IInv /\ ContextSwitch /\ period' = period /\ capacity' = capacity
        /\ Rivals(t)' = Rivals(t) /\ Level(t)' = Level(t)
    BY LevelKept DEF SInv, TimedSwitch, ContextSwitch, fields, Level
  <1>0. PICK a \in 0 .. r - 1 : \E got, jobs, due : Account(t, a, got, jobs, due)
    BY DEF Busy
  <1>2. PICK got, jobs, due : Account(t, a, got, jobs, due)
    BY <1>0
  <1>3. PICK next : next = rt_running_task'
    OBVIOUS
  <1>11. PICK due2 : due2 = [u \in Tasks |->
                               IF u \in Level(t)
                               THEN (IF due[u] = 0 THEN period[u] - 1 ELSE due[u] - 1)
                               ELSE 0]
    OBVIOUS
  <1>4. ASSUME NEW u \in Level(t)
        PROVE  /\ u \in Tasks /\ u \in allocated /\ period[u] \in Nat \ {0} /\ period[u] \in Periods
               /\ capacity[u] \in Nat /\ got[u] \in Nat /\ jobs[u] \in Nat /\ due[u] \in Nat
               /\ due[u] < period[u] /\ Multiple(rt_time + due[u], period[u])
               /\ jobs[u] * period[u] <= a + due[u] /\ got[u] + Owed(u) <= jobs[u] * capacity[u]
    <2>1. /\ u \in Tasks /\ u \in allocated /\ period[u] \in Nat \ {0} /\ capacity[u] \in Nat
      BY <1>1, LevelFacts
    <2> QED BY <1>2, <2>1 DEF Account, SInv
  <1>5. /\ due2 \in [Tasks -> Nat]
        /\ \A u \in Level(t) : due2[u] < period[u] /\ Multiple(rt_time' + due2[u], period[u])
    <2>1. ASSUME NEW u \in Level(t)
          PROVE  /\ due2[u] = IF due[u] = 0 THEN period[u] - 1 ELSE due[u] - 1
                 /\ due2[u] \in Nat /\ due2[u] < period[u]
      <3>1. due2[u] = IF due[u] = 0 THEN period[u] - 1 ELSE due[u] - 1
        BY <1>4, <1>11
      <3>2. period[u] \in Nat \ {0} /\ due[u] \in Nat /\ due[u] < period[u]
        BY <1>4
      <3> QED BY <3>1, <3>2
    <2>2. ASSUME NEW u \in Level(t)
          PROVE  Multiple(rt_time' + due2[u], period[u])
      <3>1. Multiple(rt_time' + (IF due[u] = 0 THEN period[u] - 1 ELSE due[u] - 1), period[u])
        BY <1>1, <1>4, DueTick
      <3> QED BY <2>1, <3>1
    <2>3. due2 \in [Tasks -> Nat]
      BY <1>11, <2>1
    <2> QED BY <2>1, <2>2, <2>3
  <1>9. ASSUME NEW f PROVE SumFunctionOnSet(f, Rivals(t))' = SumFunctionOnSet(f, Rivals(t))
    BY <1>1
  <1>10. ASSUME NEW u \in Level(t) PROVE Multiple(rt_time + due2[u], period[u])'
    BY <1>1, <1>5
  <1>6. ASSUME \A u \in Level(t) : Owed(u)' = 0
        PROVE  Busy(t, r)'
    <2> DEFINE zero == [u \in Tasks |-> 0]
    <2>1. zero[t] + SumFunctionOnSet(zero, Rivals(t)) = 0
      <3>1. t \in Level(t) /\ Rivals(t) \subseteq Level(t) /\ IsFiniteSet(Rivals(t))
        BY <1>1, LevelFacts DEF Level
      <3>2. zero[t] = 0 /\ \A u \in Rivals(t) : zero[u] = 0
        BY <1>4, <3>1
      <3>3. SumFunctionOnSet(zero, Rivals(t)) = 0
        BY <3>1, <3>2, SumBound
      <3> QED BY <3>2, <3>3
    <2>2. ASSUME NEW u \in Level(t)
          PROVE  /\ zero[u] * period[u] <= 0 + due2[u]
                 /\ zero[u] + Owed(u)' <= zero[u] * capacity[u]
      BY <1>4, <1>5, <1>6
    <2>3. Account(t, 0, zero, zero, due2)'
      <3>1. zero \in [Tasks -> Nat]
        OBVIOUS
      <3> HIDE DEF zero
      <3> QED BY <1>1, <1>5, <1>9, <1>10, <2>1, <2>2, <3>1 DEF Account
    <2>4. 0 \in 0 .. r - 1
      BY <1>4 DEF Level
    <2> QED BY <2>3, <2>4 DEF Busy
  <1>7. CASE \E u \in Level(t) : Fresh(u) \/ Owed(u) > 0
    <2>1. next \in Level(t)
      <3>1. PICK u \in Level(t) : Fresh(u) \/ Owed(u) > 0
        BY <1>7
      <3>2. u \in Released \/ executed[u] < capacity[u]
        BY <1>4, <3>1, OwedTick
      <3> QED BY <1>1, <1>3, <3>2, LevelGetsTick
    <2> DEFINE got2 == [u \in Tasks |-> got[u] + (IF u = next THEN 1 ELSE 0)]
               jobs2 == [u \in Tasks |-> jobs[u] + (IF due[u] = 0 THEN 1 ELSE 0)]
    <2>2. got \in [Tasks -> Nat] /\ jobs \in [Tasks -> Nat]
      BY <1>2 DEF Account
    <2>3. got2 \in [Tasks -> Nat] /\ jobs2 \in [Tasks -> Nat]
      BY <2>2
    <2>4. a + 1 = got2[t] + SumFunctionOnSet(got2, Rivals(t))
      <3>1. IsFiniteSet(Rivals(t)) /\ t \notin Rivals(t) /\ Rivals(t) \subseteq Tasks /\ t \in Tasks
        BY <1>1, LevelFacts DEF Level
      <3>2. /\ SumFunctionOnSet(got, Rivals(t)) \in Nat
            /\ SumFunctionOnSet(got2, Rivals(t))
                  = SumFunctionOnSet(got, Rivals(t)) + (IF next \in Rivals(t) THEN 1 ELSE 0)
        <4>1. /\ \A x \in Rivals(t) : got[x] \in Nat /\ got2[x] \in Nat
              /\ \A x \in Rivals(t) : got2[x] = got[x] + (IF x = next THEN 1 ELSE 0)
          BY <2>2, <3>1
        <4> HIDE DEF got2
        <4> QED BY <3>1, <4>1, SumFacts
      <3>3. got2[t] = got[t] + (IF t = next THEN 1 ELSE 0) /\ got[t] \in Nat
        BY <2>2, <3>1
      <3>4. a = got[t] + SumFunctionOnSet(got, Rivals(t))
        BY <1>2 DEF Account
      <3>5. next = t \/ next \in Rivals(t)
        BY <2>1 DEF Level
      <3> HIDE DEF got2
      <3> QED BY <3>1, <3>2, <3>3, <3>4, <3>5
    <2>5. ASSUME NEW u \in Level(t)
          PROVE  /\ Owed(u)' \in Nat
                 /\ jobs2[u] * period[u] <= a + 1 + due2[u]
                 /\ got2[u] + Owed(u)' <= jobs2[u] * capacity[u]
      <3>1. /\ Owed(u) \in Nat /\ Owed(u)' \in Nat
            /\ Owed(u)' = (IF Fresh(u) THEN capacity[u] ELSE Owed(u)) - (IF u = next THEN 1 ELSE 0)
            /\ Fresh(u) => Owed(u) = 0 /\ Multiple(rt_time, period[u])
        BY <1>3, <1>4, OwedTick
      <3>2. Fresh(u) => due[u] = 0
        <4> SUFFICES ASSUME Fresh(u) PROVE due[u] = 0
          OBVIOUS
        <4>1. rt_time \in Int
          BY <1>1 DEF IInv, TypeOK
        <4>2. Multiple((rt_time + due[u]) - rt_time, period[u])
          <5>1. rt_time + due[u] \in Int
            BY <1>4, <4>1
          <5> QED BY <1>4, <3>1, <4>1, <5>1, MultipleLess
        <4>3. (rt_time + due[u]) - rt_time = due[u] /\ due[u] \in 0 .. period[u] - 1
          BY <1>4, <4>1
        <4>4. Multiple(due[u], period[u])
          BY <4>2, <4>3
        <4> QED BY <1>4, <4>3, <4>4, MultipleSmall
      <3>3. /\ due2[u] = IF due[u] = 0 THEN period[u] - 1 ELSE due[u] - 1
            /\ jobs2[u] = jobs[u] + (IF due[u] = 0 THEN 1 ELSE 0)
            /\ got2[u] = got[u] + (IF u = next THEN 1 ELSE 0)
        BY <1>4, <1>11
      <3> DEFINE one == IF u = next THEN 1 ELSE 0
                 fresh == Fresh(u)
      <3>4. PICK then : then = Owed(u)'
        OBVIOUS
      <3>5. /\ one \in {0, 1} /\ fresh \in BOOLEAN /\ then \in Nat
            /\ then = (IF fresh THEN capacity[u] ELSE Owed(u)) - one
            /\ fresh => Owed(u) = 0 /\ due[u] = 0
        <4>1. (fresh <=> Fresh(u)) /\ fresh \in BOOLEAN
          BY DEF Fresh
        <4> QED BY <3>1, <3>2, <3>4, <4>1
      <3>6. a \in Nat
        OBVIOUS
      <3> HIDE DEF got2, jobs2, one, fresh
      <3>7. /\ (jobs[u] + (IF due[u] = 0 THEN 1 ELSE 0)) * period[u]
                  <= a + 1 + (IF due[u] = 0 THEN period[u] - 1 ELSE due[u] - 1)
            /\ got[u] + one + then <= (jobs[u] + (IF due[u] = 0 THEN 1 ELSE 0)) * capacity[u]
        BY <1>4, <3>1, <3>5, <3>6, AccountTick
      <3> QED BY <3>1, <3>3, <3>4, <3>7 DEF one
    <2> HIDE DEF got2, jobs2
    <2>6. CASE a + 1 \in 0 .. r - 1
      <3>1. Account(t, a + 1, got2, jobs2, due2)'
        BY <1>1, <1>5, <1>9, <1>10, <2>3, <2>4, <2>5 DEF Account
      <3> QED BY <2>6, <3>1 DEF Busy
    <2>7. CASE a + 1 = r
      <3> DEFINE owed == [u \in Tasks |-> Owed(u)']
                 S == Rivals(t)
      <3>1. S \cup {t} = Level(t) /\ IsFiniteSet(S) /\ t \notin S /\ t \in Level(t)
        BY <1>1, LevelFacts DEF Level
      <3>2. \A u \in S \cup {t} :
              /\ period[u] \in Nat \ {0} /\ capacity[u] \in Nat /\ owed[u] \in Nat
              /\ got2[u] \in Nat /\ jobs2[u] \in Nat /\ due2[u] \in Nat /\ due2[u] < period[u]
              /\ jobs2[u] * period[u] <= r + due2[u]
              /\ got2[u] + owed[u] <= jobs2[u] * capacity[u]
        BY <1>4, <1>5, <2>3, <2>5, <2>7, <3>1
      <3>3. r \in Nat \ {0} /\ r <= period[t] /\ r = got2[t] + SumFunctionOnSet(got2, S)
        BY <1>4, <2>4, <2>7, <3>1
      <3>4. capacity[t]
            + SumFunction([u \in S |-> ((r + period[u] - 1) \div period[u]) * capacity[u]]) <= r
        BY DEF Demand
      <3> HIDE DEF owed, S
      <3>5. \A u \in S \cup {t} : owed[u] = 0
        <4>1. Spent(S, t, r, period, capacity, owed, got2, jobs2, due2)
          BY <3>2, <3>3, <3>4 DEF Spent
        <4> QED BY <3>1, <3>3, <4>1, Saturated
      <3>6. \A u \in Level(t) : Owed(u)' = 0
        BY <1>4, <3>1, <3>5 DEF owed
      <3> QED BY <1>6, <3>6
    <2>8. a + 1 \in 0 .. r - 1 \/ a + 1 = r
      <3>1. period[t] \in Nat
        BY <1>4 DEF Level
      <3>2. r \in Nat /\ a \in 0 .. r - 1
        BY <3>1
      <3> QED BY ONLY <3>2
    <2> QED BY <2>6, <2>7, <2>8
  <1>8. CASE ~ \E u \in Level(t) : Fresh(u) \/ Owed(u) > 0
    <2>1. ASSUME NEW u \in Level(t) PROVE Owed(u)' = 0
      <3>1. /\ Owed(u) \in Nat /\ ~ Fresh(u) /\ ~ (Owed(u) > 0) /\ u # next
            /\ Owed(u)' = (IF Fresh(u) THEN capacity[u] ELSE Owed(u)) - (IF u = next THEN 1 ELSE 0)
        BY <1>3, <1>4, <1>8, OwedTick
      <3> QED BY <3>1
    <2> QED BY <1>6, <2>1
  <1> QED BY <1>7, <1>8

(* Before rt_start is done no task is owed anything.                       *)
LEMMA BusyStart ==
    ASSUME SInv, phase = "start", NEW t \in Listed, NEW r \in 1 .. period[t]
    PROVE  Busy(t, r)
  <1> DEFINE zero == [u \in Tasks |-> 0]
  <1>1. /\ IInv /\ rt_time = 0 /\ \A u \in Tasks : since[u] = 0
        /\ t \in Level(t) /\ Rivals(t) \subseteq Level(t)
    BY DEF SInv, Level
  <1>2. \A u \in Level(t) : u \in Tasks /\ period[u] \in Nat \ {0} /\ capacity[u] \in Nat
    BY <1>1, LevelFacts
  <1>3. zero \in [Tasks -> Nat] /\ \A u \in Level(t) : zero[u] = 0
    BY <1>2
  <1> HIDE DEF zero
  <1>4. 0 = zero[t] + SumFunctionOnSet(zero, Rivals(t))
    <2>1. IsFiniteSet(Rivals(t)) /\ \A u \in Rivals(t) : zero[u] = 0
      BY <1>1, <1>3, LevelFacts
    <2>2. SumFunctionOnSet(zero, Rivals(t)) = 0
      BY <2>1, SumBound
    <2> QED BY <1>1, <1>3, <2>2
  <1>5. ASSUME NEW u \in Level(t)
        PROVE  /\ zero[u] < period[u] /\ Multiple(rt_time + zero[u], period[u])
               /\ zero[u] * period[u] <= 0 + zero[u]
               /\ zero[u] + Owed(u) <= zero[u] * capacity[u]
    <2>1. zero[u] = 0 /\ Owed(u) = 0 /\ period[u] \in Nat \ {0} /\ capacity[u] \in Nat
      BY <1>1, <1>2, <1>3 DEF Owed
    <2>2. rt_time + zero[u] = 0 * period[u]
      BY <1>1, <2>1
    <2> QED BY <2>1, <2>2 DEF Multiple
  <1>6. Account(t, 0, zero, zero, zero)
    BY <1>3, <1>4, <1>5 DEF Account
  <1>7. 0 \in 0 .. r - 1
    BY <1>1, <1>2
  <1> QED BY <1>6, <1>7 DEF Busy

-----------------------------------------------------------------------------
(* Every task that response-time analysis accepts is in a busy time too    *)
(* short to miss its deadline in.                                          *)
BInv ==
    /\ SInv
    /\ phase # "run" => cpu = "rt_start"
    /\ phase = "start" => rt_running_task = Idle
    /\ phase = "run" =>
          /\ rt_running_task \in Listed \cup {Idle}
          /\ cpu # "rt_start" => \A t \in allocated : since[t] # 0
          /\ \A t \in Listed : \A r \in 1 .. period[t] :
                state[t] # BLOCKED /\ period[t] < IdlePeriod /\ Demand(t, r) <= r => Busy(t, r)

LEMMA TimedSwitchBInv ==
    ASSUME Steady', BInv, TimedSwitch
    PROVE  BInv'
  <1>1. /\ SInv /\ IInv /\ ContextSwitch /\ phase = "run"
        /\ rt_running_task \in Listed \cup {Idle}
    BY DEF BInv, SInv, TimedSwitch, ContextSwitch
  <1>2. SInv'
    BY <1>1, TimedSwitchSInv
  <1>3. /\ phase' = phase /\ allocated' = allocated /\ period' = period
        /\ capacity' = capacity /\ Listed' = Listed
    BY <1>1 DEF ContextSwitch, fields, Listed
  <1>4. rt_running_task' \in Listed \cup {Idle}
    BY <1>1, SwitchFacts
  <1>5. ASSUME NEW t \in allocated PROVE since'[t] # 0
    <2>1. t \in Tasks /\ since[t] \in Nat /\ period[t] \in Nat \ {0}
      BY <1>1 DEF SInv, IInv, TypeOK, Setup
    <2> QED BY <2>1 DEF TimedSwitch
  <1>6. ASSUME NEW t \in Listed, NEW r \in 1 .. period[t],
               state'[t] # BLOCKED, period[t] < IdlePeriod, Demand(t, r)' <= r
        PROVE  Busy(t, r)'
    <2>1. state[t] # BLOCKED /\ Rivals(t)' = Rivals(t)
      BY <1>1, <1>6, LevelKept
    <2>2. Demand(t, r)' = Demand(t, r)
      BY <1>3, <2>1 DEF Demand
    <2>3. Demand(t, r) <= r
      BY <1>6, <2>2
    <2>4. Busy(t, r)
      BY <1>1, <1>6, <2>1, <2>3 DEF BInv
    <2> QED BY <1>1, <1>6, <2>1, <2>3, <2>4, BusyTick
  <1> QED BY <1>1, <1>2, <1>3, <1>4, <1>5, <1>6 DEF BInv

LEMMA OtherStepBInv ==
    ASSUME AddPhases \cup DeletePhases \subseteq {"create"}, BInv, Next, ~ ContextSwitch,
           UNCHANGED since
    PROVE  BInv'
  <1>1. SInv'
    BY OtherStepSInv DEF BInv
  <1>2. ASSUME NEW t \in Tasks, NEW f \in Functions, NEW p \in Periods, NEW c \in Capacities,
               NEW s \in States, AddTask(t, f, p, c, s)
        PROVE  BInv'
    BY <1>1, <1>2 DEF AddTask, Calling, BInv
  <1>3. ASSUME NEW pos \in 0 .. Len(rt_list_task), DelTask(pos)
        PROVE  BInv'
    BY <1>1, <1>3 DEF DelTask, Calling, BInv
  <1>4. ASSUME StartInit
        PROVE  BInv'
    BY <1>1, <1>4 DEF StartInit, BInv
  <1>5. ASSUME StartSlot
        PROVE  BInv'
    BY <1>1, <1>5 DEF StartSlot, BInv
  <1>6. ASSUME StartClock
        PROVE  BInv'
    <2>1. /\ phase = "start" /\ phase' = "run" /\ cpu' = "rt_start" /\ rt_running_task' = Idle
          /\ UNCHANGED <<rt_list_task, period, capacity, executed, state, rt_time>>
      BY <1>6 DEF StartClock, BInv, fields
    <2>2. Listed' = Listed
      BY <2>1 DEF Listed
    <2>3. ASSUME NEW t \in Listed, NEW r \in 1 .. period[t]
          PROVE  Busy(t, r)'
      <3>1. Busy(t, r)
        BY <2>1, BusyStart DEF BInv
      <3>2. Rivals(t)' = Rivals(t) /\ Level(t)' = Level(t)
        BY <2>1, <2>2 DEF Rivals, Level
      <3>0. PICK a \in 0 .. r - 1 : \E got, jobs, due : Account(t, a, got, jobs, due)
        BY <3>1 DEF Busy
      <3>3. PICK got, jobs, due : Account(t, a, got, jobs, due)
        BY <3>0
      <3>4. Account(t, a, got, jobs, due)'
        BY <2>1, <3>2, <3>3 DEF Account, Owed
      <3> QED BY <3>4 DEF Busy
    <2> QED BY <1>1, <2>1, <2>2, <2>3 DEF BInv
  <1> QED BY <1>2, <1>3, <1>4, <1>5, <1>6 DEF Next

LEMMA BusyDeadlines ==
    ASSUME BInv
    PROVE  DeadlinesMet
  <1> SUFFICES ASSUME phase = "run", cpu # "rt_start",
                      NEW t \in Listed, Feasible(t), rt_time % period[t] = 0
               PROVE  executed[t] = capacity[t]
    BY DEF DeadlinesMet
  <1>1. /\ SInv /\ IInv /\ t \in Level(t) /\ t \in allocated /\ t \in Tasks
        /\ period[t] \in Nat \ {0} /\ capacity[t] \in Nat \ {0}
        /\ executed[t] \in Nat /\ executed[t] <= capacity[t]
    BY LevelFacts DEF BInv, SInv, Level
  <1>2. since[t] # 0 /\ rt_time \in Int
    BY <1>1 DEF BInv, IInv, TypeOK
  <1>3. PICK r \in 1 .. period[t] : Busy(t, r)
    BY DEF Feasible, BInv
  <1>0. PICK a \in 0 .. r - 1 : \E got, jobs, due : Account(t, a, got, jobs, due)
    BY <1>3 DEF Busy
  <1>4. PICK got, jobs, due : Account(t, a, got, jobs, due)
    BY <1>0
  <1>5. /\ got[t] \in Nat /\ jobs[t] \in Nat /\ due[t] \in Nat /\ due[t] < period[t]
        /\ Multiple(rt_time + due[t], period[t])
        /\ jobs[t] * period[t] <= a + due[t]
        /\ got[t] + Owed(t) <= jobs[t] * capacity[t]
    BY <1>1, <1>4 DEF Account
  <1>6. due[t] = 0
    <2>1. Multiple(rt_time, period[t])
      BY <1>1, <1>2, MultipleOfMod
    <2>2. rt_time + due[t] \in Int
      BY <1>2, <1>5
    <2>3. Multiple((rt_time + due[t]) - rt_time, period[t])
      BY <1>1, <1>2, <1>5, <2>1, <2>2, MultipleLess
    <2>4. (rt_time + due[t]) - rt_time = due[t] /\ due[t] \in 0 .. period[t] - 1
      BY <1>1, <1>2, <1>5
    <2>5. Multiple(due[t], period[t])
      BY <2>3, <2>4
    <2> QED BY <1>1, <2>4, <2>5, MultipleSmall
  <1>7. jobs[t] = 0
    <2>1. jobs[t] * period[t] < period[t]
      BY <1>1, <1>3, <1>4, <1>5, <1>6
    <2>2. ASSUME jobs[t] >= 1 PROVE FALSE
      <3>1. 1 * period[t] <= jobs[t] * period[t] /\ jobs[t] * period[t] \in Nat
        BY <1>1, <1>5, <2>2, TimesBound
      <3> QED BY <1>1, <2>1, <3>1
    <2> QED BY <1>5, <2>2
  <1>8. Owed(t) = capacity[t] - executed[t] /\ Owed(t) <= 0
    <2>1. Owed(t) = capacity[t] - executed[t]
      BY <1>2 DEF Owed
    <2>2. got[t] + Owed(t) <= 0
      BY <1>1, <1>5, <1>7
    <2> QED BY <1>1, <1>5, <2>1, <2>2
  <1> QED BY <1>1, <1>8

(* Deadlines: a task that response-time analysis accepts, from the periods *)
(* and capacities of the listed tasks, has had all of its budget whenever  *)
(* rt_context_switch is about to look at its release, for every set of     *)
(* tasks; tasks are added and deleted before rt_start, and rt_time has not *)
(* wrapped yet or wraps at multiples of the periods.                       *)
THEOREM FeasibleDeadlines ==
    AddPhases \cup DeletePhases \subseteq {"create"}
      => (TimingSpec /\ []Steady => []DeadlinesMet)
  <1> SUFFICES ASSUME AddPhases \cup DeletePhases \subseteq {"create"}
               PROVE  TimingSpec /\ []Steady => []DeadlinesMet
    OBVIOUS
  <1>1. TimingInit => BInv
    <2> SUFFICES ASSUME TimingInit PROVE BInv
      OBVIOUS
    <2>1. SInv
      BY InitIInv DEF TimingInit, Init, SInv
    <2> QED BY <2>1 DEF TimingInit, Init, BInv
  <1>2. BInv /\ [TimingNext]_timingVars /\ Steady' => BInv'
    <2> SUFFICES ASSUME BInv, [TimingNext]_timingVars, Steady' PROVE BInv'
      OBVIOUS
    <2>1. CASE UNCHANGED timingVars
      <3>1. UNCHANGED <<vars, since>>
        BY <2>1 DEF timingVars
      <3>2. SInv'
        <4>1. IInv'
          BY <3>1, NextIInv DEF BInv, SInv
        <4> QED BY <3>1, <4>1 DEF BInv, SInv, vars, fields
      <3>3. ASSUME NEW t, NEW r
            PROVE  /\ Busy(t, r)' <=> Busy(t, r)
                   /\ Demand(t, r)' = Demand(t, r) /\ Listed' = Listed
        BY <3>1 DEF vars, fields, Busy, Account, Owed, Level, Demand, Rivals, Listed
      <3> QED BY <3>1, <3>2, <3>3 DEF BInv, vars, fields
    <2> QED BY <2>1, TimedSwitchBInv, OtherStepBInv DEF TimingNext
  <1>3. BInv => DeadlinesMet
    BY BusyDeadlines
  <1> QED BY <1>1, <1>2, <1>3, PTL DEF TimingSpec
=============================================================================
