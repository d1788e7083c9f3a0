------------------------- MODULE RtRefinementProofs -------------------------
(***************************************************************************)
(* The kernel implements RateMonotonic, for every value of the constants:  *)
(* initial states map to initial states, and every call and every tick to  *)
(* an abstract step or to nothing.                                         *)
(***************************************************************************)
EXTENDS RtRefinement, RtKernelProofs

LEMMA InitRefines == Init => RM!Init
  <1> SUFFICES ASSUME Init PROVE RM!Init
    OBVIOUS
  <1>1. {t \in Listed : state[t] # BLOCKED} = {}
    BY DEF Init, Listed, ToSet
  <1>2. rt_running_task \notin Tasks
    BY TasksAssumption DEF Init
  <1>3. \A t \in Tasks : period[t] = 0 /\ capacity[t] = 0 /\ capacity[t] - executed[t] = 0
    BY DEF Init, Objects
  <1> QED
    BY <1>1, <1>2, <1>3 DEF Init, RM!Init

LEMMA AddTaskRefines ==
    ASSUME IInv, NEW t \in Tasks, NEW f \in Functions, NEW p \in Periods, NEW c \in Capacities,
           NEW s \in States, AddTask(t, f, p, c, s)
    PROVE  RM!Admit(t, s = BLOCKED)
  <1>1. /\ t \notin allocated /\ t \notin Listed /\ t # Idle /\ t # rt_running_task
        /\ rt_running_task' = rt_running_task /\ rt_time' = rt_time
    BY TasksAssumption DEF IInv, TypeOK, AddTask
  <1>2. p \in Nat /\ c \in 1 .. p /\ executed[t] = 0 /\ executed' = executed
    BY <1>1, NumbersAssumption DEF IInv, Setup, AddTask
  <1>3. Listed' = Listed \cup {t}
    BY <1>1, ListAppend DEF IInv, TypeOK, AddTask, Listed, NoRepeats
  <1>4. {u \in Listed' : state'[u] # BLOCKED} =
           IF s = BLOCKED THEN {u \in Listed : state[u] # BLOCKED}
           ELSE {u \in Listed : state[u] # BLOCKED} \cup {t}
    <2>1. \A u \in Listed : state'[u] = state[u]
      BY <1>1 DEF IInv, TypeOK, AddTask, Objects
    <2>2. state'[t] = s
      BY DEF IInv, TypeOK, AddTask, Objects
    <2> QED
      BY <1>1, <1>3, <2>1, <2>2
  <1>5. /\ [u \in Tasks |-> period'[u]] = [[u \in Tasks |-> period[u]] EXCEPT ![t] = p]
        /\ [u \in Tasks |-> capacity'[u]] = [[u \in Tasks |-> capacity[u]] EXCEPT ![t] = c]
    BY DEF IInv, TypeOK, AddTask, Objects
  <1>6. [u \in Tasks |-> capacity'[u] - executed'[u]]
           = [[u \in Tasks |-> capacity[u] - executed[u]] EXCEPT ![t] = c]
    <2>1. \A u \in Tasks : capacity'[u] = IF u = t THEN c ELSE capacity[u]
      BY DEF IInv, TypeOK, AddTask, Objects
    <2>2. \A u \in Tasks : capacity'[u] - executed'[u] = IF u = t THEN c ELSE capacity[u] - executed[u]
      BY <1>2, <2>1
    <2> QED
      BY <2>2, Zenon
  <1> QED
    BY <1>1, <1>2, <1>4, <1>5, <1>6 DEF RM!Admit

LEMMA DelTaskRefines ==
    ASSUME IInv, NEW pos \in Nat, DelTask(pos)
    PROVE  \E t \in Tasks : RM!Withdraw(t)
  <1> DEFINE t == rt_list_task[pos + 1]
  <1>1. t \in Tasks
    BY DEF IInv, TypeOK, DelTask
  <1>2. Listed' = Listed \ {t} /\ state' = state
    BY DelTaskList DEF DelTask
  <1>3. UNCHANGED <<rt_time, period, capacity, executed, rt_running_task>>
    BY DEF DelTask, fields
  <1> HIDE DEF t
  <1>4. RM!Withdraw(t)
    BY <1>2, <1>3 DEF RM!Withdraw
  <1> QED
    BY <1>1, <1>4 DEF RM!Withdraw

(* Nothing rt_start does is visible to the abstract scheduler. *)
LEMMA StartRefines ==
    ASSUME IInv, StartInit \/ StartSlot \/ StartClock
    PROVE  UNCHANGED RM!vars
  <1>1. UNCHANGED <<rt_time, Listed, executed>>
    BY DEF IInv, Setup, StartInit, StartSlot, StartClock, Listed
  <1>2. \A t \in Tasks : UNCHANGED <<state[t], period[t], capacity[t]>>
    BY TasksAssumption DEF IInv, TypeOK, Objects, StartInit, StartSlot, StartClock, fields
  <1>3. UNCHANGED (IF rt_running_task \in Tasks THEN rt_running_task ELSE Idle)
    BY TasksAssumption DEF IInv, Setup, StartInit, StartSlot, StartClock
  <1>4. Listed \subseteq Tasks
    BY DEF IInv, TypeOK
  <1>5. UNCHANGED {t \in Listed : state[t] # BLOCKED}
    BY <1>1, <1>2, <1>4
  <1> QED
    BY <1>1, <1>2, <1>3, <1>5 DEF RM!vars

-----------------------------------------------------------------------------
(* The abstract budget after refilling is what the tick leaves the loop of *)
(* rt_context_switch with: a full capacity for the tasks it released.      *)
LEMMA RefilledBudget ==
    ASSUME IInv, ContextSwitch, NEW t \in Tasks
    PROVE  /\ RM!Refilled[t] = capacity[t] - (IF t \in Released THEN 0 ELSE executed[t])
           /\ RM!Refilled[t] \in Int
           /\ t \in Released => t \in Listed /\ state[t] # BLOCKED
  <1> USE DEF READY, RUNNING, BLOCKED, DONE, SYS
  <1>1. capacity[t] \in Int /\ executed[t] \in Nat
    BY DEF IInv, TypeOK, Objects
  <1>2. RM!Refilled[t] = IF /\ t \in Listed /\ state[t] # BLOCKED
                            /\ capacity[t] - executed[t] = 0
                            /\ rt_time % period[t] = 0
                         THEN capacity[t] ELSE capacity[t] - executed[t]
    BY DEF RM!Refilled
  <1>3. CASE t \notin allocated
    <2>1. t \notin Listed /\ t \notin Released
      BY <1>3, SwitchFacts
    <2> QED
      BY <1>1, <1>2, <2>1
  <1>4. CASE t \in allocated /\ t \in Released
    <2>1. Retired[t] = DONE /\ executed[t] = capacity[t] /\ t \in Listed
      BY <1>4, RetiredFacts, SwitchFacts
    <2>2. rt_time % period[t] = 0
      BY <1>4 DEF Released
    <2>3. state[t] # BLOCKED
      BY <1>4, <2>1, RetiredFacts DEF IInv, BudgetInv
    <2> QED
      BY <1>1, <1>2, <1>4, <2>1, <2>2, <2>3
  <1>5. CASE t \in allocated /\ t \notin Released
    <2>1. ASSUME t \in Listed, state[t] # BLOCKED, executed[t] = capacity[t], rt_time % period[t] = 0
          PROVE  FALSE
      <3>1. Retired[t] # DONE
        BY <1>5, <2>1 DEF Released
      <3>2. state[t] \in {READY, RUNNING} /\ ~ (Exhausted /\ t = rt_running_task)
        BY <1>5, <2>1, <3>1, RetiredFacts
      <3> QED
        BY <1>5, <2>1, <3>2, RetiredFacts DEF IInv, BudgetInv
    <2> QED
      BY <1>1, <1>2, <1>5, <2>1
  <1> QED
    BY <1>1, <1>2, <1>3, <1>4, <1>5

(* The tasks with budget are the contenders and the incumbent. *)
LEMMA RunnableTasks ==
    ASSUME IInv, ContextSwitch
    PROVE  RM!Runnable = {t \in Contenders \cup ({Incumbent} \ {Idle}) : period[t] < IdlePeriod}
  <1> USE DEF READY, RUNNING, BLOCKED, DONE, SYS
  <1> DEFINE current == IF rt_running_task \in Tasks THEN rt_running_task ELSE Idle
             competing == {t \in Listed : state[t] # BLOCKED}
  <1>1. current = rt_running_task /\ allocated \subseteq Tasks /\ Idle \notin allocated
    BY SwitchFacts, TasksAssumption DEF IInv, TypeOK
  <1>2. /\ Listed \subseteq allocated /\ Contenders \subseteq Listed
        /\ rt_running_task \in allocated \cup {Idle}
        /\ Incumbent \in {rt_running_task, Idle}
    BY SwitchFacts
  <1>3. ASSUME NEW t \in allocated
        PROVE  RM!Refilled[t] > 0 <=> t \in Released \/ executed[t] < capacity[t]
    BY <1>1, RefilledBudget, RetiredFacts
  <1>4. ASSUME NEW t \in Contenders
        PROVE  t \in competing /\ RM!Refilled[t] > 0
    <2>1. t \in allocated /\ t \in Listed
      BY <1>2
    <2>2. CASE t \in Released
      BY <1>1, <1>3, <2>1, <2>2, RefilledBudget
    <2>3. CASE t \notin Released
      <3>1. Retired[t] \in {READY, RUNNING} /\ Retired[t] = state[t]
        BY <2>1, <2>3, RetiredFacts DEF Contenders
      <3>2. executed[t] < capacity[t]
        BY <2>1, <3>1, RetiredFacts DEF IInv, BudgetInv
      <3> QED
        BY <1>3, <2>1, <3>1, <3>2
    <2> QED
      BY <2>2, <2>3
  <1>5. ASSUME Incumbent # Idle
        PROVE  Incumbent = current /\ RM!Refilled[Incumbent] > 0
    <2>1. Incumbent = rt_running_task /\ ~ Exhausted /\ Incumbent \in allocated
      BY <1>2, <1>5 DEF Incumbent
    <2> QED
      BY <1>1, <1>3, <2>1, RetiredFacts
  <1>6. ASSUME NEW t \in competing \cup ({current} \ {Idle}), RM!Refilled[t] > 0
        PROVE  t \in Contenders \cup ({Incumbent} \ {Idle})
    <2>1. t \in allocated
      BY <1>1, <1>2
    <2>2. CASE t \in Released
      BY <2>2 DEF Contenders
    <2>3. CASE t \notin Released
      <3>1. executed[t] < capacity[t]
        BY <1>3, <1>6, <2>1, <2>3
      <3>2. Retired[t] = state[t] /\ state[t] # DONE /\ ~ (Exhausted /\ t = rt_running_task)
        BY <2>1, <3>1, RetiredFacts DEF IInv, BudgetInv
      <3>3. CASE t \in competing
        BY <3>2, <3>3 DEF Contenders
      <3>4. CASE t \in {current} \ {Idle}
        BY <1>1, <3>2, <3>4 DEF Incumbent
      <3> QED
        BY <3>3, <3>4
    <2> QED
      BY <2>2, <2>3
  <1>7. RM!Runnable = {t \in competing \cup ({current} \ {Idle}) :
                          RM!Refilled[t] > 0 /\ period[t] < IdlePeriod}
    BY <1>1, <1>2 DEF RM!Runnable
  <1> HIDE DEF current, competing
  <1> QED
    BY <1>4, <1>5, <1>6, <1>7

(* What a tick does to the clock and to the set of competing tasks. *)
LEMMA SwitchHidden ==
    ASSUME IInv, ContextSwitch
    PROVE  /\ rt_time' = (IF rt_time = IntMax THEN - IntMax - 1 ELSE rt_time + 1)
           /\ UNCHANGED {t \in Listed : state[t] # BLOCKED}
           /\ UNCHANGED <<period, capacity>>
  <1> USE DEF READY, RUNNING, BLOCKED, DONE, SYS
  <1>1. rt_time' = (IF rt_time = IntMax THEN - IntMax - 1 ELSE rt_time + 1)
    BY NumbersAssumption DEF IInv, TypeOK, ContextSwitch, Wrap
  <1>2. Listed' = Listed /\ UNCHANGED <<period, capacity>>
    BY DEF ContextSwitch, Listed, fields
  <1>3. ASSUME NEW t \in Listed
        PROVE  state'[t] = BLOCKED <=> state[t] = BLOCKED
    <2>1. /\ t \in allocated /\ t \in Objects
          /\ state'[t] = IF t = rt_running_task' THEN RUNNING
                         ELSE IF t \in Released THEN READY ELSE Retired[t]
      BY SwitchFacts, RetiredFacts
    <2>2. state[t] = BLOCKED => Retired[t] = BLOCKED
      BY <2>1, RetiredFacts DEF IInv, BudgetInv
    <2>3. state[t] = BLOCKED => t # rt_running_task' /\ t \notin Released
      BY <2>1, <2>2, RetiredFacts, SwitchFacts DEF IInv, BudgetInv, Contenders, Incumbent, Released
    <2> QED
      BY <2>1, <2>2, <2>3, RetiredFacts
  <1> QED
    BY <1>1, <1>2, <1>3

(* A tick: the election picks a runnable task of least period, and nobody  *)
(* only when there is none; the dispatched task alone pays for the tick.   *)
LEMMA ContextSwitchRefines ==
    ASSUME IInv, ContextSwitch
    PROVE  RM!Tick
  <1> DEFINE next == rt_running_task'
  <1>1. /\ next \in allocated \cup {Idle} /\ Idle \notin allocated /\ allocated \subseteq Tasks
        /\ Idle \notin Tasks /\ allocated' = allocated
    BY SwitchFacts, TasksAssumption DEF IInv, TypeOK, ContextSwitch
  <1>2. /\ Contenders \subseteq allocated /\ Incumbent \in allocated \cup {Idle}
        /\ \A t \in allocated \cup {Idle} : period[t] \in Nat
        /\ period[Idle] = IdlePeriod
    BY <1>1, SwitchFacts DEF IInv, TypeOK, Setup, Objects, ContextSwitch
  <1>3. (IF rt_running_task' \in Tasks THEN rt_running_task' ELSE Idle) = next
    BY <1>1
  <1>4. \A t \in Tasks : capacity'[t] - executed'[t] =
           RM!Refilled[t] - (IF t = next THEN 1 ELSE 0)
    <2> SUFFICES ASSUME NEW t \in Tasks
                 PROVE  capacity'[t] - executed'[t] = RM!Refilled[t] - (IF t = next THEN 1 ELSE 0)
      OBVIOUS
    <2>1. capacity[t] \in Int /\ executed[t] \in Nat /\ capacity' = capacity
      BY DEF IInv, TypeOK, Objects, ContextSwitch, fields
    <2>2. executed'[t] = (IF t \in Released THEN 0 ELSE executed[t]) + (IF t = next THEN 1 ELSE 0)
      BY SwitchFacts
    <2> QED
      BY <2>1, <2>2, RefilledBudget
  <1>5. CASE next = Idle
    <2>1. Incumbent = Idle /\ \A u \in Contenders : period[u] >= period[Incumbent]
      BY <1>1, <1>2, <1>5, SwitchFacts DEF Elected
    <2>2. RM!Runnable = {}
      BY <1>2, <2>1, RunnableTasks, NumbersAssumption
    <2>3. [t \in Tasks |-> capacity'[t] - executed'[t]] = RM!Refilled
      <3>1. \A t \in Tasks : capacity'[t] - executed'[t] = RM!Refilled[t]
        <4>1. \A t \in Tasks : RM!Refilled[t] \in Int /\ t # next
          BY <1>1, <1>5, RefilledBudget
        <4> QED
          BY <1>4, <4>1
      <3>2. RM!Refilled = [t \in Tasks |-> RM!Refilled[t]]
        BY Zenon DEF RM!Refilled
      <3> QED
        BY <3>1, <3>2, Zenon
    <2>4. /\ rt_time' = (IF rt_time = IntMax THEN - IntMax - 1 ELSE rt_time + 1)
          /\ UNCHANGED {t \in Listed : state[t] # BLOCKED}
          /\ UNCHANGED <<period, capacity>>
      BY SwitchHidden
    <2> QED
      BY <1>3, <1>5, <2>2, <2>3, <2>4, Zenon DEF RM!Tick
  <1>6. CASE next # Idle
    <2>1. next \in RM!Runnable /\ \A u \in RM!Runnable : period[next] <= period[u]
      <3>1. next \in Contenders \cup ({Incumbent} \ {Idle}) /\ period[next] < IdlePeriod
        BY <1>1, <1>6, SwitchFacts, DispatchedBelowIdle
      <3>2. \A u \in Contenders \cup {Incumbent} : period[next] <= period[u]
        BY <1>1, <1>2, <1>6, SwitchFacts DEF Elected, Listed, ToSet
      <3> QED
        BY <3>1, <3>2, RunnableTasks
    <2>2. \A u \in RM!Runnable : u \in Tasks
      BY <1>1, <1>2, RunnableTasks
    <2>3. [t \in Tasks |-> capacity'[t] - executed'[t]] = [RM!Refilled EXCEPT ![next] = @ - 1]
      <3>1. \A t \in Tasks : capacity'[t] - executed'[t] =
               IF t = next THEN RM!Refilled[t] - 1 ELSE RM!Refilled[t]
        <4>1. \A t \in Tasks : RM!Refilled[t] \in Int
          BY RefilledBudget
        <4> QED
          BY <1>4, <4>1
      <3>2. RM!Refilled = [t \in Tasks |-> RM!Refilled[t]]
        BY Zenon DEF RM!Refilled
      <3> QED
        BY <3>1, <3>2, Zenon
    <2>4. /\ rt_time' = (IF rt_time = IntMax THEN - IntMax - 1 ELSE rt_time + 1)
          /\ UNCHANGED {t \in Listed : state[t] # BLOCKED}
          /\ UNCHANGED <<period, capacity>>
      BY SwitchHidden
    <2>5. /\ next \in Tasks
          /\ \A u \in RM!Runnable : [t \in Tasks |-> period[t]][next] <= [t \in Tasks |-> period[t]][u]
      BY <2>1, <2>2
    <2> QED
      BY <1>3, <2>1, <2>3, <2>4, <2>5 DEF RM!Tick
  <1> QED
    BY <1>5, <1>6

(* The kernel is a rate-monotonic scheduler with budgets: rt_add_task,     *)
(* rt_del_task and every tick do what RateMonotonic allows, and rt_start   *)
(* is invisible.                                                           *)
THEOREM KernelRefines == Spec => ImplementsRateMonotonic
  <1>1. IInv /\ [Next]_vars => [RM!Next]_(RM!vars)
    <2> SUFFICES ASSUME IInv, [Next]_vars PROVE [RM!Next]_(RM!vars)
      OBVIOUS
    <2>1. ASSUME NEW t \in Tasks, NEW f \in Functions, NEW p \in Periods, NEW c \in Capacities,
                 NEW s \in States, AddTask(t, f, p, c, s)
          PROVE  RM!Next
      <3>1. RM!Admit(t, s = BLOCKED)
        BY <2>1, AddTaskRefines
      <3>2. (s = BLOCKED) \in BOOLEAN
        OBVIOUS
      <3>3. \E parked \in BOOLEAN : RM!Admit(t, parked)
        BY <3>1, <3>2, Zenon DEF RM!Admit
      <3> QED
        BY <3>3, Zenon DEF RM!Next
    <2>2. ASSUME NEW pos \in 0 .. Len(rt_list_task), DelTask(pos)
          PROVE  RM!Next
      <3>1. pos \in Nat
        BY LenProperties DEF IInv, TypeOK
      <3> QED
        BY <2>2, <3>1, DelTaskRefines DEF RM!Next
    <2>3. CASE ContextSwitch
      BY <2>3, ContextSwitchRefines DEF RM!Next
    <2>4. CASE StartInit \/ StartSlot \/ StartClock
      BY <2>4, StartRefines
    <2>5. CASE UNCHANGED vars
      BY <2>5 DEF vars, fields, RM!vars, Listed
    <2> QED
      BY <2>1, <2>2, <2>3, <2>4, <2>5 DEF Next
  <1> QED
    BY <1>1, InitRefines, KernelInvariant, PTL DEF Spec, RM!Spec, ImplementsRateMonotonic
=============================================================================
