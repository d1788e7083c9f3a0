--------------------------- MODULE RtKernelProofs ---------------------------
(***************************************************************************)
(* Proofs about RtKernel for any number of tasks, any periods and          *)
(* capacities, and any width of rt_time.                                   *)
(***************************************************************************)
EXTENDS RtKernel, SequenceTheorems, WellFoundedInduction, TLAPS

(* Removing a position closes the gap and keeps the order. *)
LEMMA RemoveAtFacts ==
    ASSUME NEW S, NEW s \in Seq(S), NEW n \in 1 .. Len(s)
    PROVE  /\ RemoveAt(s, n) \in Seq(S)
           /\ Len(RemoveAt(s, n)) = Len(s) - 1
           /\ \A i \in 1 .. Len(s) - 1 :
                 RemoveAt(s, n)[i] = IF i < n THEN s[i] ELSE s[i + 1]
  <1> DEFINE a == SubSeq(s, 1, n - 1)
             b == SubSeq(s, n + 1, Len(s))
  <1>0. Len(s) \in Nat /\ n \in Nat /\ n >= 1 /\ n <= Len(s)
    BY LenProperties
  <1>1. /\ a \in Seq(S) /\ Len(a) = n - 1
        /\ \A i \in 1 .. n - 1 : a[i] = s[i]
    BY <1>0
  <1>2. /\ b \in Seq(S) /\ Len(b) = Len(s) - n
        /\ \A i \in 1 .. Len(s) - n : b[i] = s[n + i]
    BY <1>0
  <1>3. RemoveAt(s, n) = a \o b
    BY DEF RemoveAt
  <1> HIDE DEF a, b
  <1>4. /\ a \o b \in Seq(S)
        /\ Len(a \o b) = Len(s) - 1
    <2>1. a \o b \in Seq(S) /\ Len(a \o b) = Len(a) + Len(b)
      BY <1>1, <1>2, ConcatProperties
    <2>2. (n - 1) + (Len(s) - n) = Len(s) - 1
      BY <1>0
    <2> QED
      BY <1>1, <1>2, <2>1, <2>2
  <1>5. ASSUME NEW i \in 1 .. Len(s) - 1
        PROVE  (a \o b)[i] = IF i < n THEN s[i] ELSE s[i + 1]
    <2>1. (a \o b)[i] = IF i <= Len(a) THEN a[i] ELSE b[i - Len(a)]
      BY <1>0, <1>1, <1>2, ConcatProperties
    <2>2. CASE i < n
      BY <2>1, <2>2, <1>0, <1>1
    <2>3. CASE ~ (i < n)
      <3>1. i - Len(a) = i - n + 1 /\ i - n + 1 \in 1 .. Len(s) - n
        BY <2>3, <1>0, <1>1
      <3> QED
        BY <3>1, <2>1, <2>3, <1>0, <1>1, <1>2
    <2> QED
      BY <2>2, <2>3
  <1> QED
    BY <1>3, <1>4, <1>5

NoRepeats(list) == \A i, j \in DOMAIN list : list[i] = list[j] => i = j

(* list_append of a task that is not on the list. *)
LEMMA ListAppend ==
    ASSUME NEW list \in Seq(Tasks), NoRepeats(list), NEW t \in Tasks, t \notin ToSet(list)
    PROVE  /\ Append(list, t) \in Seq(Tasks)
           /\ Len(Append(list, t)) = Len(list) + 1
           /\ ToSet(Append(list, t)) = ToSet(list) \cup {t}
           /\ NoRepeats(Append(list, t))
  <1>1. /\ Append(list, t) \in Seq(Tasks)
        /\ Len(Append(list, t)) = Len(list) + 1
        /\ DOMAIN Append(list, t) = 1 .. Len(list) + 1
        /\ DOMAIN list = 1 .. Len(list)
        /\ \A i \in 1 .. Len(list) : Append(list, t)[i] = list[i]
        /\ Append(list, t)[Len(list) + 1] = t
    BY AppendProperties, LenProperties
  <1>2. Len(list) \in Nat
    BY LenProperties
  <1>3. DOMAIN Append(list, t) = DOMAIN list \cup {Len(list) + 1}
    BY <1>1, <1>2
  <1>4. ToSet(Append(list, t)) = ToSet(list) \cup {t}
    <2>1. Append(list, t)[Len(list) + 1] = t /\ \A i \in DOMAIN list : Append(list, t)[i] = list[i]
      BY <1>1
    <2> QED
      BY <2>1, <1>3, Zenon DEF ToSet
  <1>5. NoRepeats(Append(list, t))
    <2>1. \A i \in DOMAIN list : list[i] # t
      BY DEF ToSet
    <2>2. \A i \in DOMAIN Append(list, t) :
             \/ i \in DOMAIN list /\ Append(list, t)[i] = list[i]
             \/ i = Len(list) + 1 /\ Append(list, t)[i] = t
      BY <1>1, <1>3, Zenon
    <2> QED
      BY <2>1, <2>2, Zenon DEF NoRepeats
  <1> QED
    BY <1>1, <1>4, <1>5

(* list_remove of a position that exists. *)
LEMMA ListRemove ==
    ASSUME NEW list \in Seq(Tasks), NoRepeats(list), NEW n \in DOMAIN list
    PROVE  /\ RemoveAt(list, n) \in Seq(Tasks)
           /\ ToSet(RemoveAt(list, n)) = ToSet(list) \ {list[n]}
           /\ NoRepeats(RemoveAt(list, n))
  <1> DEFINE rest == RemoveAt(list, n)
  <1>1. Len(list) \in Nat /\ DOMAIN list = 1 .. Len(list)
    BY LenProperties
  <1>2. /\ rest \in Seq(Tasks)
        /\ Len(rest) = Len(list) - 1
        /\ \A i \in 1 .. Len(list) - 1 : rest[i] = IF i < n THEN list[i] ELSE list[i + 1]
    BY <1>1, RemoveAtFacts
  <1>3. DOMAIN rest = 1 .. Len(list) - 1
    BY <1>2, LenProperties
  <1> HIDE DEF rest
  <1>4. ToSet(rest) = ToSet(list) \ {list[n]}
    <2>1. ASSUME NEW i \in DOMAIN rest
          PROVE  \E j \in DOMAIN list \ {n} : rest[i] = list[j]
      <3>1. i \in 1 .. Len(list) - 1 /\ i \in DOMAIN list /\ i + 1 \in DOMAIN list
        BY <1>1, <1>3
      <3>2. CASE i < n
        BY <3>1, <3>2, <1>1, <1>2
      <3>3. CASE ~ (i < n)
        BY <3>1, <3>3, <1>1, <1>2
      <3> QED
        BY <3>2, <3>3
    <2>2. ASSUME NEW j \in DOMAIN list, j # n
          PROVE  \E i \in DOMAIN rest : rest[i] = list[j]
      <3>1. CASE j < n
        <4>1. j \in DOMAIN rest /\ rest[j] = list[j]
          BY <3>1, <1>1, <1>2, <1>3
        <4> QED
          BY <4>1
      <3>2. CASE ~ (j < n)
        <4>1. j - 1 \in DOMAIN rest /\ rest[j - 1] = list[j]
          BY <2>2, <3>2, <1>1, <1>2, <1>3
        <4> QED
          BY <4>1
      <3> QED
        BY <3>1, <3>2
    <2>3. \A j \in DOMAIN list : list[j] = list[n] => j = n
      BY DEF NoRepeats
    <2> QED
      BY <2>1, <2>2, <2>3, Zenon DEF ToSet
  <1>5. NoRepeats(rest)
    <2>1. ASSUME NEW i \in DOMAIN rest, NEW j \in DOMAIN rest, i < j
          PROVE  rest[i] # rest[j]
      <3> DEFINE a == IF i < n THEN i ELSE i + 1
                 b == IF j < n THEN j ELSE j + 1
      <3>1. i \in 1 .. Len(list) - 1 /\ j \in 1 .. Len(list) - 1 /\ n \in 1 .. Len(list)
        BY <1>1, <1>3
      <3>2. a \in DOMAIN list /\ b \in DOMAIN list /\ a # b
        BY <1>1, <2>1, <3>1
      <3>3. rest[i] = list[a] /\ rest[j] = list[b]
        BY <1>2, <3>1
      <3> HIDE DEF a, b
      <3> QED
        BY <3>2, <3>3, Zenon DEF NoRepeats
    <2>2. \A i, j \in DOMAIN rest : i < j \/ j < i \/ i = j
      BY <1>1, <1>3
    <2> QED
      BY <2>1, <2>2, Zenon DEF NoRepeats
  <1> QED
    BY <1>2, <1>4, <1>5 DEF rest
-----------------------------------------------------------------------------
(* What the budget and type invariants rest on: the checks of rt_add_task  *)
(* held for every task, new memory is zeroed, and rt_start set up the idle *)
(* task.                                                                   *)
Setup ==
    /\ \A t \in allocated :
          /\ period[t] \in Nat \ {0}
          /\ capacity[t] \in 1 .. period[t]
          /\ function[t] \in Functions
          /\ state[t] # SYS
    /\ \A t \in Tasks \ allocated : executed[t] = 0
    /\ rt_running_task \in allocated => period[rt_running_task] < IdlePeriod
    /\ phase = "create" => rt_running_task = Null /\ rt_time = 0
    /\ phase # "create" =>
          rt_running_task # Null /\ id[Idle] = -1 /\ period[Idle] = IdlePeriod
    /\ phase = "start" => rt_running_id >= 1

IInv == TypeOK /\ Setup /\ BudgetInv

LEMMA InitIInv == Init => IInv
  <1> SUFFICES ASSUME Init PROVE IInv
    OBVIOUS
  <1> USE DEF Init
  <1>1. rt_list_task \in Seq(Tasks) /\ DOMAIN rt_list_task = {} /\ Listed = {}
    BY DEF Listed, ToSet
  <1>2. rt_jmp \in [DOMAIN rt_jmp -> Contexts]
    BY DOMAIN <<>> = {}
  <1>3. TypeOK
    BY <1>1, <1>2, TasksAssumption, NumbersAssumption DEF TypeOK, Contexts, States, READY, Objects
  <1>4. Setup /\ BudgetInv
    BY DEF Setup, BudgetInv
  <1> QED
    BY <1>3, <1>4 DEF IInv

LEMMA AddTaskIInv ==
    ASSUME IInv, NEW t \in Tasks, NEW f \in Functions, NEW p \in Periods, NEW c \in Capacities,
           NEW s \in States, AddTask(t, f, p, c, s)
    PROVE  IInv'
  <1> USE DEF AddTask, READY, RUNNING, BLOCKED, DONE, SYS
  <1>1. TypeOK /\ Setup /\ BudgetInv
    BY DEF IInv
  <1>2. t \notin Listed /\ t # Idle /\ t # rt_running_task
    BY <1>1, TasksAssumption DEF TypeOK
  <1>3. /\ rt_list_task' \in Seq(Tasks)
        /\ Listed' = Listed \cup {t}
        /\ NoRepeats(rt_list_task')
    BY <1>1, <1>2, ListAppend DEF TypeOK, Listed, NoRepeats
  <1>4. p \in Nat \ {0} /\ c \in 1 .. p /\ s \in {READY, BLOCKED}
    BY NumbersAssumption
  <1>5. TypeOK'
    <2>0. p \in Nat /\ c \in Int /\ rt_running_id \in Int
      BY <1>1, <1>4 DEF TypeOK
    <2>1. /\ id' \in [Objects -> Int] /\ period' \in [Objects -> Nat]
          /\ capacity' \in [Objects -> Int]
      BY <1>1, <2>0 DEF TypeOK
    <2>2. /\ function' \in [Objects -> Functions \cup {NoFunction}]
          /\ state' \in [Objects -> States]
      BY <1>1 DEF TypeOK
    <2>3. \A i, j \in DOMAIN rt_list_task' : rt_list_task'[i] = rt_list_task'[j] => i = j
      BY <1>3 DEF NoRepeats
    <2>4. Listed' \subseteq allocated' /\ allocated' \subseteq Tasks
      BY <1>1, <1>3 DEF TypeOK
    <2>5. /\ phase' = phase /\ executed' = executed /\ rt_running_task' = rt_running_task
          /\ rt_time' = rt_time /\ rt_jmp' = rt_jmp /\ cpu' = cpu
          /\ allocated' = allocated \cup {t} /\ rt_running_id' \in Int
      BY <2>0
    <2> HIDE DEF AddTask
    <2> QED
      BY <1>1, <1>3, <2>1, <2>2, <2>3, <2>4, <2>5 DEF TypeOK
  <1>6. Setup'
    <2>0. t \in Objects
      BY DEF Objects
    <2>1. /\ \A u \in Objects \ {t} :
                /\ id'[u] = id[u] /\ period'[u] = period[u] /\ capacity'[u] = capacity[u]
                /\ function'[u] = function[u] /\ state'[u] = state[u]
          /\ period'[t] = p /\ capacity'[t] = c /\ function'[t] = f /\ state'[t] = s
      <3>1. /\ id' = [id EXCEPT ![t] = rt_running_id] /\ period' = [period EXCEPT ![t] = p]
            /\ capacity' = [capacity EXCEPT ![t] = c] /\ function' = [function EXCEPT ![t] = f]
            /\ state' = [state EXCEPT ![t] = s]
        OBVIOUS
      <3>2. /\ DOMAIN id = Objects /\ DOMAIN period = Objects /\ DOMAIN capacity = Objects
            /\ DOMAIN function = Objects /\ DOMAIN state = Objects
        BY <1>1 DEF TypeOK
      <3> HIDE DEF AddTask
      <3> QED
        BY <2>0, <3>1, <3>2
    <2>2. ASSUME NEW u \in allocated'
          PROVE  /\ period'[u] \in Nat \ {0} /\ capacity'[u] \in 1 .. period'[u]
                 /\ function'[u] \in Functions /\ state'[u] # SYS
      <3>1. CASE u = t
        BY <2>1, <3>1, <1>4
      <3>2. CASE u # t
        <4>1. u \in allocated /\ u \in Objects
          BY <1>1, <2>2, <3>2 DEF TypeOK, Objects
        <4> QED
          BY <1>1, <2>1, <3>2, <4>1 DEF Setup
      <3> QED
        BY <3>1, <3>2
    <2>3. \A u \in Tasks \ allocated' : executed'[u] = 0
      BY <1>1 DEF Setup
    <2>4. rt_running_task' \in allocated' => period'[rt_running_task'] < IdlePeriod
      <3>1. rt_running_task' = rt_running_task /\ allocated' = allocated \cup {t}
        OBVIOUS
      <3>2. ASSUME rt_running_task \in allocated
            PROVE  period'[rt_running_task] = period[rt_running_task]
        BY <1>1, <1>2, <2>1, <3>2 DEF TypeOK, Objects
      <3> QED
        BY <1>1, <1>2, <3>1, <3>2 DEF Setup
    <2>5. id'[Idle] = id[Idle] /\ period'[Idle] = period[Idle]
      BY <1>2, <2>1 DEF Objects
    <2>6. /\ phase' = "create" => rt_running_task' = Null /\ rt_time' = 0
          /\ phase' # "create" =>
                rt_running_task' # Null /\ id'[Idle] = -1 /\ period'[Idle] = IdlePeriod
      BY <1>1, <2>5 DEF Setup
    <2>7. phase' = "start" => rt_running_id' >= 1
      BY <1>1 DEF Setup, TypeOK
    <2> QED
      BY <2>2, <2>3, <2>4, <2>6, <2>7 DEF Setup
  <1>7. BudgetInv'
    <2>1. executed[t] = 0
      BY <1>1 DEF Setup
    <2> QED
      BY <1>1, <1>2, <1>4, <2>1 DEF TypeOK, BudgetInv, Objects
  <1> QED
    BY <1>5, <1>6, <1>7 DEF IInv

(* rt_del_task takes the task at that position off the list. *)
LEMMA DelTaskList ==
    ASSUME IInv, NEW pos \in Nat, DelTask(pos)
    PROVE  /\ rt_list_task' \in Seq(Tasks)
           /\ Listed' = Listed \ {rt_list_task[pos + 1]}
           /\ NoRepeats(rt_list_task')
  <1>1. rt_list_task \in Seq(Tasks) /\ NoRepeats(rt_list_task)
    BY DEF IInv, TypeOK, NoRepeats
  <1>2. pos + 1 \in DOMAIN rt_list_task /\ rt_list_task' = RemoveAt(rt_list_task, pos + 1)
    BY DEF DelTask
  <1>3. /\ RemoveAt(rt_list_task, pos + 1) \in Seq(Tasks)
        /\ ToSet(RemoveAt(rt_list_task, pos + 1)) = ToSet(rt_list_task) \ {rt_list_task[pos + 1]}
        /\ NoRepeats(RemoveAt(rt_list_task, pos + 1))
    BY <1>1, <1>2, ListRemove, Zenon
  <1> QED
    BY <1>2, <1>3, Zenon DEF Listed

LEMMA DelTaskIInv ==
    ASSUME IInv, NEW pos \in 0 .. Len(rt_list_task), DelTask(pos)
    PROVE  IInv'
  <1> USE DEF DelTask, fields
  <1>1. TypeOK /\ Setup /\ BudgetInv
    BY DEF IInv
  <1>2. /\ rt_list_task' \in Seq(Tasks)
        /\ Listed' \subseteq Listed
        /\ NoRepeats(rt_list_task')
    BY DelTaskList, LenProperties, <1>1 DEF TypeOK
  <1>3. TypeOK'
    BY <1>1, <1>2 DEF TypeOK, NoRepeats
  <1>4. Setup' /\ BudgetInv'
    BY <1>1 DEF Setup, BudgetInv
  <1> QED
    BY <1>3, <1>4 DEF IInv

LEMMA StartInitIInv ==
    ASSUME IInv, StartInit
    PROVE  IInv'
  <1> USE DEF StartInit
  <1>1. TypeOK /\ Setup /\ BudgetInv
    BY DEF IInv
  <1>2. Idle \notin allocated /\ Null \notin allocated /\ Idle \in Objects /\ Idle # Null
    BY <1>1, TasksAssumption DEF TypeOK, Objects
  <1>3. rt_jmp' \in [DOMAIN rt_jmp' -> Contexts]
    BY DEF Contexts
  <1>4. -1 \in Int /\ IdlePeriod \in Nat /\ 0 \in - IntMax - 1 .. IntMax
    BY NumbersAssumption
  <1>5. Listed' = Listed
    BY DEF Listed
  <1>6. TypeOK'
    BY <1>1, <1>2, <1>3, <1>4, <1>5 DEF TypeOK, States, SYS
  <1>7. Setup'
    BY <1>1, <1>2 DEF TypeOK, Setup
  <1>8. BudgetInv'
    <2>1. ASSUME NEW t \in allocated
          PROVE  /\ state'[t] = state[t] /\ capacity'[t] = capacity[t]
                 /\ t # rt_running_task /\ t # rt_running_task'
      BY <1>1, <1>2 DEF TypeOK, Setup, Objects
    <2> QED
      BY <1>1, <2>1 DEF BudgetInv
  <1> QED
    BY <1>6, <1>7, <1>8 DEF IInv

LEMMA StartSlotIInv ==
    ASSUME IInv, StartSlot
    PROVE  IInv'
  <1> USE DEF StartSlot, fields
  <1>1. TypeOK /\ Setup /\ BudgetInv
    BY DEF IInv
  <1>2. rt_list_task # <<>> /\ Head(rt_list_task) \in Tasks
    BY <1>1, LenProperties, HeadTailProperties DEF TypeOK, Setup
  <1>3. function[Head(rt_list_task)] \in Contexts
    BY <1>1, <1>2 DEF TypeOK, Objects, Contexts
  <1>4. rt_jmp' \in [DOMAIN rt_jmp' -> Contexts]
    BY <1>1, <1>3 DEF TypeOK
  <1>5. Listed' = Listed
    BY DEF Listed
  <1>6. TypeOK'
    BY <1>1, <1>4, <1>5 DEF TypeOK
  <1>7. Setup' /\ BudgetInv'
    BY <1>1 DEF TypeOK, Setup, BudgetInv
  <1> QED
    BY <1>6, <1>7 DEF IInv

LEMMA StartClockIInv ==
    ASSUME IInv, StartClock
    PROVE  IInv'
  BY DEF IInv, StartClock, fields, TypeOK, Listed, Setup, BudgetInv

(* What rt_context_switch finds, and what it leaves behind for the task it *)
(* dispatches: shared by every proof about a tick.                         *)
LEMMA SwitchFacts ==
    ASSUME IInv, ContextSwitch
    PROVE  /\ rt_running_task \in allocated \cup {Idle}
           /\ Listed \subseteq allocated
           /\ Contenders \subseteq Listed
           /\ Released \subseteq Listed
           /\ Incumbent \in {rt_running_task, Idle}
           /\ rt_running_task' \in Contenders \cup {Incumbent}
           /\ Elected(rt_running_task')
           /\ state' = [t \in Objects |-> IF t = rt_running_task' THEN RUNNING
                                          ELSE IF t \in Released THEN READY ELSE Retired[t]]
           /\ executed' = [t \in Tasks |-> (IF t \in Released THEN 0 ELSE executed[t])
                                           + (IF t = rt_running_task' THEN 1 ELSE 0)]
           /\ rt_running_id' = id[rt_running_task']
           /\ cpu' = Saved(id[rt_running_task'] + SYS_BUFFER)
  <1>1. rt_running_task \in allocated \cup {Idle} /\ Listed \subseteq allocated
    BY DEF IInv, TypeOK, Setup, ContextSwitch
  <1>2. /\ Contenders \subseteq Listed /\ Released \subseteq Listed
        /\ Incumbent \in {rt_running_task, Idle}
    BY DEF Contenders, Released, Incumbent
  <1>3. PICK next \in Contenders \cup {Incumbent} :
          /\ Elected(next)
          /\ rt_running_task' = next
          /\ rt_running_id' = id[next]
          /\ state' = [t \in Objects |-> IF t = next THEN RUNNING
                                         ELSE IF t \in Released THEN READY ELSE Retired[t]]
          /\ executed' = [t \in Tasks |-> (IF t \in Released THEN 0 ELSE executed[t])
                                          + (IF t = next THEN 1 ELSE 0)]
          /\ cpu' = Saved(id[next] + SYS_BUFFER)
    BY DEF ContextSwitch
  <1> QED
    BY <1>1, <1>2, <1>3

(* What a retired or kept task looks like, and what a released one had.    *)
LEMMA RetiredFacts ==
    ASSUME IInv, ContextSwitch, NEW t \in allocated
    PROVE  /\ t \in Objects /\ t # Idle
           /\ capacity[t] \in Nat \ {0} /\ period[t] \in Nat \ {0} /\ executed[t] \in Nat
           /\ state[t] \in {READY, RUNNING, BLOCKED, DONE}
           /\ Retired[t] = IF Exhausted /\ t = rt_running_task THEN DONE ELSE state[t]
           /\ Exhausted /\ t = rt_running_task => executed[t] = capacity[t]
           /\ ~ Exhausted /\ t = rt_running_task => executed[t] < capacity[t]
           /\ t \in Released => Retired[t] = DONE
           /\ Retired[t] = DONE => executed[t] = capacity[t]
  <1> USE DEF READY, RUNNING, BLOCKED, DONE, SYS
  <1>1. TypeOK /\ Setup /\ BudgetInv
    BY DEF IInv
  <1>2. t \in Tasks /\ t \in Objects /\ t # Idle
    BY <1>1, TasksAssumption DEF TypeOK, Objects
  <1>3. period[t] \in Nat \ {0} /\ capacity[t] \in 1 .. period[t]
    BY <1>1 DEF Setup
  <1>4. capacity[t] \in Nat \ {0} /\ executed[t] \in Nat
    BY <1>1, <1>2, <1>3 DEF TypeOK
  <1>5. state[t] \in {READY, RUNNING, BLOCKED, DONE}
    BY <1>1, <1>2 DEF TypeOK, Setup, States
  <1>6. Retired[t] = IF Exhausted /\ t = rt_running_task THEN DONE ELSE state[t]
    BY <1>1, <1>2 DEF TypeOK, Retired
  <1>7. Exhausted /\ t = rt_running_task => executed[t] = capacity[t]
    BY DEF Exhausted
  <1>8. ~ Exhausted /\ t = rt_running_task => executed[t] < capacity[t]
    BY <1>1, <1>2, <1>4, <1>5 DEF Exhausted, BudgetInv, Setup
  <1>9. t \in Released => Retired[t] = DONE
    BY DEF Released
  <1>10. Retired[t] = DONE => executed[t] = capacity[t]
    BY <1>1, <1>6, <1>7 DEF BudgetInv
  <1> QED
    BY <1>2, <1>3, <1>4, <1>5, <1>6, <1>7, <1>8, <1>9, <1>10

(* The task that gets the tick had budget for it. *)
LEMMA DispatchedHasBudget ==
    ASSUME IInv, ContextSwitch, NEW t \in allocated, t = rt_running_task', t \notin Released
    PROVE  executed[t] < capacity[t]
  <1> USE DEF READY, RUNNING, BLOCKED, DONE, SYS
  <1>1. BudgetInv
    BY DEF IInv
  <1>2. CASE t \in Contenders
    <2>1. Retired[t] \in {READY, RUNNING}
      BY <1>2, RetiredFacts DEF Contenders
    <2>2. ~ (Exhausted /\ t = rt_running_task) /\ state[t] \in {READY, RUNNING}
      BY <2>1, RetiredFacts
    <2> QED
      BY <1>1, <2>2, RetiredFacts DEF BudgetInv
  <1>3. CASE t = Incumbent
    <2>1. t = rt_running_task /\ ~ Exhausted
      BY <1>3, RetiredFacts DEF Incumbent
    <2> QED
      BY <2>1, RetiredFacts
  <1> QED
    BY <1>2, <1>3, SwitchFacts

(* A task is dispatched only in place of one of longer period, the idle    *)
(* task in the end.                                                        *)
LEMMA DispatchedBelowIdle ==
    ASSUME IInv, ContextSwitch, rt_running_task' \in allocated
    PROVE  period[rt_running_task'] < IdlePeriod
  <1>1. /\ rt_running_task' # Idle /\ period[Idle] = IdlePeriod
        /\ period[Incumbent] \in Nat /\ period[rt_running_task'] \in Nat
    BY SwitchFacts, TasksAssumption DEF IInv, TypeOK, Setup, Objects, ContextSwitch
  <1>2. Incumbent # Idle => period[Incumbent] < IdlePeriod
    BY SwitchFacts DEF IInv, Setup
  <1>3. rt_running_task' = Incumbent \/ period[rt_running_task'] < period[Incumbent]
    BY SwitchFacts DEF Elected
  <1> QED
    BY <1>1, <1>2, <1>3, NumbersAssumption

LEMMA ContextSwitchIInv ==
    ASSUME IInv, ContextSwitch
    PROVE  IInv'
  <1> USE DEF READY, RUNNING, BLOCKED, DONE, SYS
  <1>1. TypeOK /\ Setup /\ BudgetInv
    BY DEF IInv
  <1>2. /\ UNCHANGED <<phase, allocated, rt_list_task, id, period, capacity, function>>
        /\ phase = "run"
        /\ rt_time' = Wrap(rt_time + 1)
        /\ rt_jmp' = [rt_jmp EXCEPT ![0] = "rt_context_switch"]
    BY DEF ContextSwitch, fields
  <1>3. Listed' = Listed
    BY <1>2 DEF Listed
  <1>4. rt_running_task' \in allocated \cup {Idle} /\ rt_running_task' \in Objects
    BY <1>1, SwitchFacts DEF TypeOK, Objects
  <1>5. ASSUME NEW t \in allocated
        PROVE  /\ state'[t] = IF t = rt_running_task' THEN RUNNING
                              ELSE IF t \in Released THEN READY ELSE Retired[t]
               /\ executed'[t] = (IF t \in Released THEN 0 ELSE executed[t])
                                 + (IF t = rt_running_task' THEN 1 ELSE 0)
    BY <1>1, SwitchFacts DEF TypeOK, Objects
  <1>6. TypeOK'
    <2>1. Retired \in [Objects -> States]
      BY <1>1 DEF TypeOK, Retired, States
    <2>2. state' \in [Objects -> States]
      BY <2>1, SwitchFacts, Zenon DEF States
    <2>3. executed' \in [Tasks -> Nat]
      <3>1. executed' = [t \in Tasks |-> (IF t \in Released THEN 0 ELSE executed[t])
                                         + (IF t = rt_running_task' THEN 1 ELSE 0)]
        BY SwitchFacts
      <3>2. executed \in [Tasks -> Nat]
        BY <1>1 DEF TypeOK
      <3> QED
        BY <3>1, <3>2
    <2>4. rt_time' \in - IntMax - 1 .. IntMax
      BY <1>1, <1>2, NumbersAssumption DEF TypeOK, Wrap
    <2>5. rt_jmp' \in [DOMAIN rt_jmp' -> Contexts]
      BY <1>1, <1>2 DEF TypeOK, Contexts
    <2>6. cpu' \in Contexts
      BY <1>1, SwitchFacts DEF TypeOK, Saved, Contexts
    <2>7. rt_running_id' \in Int
      BY <1>1, <1>4, SwitchFacts DEF TypeOK
    <2> QED
      BY <1>1, <1>2, <1>3, <1>4, <2>2, <2>3, <2>4, <2>5, <2>6, <2>7 DEF TypeOK
  <1>7. Setup'
    <2>1. ASSUME NEW t \in allocated PROVE state'[t] # SYS
      BY <1>5, RetiredFacts
    <2>2. ASSUME NEW t \in Tasks \ allocated PROVE executed'[t] = 0
      <3>1. t # rt_running_task' /\ t \notin Released
        BY <1>1, <1>4, SwitchFacts, TasksAssumption DEF TypeOK
      <3> QED
        BY <1>1, <3>1, SwitchFacts DEF Setup
    <2>3. rt_running_task' # Null
      BY <1>1, <1>4, TasksAssumption DEF TypeOK
    <2>4. rt_running_task' \in allocated => period[rt_running_task'] < IdlePeriod
      BY DispatchedBelowIdle
    <2> QED
      BY <1>1, <1>2, <2>1, <2>2, <2>3, <2>4 DEF Setup
  <1>8. BudgetInv'
    <2> SUFFICES ASSUME NEW t \in allocated
                 PROVE  /\ executed'[t] <= capacity[t]
                        /\ state'[t] \in {READY, BLOCKED} => executed'[t] = 0
                        /\ state'[t] = DONE => executed'[t] = capacity[t]
                        /\ state'[t] = RUNNING => executed'[t] >= 1
                        /\ state'[t] = RUNNING /\ t # rt_running_task' => executed'[t] < capacity[t]
                        /\ t = rt_running_task' => state'[t] = RUNNING
      BY <1>2 DEF BudgetInv
    <2>1. CASE t = rt_running_task'
      BY <2>1, <1>5, RetiredFacts, DispatchedHasBudget
    <2>2. CASE t # rt_running_task' /\ t \in Released
      BY <2>2, <1>5, RetiredFacts
    <2>3. CASE t # rt_running_task' /\ t \notin Released
      <3>1. state'[t] = Retired[t] /\ executed'[t] = executed[t]
        BY <2>3, <1>5, RetiredFacts
      <3> QED
        BY <1>1, <2>3, <3>1, RetiredFacts DEF BudgetInv
    <2> QED
      BY <2>1, <2>2, <2>3
  <1> QED
    BY <1>6, <1>7, <1>8 DEF IInv

LEMMA NextIInv == IInv /\ [Next]_vars => IInv'
  <1> SUFFICES ASSUME IInv, [Next]_vars PROVE IInv'
    OBVIOUS
  <1>1. ASSUME NEW t \in Tasks, NEW f \in Functions, NEW p \in Periods, NEW c \in Capacities,
               NEW s \in States, AddTask(t, f, p, c, s)
        PROVE  IInv'
    BY <1>1, AddTaskIInv
  <1>2. ASSUME NEW pos \in 0 .. Len(rt_list_task), DelTask(pos)
        PROVE  IInv'
    BY <1>2, DelTaskIInv
  <1>3. CASE StartInit
    BY <1>3, StartInitIInv
  <1>4. CASE StartSlot
    BY <1>4, StartSlotIInv
  <1>5. CASE StartClock
    BY <1>5, StartClockIInv
  <1>6. CASE ContextSwitch
    BY <1>6, ContextSwitchIInv
  <1>7. CASE UNCHANGED vars
    BY <1>7 DEF vars, IInv, TypeOK, Setup, BudgetInv, Listed
  <1> QED
    BY <1>1, <1>2, <1>3, <1>4, <1>5, <1>6, <1>7 DEF Next

(* The invariant all the others follow from. *)
THEOREM KernelInvariant == Spec => []IInv
  BY InitIInv, NextIInv, PTL DEF Spec

(* Types: whatever is added, deleted and scheduled, every variable keeps   *)
(* its type and the list holds allocated tasks, each once.                 *)
THEOREM KernelTypes == Spec => []TypeOK
  <1>1. IInv => TypeOK
    BY DEF IInv
  <1> QED
    BY <1>1, KernelInvariant, PTL

(* Budgets: no task gets more ticks than its capacity between two releases *)
(* and every preempted task has budget left (rt_context_switch).           *)
THEOREM KernelBudgets == Spec => []BudgetInv
  <1>1. IInv => BudgetInv
    BY DEF IInv
  <1> QED
    BY <1>1, KernelInvariant, PTL

(* Priority: a tick goes to a task with the shortest period among those    *)
(* that could run (the election loop of rt_context_switch).                *)
THEOREM KernelPriority == Spec => RunsShortestPeriod
  <1>1. ASSUME IInv, ContextSwitch, NEW t \in Listed, state'[t] \in {READY, RUNNING}
        PROVE  period[t] >= period[rt_running_task']
    <2> USE DEF READY, RUNNING, BLOCKED, DONE, SYS
    <2>1. t \in allocated /\ t \in Objects
      BY <1>1, SwitchFacts, RetiredFacts
    <2>2. period \in [Objects -> Nat] /\ rt_running_task' \in Objects
      BY <1>1, SwitchFacts DEF IInv, TypeOK, Objects
    <2>3. CASE t = rt_running_task'
      BY <2>1, <2>2, <2>3
    <2>4. CASE t # rt_running_task'
      <3>1. state'[t] = IF t \in Released THEN READY ELSE Retired[t]
        BY <1>1, <2>1, <2>4, SwitchFacts
      <3>2. t \in Contenders
        BY <1>1, <3>1 DEF Contenders
      <3>3. PICK j \in DOMAIN rt_list_task : t = rt_list_task[j]
        BY <1>1 DEF Listed, ToSet
      <3> QED
        BY <1>1, <2>1, <2>2, <3>2, <3>3, SwitchFacts DEF Elected
    <2> QED
      BY <2>3, <2>4
  <1>2. IInv /\ [Next]_vars =>
          [ContextSwitch => \A t \in Listed :
              state'[t] \in {READY, RUNNING} => period[t] >= period[rt_running_task']]_vars
    BY <1>1
  <1> QED
    BY <1>2, KernelInvariant, PTL DEF Spec, RunsShortestPeriod

(* A task with budget left loses the processor only to a listed task of    *)
(* strictly shorter period.                                                *)
THEOREM KernelPreemption == Spec => PreemptedByShorter
  <1>1. ASSUME IInv, ContextSwitch, ~ Exhausted, rt_running_task' # rt_running_task
        PROVE  period[rt_running_task'] < period[rt_running_task] /\ rt_running_task' \in Listed
    BY <1>1, SwitchFacts DEF Elected, Incumbent
  <1>2. IInv /\ [Next]_vars =>
          [ContextSwitch /\ ~ Exhausted /\ rt_running_task' # rt_running_task =>
              /\ period[rt_running_task'] < period[rt_running_task]
              /\ rt_running_task' \in Listed]_vars
    BY <1>1
  <1> QED
    BY <1>2, KernelInvariant, PTL DEF Spec, PreemptedByShorter
-----------------------------------------------------------------------------
(* Why every dispatch finds a saved context: before rt_start the ids are   *)
(* 0 .. count - 1, rt_start makes count + 2 slots and fills them one after *)
(* another.                                                                *)
SlotInv ==
    /\ phase = "create" =>
          /\ rt_running_id = Len(rt_list_task)
          /\ \A t \in Listed : id[t] \in 0 .. Len(rt_list_task) - 1
    /\ phase = "start" =>
          /\ DOMAIN rt_jmp = 0 .. Len(rt_list_task) + 1
          /\ rt_running_id \in 1 .. Len(rt_list_task) + 1
          /\ \A slot \in 0 .. rt_running_id : rt_jmp[slot] # "unset"
          /\ \A t \in Listed : id[t] \in 0 .. Len(rt_list_task) - 1
          /\ rt_running_task = Idle
    /\ phase = "run" => Saved(1) # "unset"
    /\ DispatchInBounds

LEMMA AddTaskSlots ==
    ASSUME StaticTasks, IInv, SlotInv, NEW t \in Tasks, NEW f \in Functions, NEW p \in Periods,
           NEW c \in Capacities, NEW s \in States, AddTask(t, f, p, c, s)
    PROVE  SlotInv'
  <1>1. phase = "create" /\ phase' = "create"
    BY DEF AddTask, Calling, StaticTasks
  <1>2. t \notin Listed /\ Len(rt_list_task) \in Nat
    BY LenProperties DEF IInv, TypeOK, AddTask
  <1>3. Len(rt_list_task') = Len(rt_list_task) + 1 /\ Listed' = Listed \cup {t}
    BY <1>2, ListAppend DEF IInv, TypeOK, AddTask, Listed, NoRepeats
  <1>4. rt_running_id' = rt_running_id + 1 /\ id' = [id EXCEPT ![t] = rt_running_id]
    BY DEF AddTask
  <1>5. \A u \in Listed' : id'[u] \in 0 .. Len(rt_list_task') - 1
    BY <1>1, <1>2, <1>3, <1>4 DEF SlotInv, IInv, TypeOK, Objects
  <1> QED
    BY <1>1, <1>2, <1>3, <1>4, <1>5 DEF SlotInv, DispatchInBounds

LEMMA DelTaskSlots ==
    ASSUME StaticTasks, IInv, SlotInv, NEW pos \in 0 .. Len(rt_list_task), DelTask(pos)
    PROVE  SlotInv'
  <1>1. phase = "run" /\ phase' = "run" /\ UNCHANGED <<id, rt_running_task, rt_jmp>>
    BY PhasesAssumption DEF DelTask, Calling, StaticTasks, fields
  <1>2. Listed' \subseteq Listed
    BY DelTaskList, LenProperties DEF IInv, TypeOK
  <1> QED
    BY <1>1, <1>2 DEF SlotInv, DispatchInBounds, Saved

LEMMA StartInitSlots ==
    ASSUME IInv, SlotInv, StartInit
    PROVE  SlotInv'
  <1>1. phase = "create" /\ phase' = "start" /\ Listed' = Listed
    BY DEF StartInit, Listed
  <1>2. Len(rt_list_task) \in Nat /\ rt_list_task' = rt_list_task
    BY LenProperties DEF IInv, TypeOK, StartInit
  <1>3. /\ DOMAIN rt_jmp' = 0 .. Len(rt_list_task) + 1
        /\ \A slot \in 0 .. 1 : rt_jmp'[slot] # "unset"
    BY <1>2 DEF StartInit
  <1>4. \A t \in Listed : id'[t] = id[t]
    BY TasksAssumption DEF IInv, TypeOK, StartInit
  <1> QED
    BY <1>1, <1>2, <1>3, <1>4 DEF SlotInv, DispatchInBounds, StartInit

LEMMA StartSlotSlots ==
    ASSUME IInv, SlotInv, StartSlot
    PROVE  SlotInv'
  <1>1. phase = "start" /\ phase' = "start" /\ Listed' = Listed /\ rt_list_task' = rt_list_task
    BY DEF StartSlot, Listed
  <1>2. Len(rt_list_task) \in Nat /\ DOMAIN rt_list_task = 1 .. Len(rt_list_task)
    BY LenProperties DEF IInv, TypeOK
  <1>3. rt_running_id + 1 \in 2 .. Len(rt_list_task) + 1 /\ rt_running_id' = rt_running_id + 1
    BY <1>1, <1>2 DEF SlotInv, StartSlot
  <1>4. Head(rt_list_task) \in allocated
    <2>1. 1 \in DOMAIN rt_list_task
      BY <1>2, <1>3
    <2>2. rt_list_task[1] \in allocated
      BY <2>1 DEF IInv, TypeOK, Listed, ToSet
    <2>3. Head(rt_list_task) = rt_list_task[1]
      BY <1>2, <2>1 DEF IInv, TypeOK
    <2> QED
      BY <2>2, <2>3
  <1>5. function[Head(rt_list_task)] # "unset"
    BY <1>4, FunctionsAssumption DEF IInv, Setup
  <1>6. /\ DOMAIN rt_jmp' = 0 .. Len(rt_list_task) + 1
        /\ \A slot \in 0 .. rt_running_id' : rt_jmp'[slot] # "unset"
    BY <1>1, <1>2, <1>3, <1>5 DEF SlotInv, StartSlot
  <1> QED
    BY <1>1, <1>2, <1>3, <1>6 DEF SlotInv, DispatchInBounds, StartSlot, fields

LEMMA StartClockSlots ==
    ASSUME IInv, SlotInv, StartClock
    PROVE  SlotInv'
  <1>1. /\ phase = "start" /\ phase' = "run" /\ Listed' = Listed
        /\ UNCHANGED <<id, rt_running_task, rt_jmp>>
    BY DEF StartClock, Listed, fields
  <1>2. Len(rt_list_task) \in Nat
    BY LenProperties DEF IInv, TypeOK
  <1>3. \A slot \in 0 .. Len(rt_list_task) + 1 : Saved(slot) # "unset"
    BY <1>1, <1>2 DEF SlotInv, StartClock, Saved
  <1>4. \A t \in Listed \cup {Idle} : id[t] + SYS_BUFFER \in 1 .. Len(rt_list_task) + 1
    BY <1>1, <1>2 DEF SlotInv, IInv, Setup, SYS_BUFFER
  <1>5. DispatchInBounds'
    BY <1>1, <1>2, <1>3, <1>4 DEF SlotInv, DispatchInBounds, Saved
  <1> QED
    BY <1>1, <1>2, <1>3, <1>5 DEF SlotInv, Saved

LEMMA ContextSwitchSlots ==
    ASSUME IInv, SlotInv, ContextSwitch
    PROVE  SlotInv'
  <1>1. /\ phase = "run" /\ phase' = "run" /\ Listed' = Listed /\ id' = id
        /\ rt_jmp' = [rt_jmp EXCEPT ![0] = "rt_context_switch"]
    BY DEF ContextSwitch, Listed, fields
  <1>2. \A slot \in Int : Saved(slot) # "unset" => Saved(slot)' # "unset"
    BY <1>1 DEF Saved
  <1>3. rt_running_task' \in Listed \cup {rt_running_task, Idle}
    BY SwitchFacts
  <1>4. id[Idle] + SYS_BUFFER = 1
    BY <1>1 DEF IInv, Setup, SYS_BUFFER
  <1>5. \A t \in Listed \cup {rt_running_task'} :
           Saved(id[t] + SYS_BUFFER) # "unset" /\ id[t] + SYS_BUFFER \in Int
    BY <1>1, <1>3, <1>4, SwitchFacts DEF SlotInv, DispatchInBounds, IInv, TypeOK, Objects, SYS_BUFFER
  <1> QED
    BY <1>1, <1>2, <1>5 DEF SlotInv, DispatchInBounds

(* Dispatch: with a static set of tasks, longjmp(rt_jmp[rt_running_id + 2])*)
(* always finds a context rt_start saved, for any number of tasks.         *)
THEOREM KernelDispatch == StaticTasks => (Spec => []DispatchInBounds)
  <1> SUFFICES ASSUME StaticTasks PROVE Spec => []DispatchInBounds
    OBVIOUS
  <1>1. Init => SlotInv
    BY DEF Init, SlotInv, DispatchInBounds, Listed, ToSet
  <1>2. IInv /\ SlotInv /\ [Next]_vars => SlotInv'
    <2> SUFFICES ASSUME IInv, SlotInv, [Next]_vars PROVE SlotInv'
      OBVIOUS
    <2>1. CASE UNCHANGED vars
      BY <2>1 DEF vars, fields, SlotInv, DispatchInBounds, Saved, Listed
    <2> QED
      BY <2>1, AddTaskSlots, DelTaskSlots, StartInitSlots, StartSlotSlots, StartClockSlots,
         ContextSwitchSlots DEF Next
  <1>3. SlotInv => DispatchInBounds
    BY DEF SlotInv
  <1> QED
    BY <1>1, <1>2, <1>3, KernelInvariant, PTL DEF Spec
-----------------------------------------------------------------------------
(* The loop of rt_context_switch computes the election.  What it has made  *)
(* of the first i elements is told by FirstElected, and shown by the least *)
(* i that would break it.                                                  *)
LEMMA Least ==
    ASSUME NEW T, T \subseteq Nat, T # {}
    PROVE  \E m \in T : \A n \in T : m <= n
  <1> DEFINE R == OpToRel(<, Nat)
  <1>1. IsWellFoundedOn(R, Nat)
    BY NatLessThanWellFounded
  <1>2. \A m, n \in Nat : m < n => <<m, n>> \in R
    BY DEF OpToRel
  <1> HIDE DEF R
  <1>3. PICK m \in T : \A n \in T : ~ (<<n, m>> \in R)
    BY <1>1, WFMin
  <1>4. ASSUME NEW n \in T PROVE m <= n
    <2>1. m \in Nat /\ n \in Nat
      OBVIOUS
    <2>2. ~ (n < m)
      BY <1>2, <1>3, <2>1
    <2> QED BY <2>1, <2>2
  <1> QED BY <1>4

Start == [running |-> Incumbent, state |-> Retired, executed |-> executed]

(* scan up to n, as a function of its own. *)
ScanTo(f, n) == f = [i \in 0 .. n |-> IF i = 0 THEN Start ELSE Visit(f[i - 1], rt_list_task[i])]

LEMMA ScanExists ==
    ASSUME NEW len \in Nat
    PROVE  \E f : ScanTo(f, len)
  <1> DEFINE T == {n \in Nat : ~ \E f : ScanTo(f, n)}
  <1>1. SUFFICES ASSUME T # {} PROVE FALSE
    OBVIOUS
  <1>2. PICK m \in T : \A n \in T : m <= n
    <2>1. T \subseteq Nat
      OBVIOUS
    <2> HIDE DEF T
    <2> QED BY <1>1, <2>1, Least
  <1>3. m \in Nat /\ ~ \E f : ScanTo(f, m)
    OBVIOUS
  <1>4. CASE m = 0
    <2> DEFINE f == [i \in 0 .. 0 |-> Start]
    <2>1. ScanTo(f, 0)
      BY DEF ScanTo
    <2> QED BY <1>3, <1>4, <2>1
  <1>5. CASE m # 0
    <2>1. m - 1 \in Nat /\ m - 1 \notin T
      BY <1>2, <1>3, <1>5
    <2>2. PICK g : ScanTo(g, m - 1)
      BY <2>1
    <2> DEFINE f == [i \in 0 .. m |-> IF i < m THEN g[i] ELSE Visit(g[m - 1], rt_list_task[m])]
               F == [i \in 0 .. m |-> IF i = 0 THEN Start ELSE Visit(f[i - 1], rt_list_task[i])]
    <2>3. ASSUME NEW i \in 0 .. m PROVE f[i] = F[i]
      <3>1. CASE i = 0
        BY <1>3, <1>5, <2>1, <2>2, <3>1 DEF ScanTo
      <3>2. CASE i # 0 /\ i < m
        <4>1. f[i] = g[i] /\ f[i - 1] = g[i - 1] /\ i \in 0 .. m - 1
          BY <1>3, <3>2
        <4>2. g[i] = Visit(g[i - 1], rt_list_task[i])
          BY <2>2, <3>2, <4>1 DEF ScanTo
        <4>3. F[i] = Visit(f[i - 1], rt_list_task[i])
          BY <3>2
        <4> HIDE DEF f, F
        <4> QED BY <4>1, <4>2, <4>3
      <3>3. CASE i = m
        <4>1. f[i] = Visit(g[m - 1], rt_list_task[m]) /\ f[i - 1] = g[m - 1]
          BY <1>3, <1>5, <3>3
        <4>2. F[i] = Visit(f[i - 1], rt_list_task[i])
          BY <1>5, <3>3
        <4> HIDE DEF f, F
        <4> QED BY <3>3, <4>1, <4>2
      <3> QED BY <1>3, <3>1, <3>2, <3>3
    <2>4. f = F
      <3>1. f = [i \in 0 .. m |-> f[i]] /\ F = [i \in 0 .. m |-> F[i]]
        OBVIOUS
      <3> HIDE DEF f, F
      <3> QED BY <2>3, <3>1
    <2>5. ScanTo(f, m)
      BY <2>4 DEF ScanTo
    <2> QED BY <1>3, <2>5
  <1> QED BY <1>4, <1>5

(* scan is that function. *)
LEMMA ScanSteps ==
    ASSUME rt_list_task \in Seq(Tasks)
    PROVE  /\ scan[0] = Start
           /\ \A i \in DOMAIN rt_list_task : scan[i] = Visit(scan[i - 1], rt_list_task[i])
  <1>1. Len(rt_list_task) \in Nat /\ DOMAIN rt_list_task = 1 .. Len(rt_list_task)
    OBVIOUS
  <1>2. ScanTo(scan, Len(rt_list_task))
    <2>1. \E f : ScanTo(f, Len(rt_list_task))
      BY <1>1, ScanExists
    <2>2. scan = CHOOSE f : ScanTo(f, Len(rt_list_task))
      BY DEF scan, ScanTo, Start
    <2> QED BY <2>1, <2>2
  <1>3. scan[0] = Start
    BY <1>1, <1>2 DEF ScanTo
  <1>4. ASSUME NEW i \in DOMAIN rt_list_task PROVE scan[i] = Visit(scan[i - 1], rt_list_task[i])
    <2>1. i \in 0 .. Len(rt_list_task) /\ i # 0
      BY <1>1
    <2> QED BY <1>2, <2>1 DEF ScanTo
  <1> QED BY <1>3, <1>4

(* Elected, among the first i elements; the released tasks among them; and *)
(* what scan has made of them.                                             *)
FirstElected(i, t) ==
    \/ /\ t = Incumbent
       /\ \A j \in 1 .. i : rt_list_task[j] \in Contenders => period[rt_list_task[j]] >= period[Incumbent]
    \/ \E m \in 1 .. i :
          /\ t = rt_list_task[m]
          /\ t \in Contenders
          /\ period[t] < period[Incumbent]
          /\ \A j \in 1 .. i :
                rt_list_task[j] \in Contenders =>
                   \/ period[t] < period[rt_list_task[j]]
                   \/ period[t] = period[rt_list_task[j]] /\ m <= j

ReleasedBy(i) == {t \in Released : \E j \in 1 .. i : rt_list_task[j] = t}

ScanInv(i) ==
    /\ FirstElected(i, scan[i].running)
    /\ scan[i].state = [t \in Objects |-> IF t \in ReleasedBy(i) THEN READY ELSE Retired[t]]
    /\ scan[i].executed = [t \in Tasks |-> IF t \in ReleasedBy(i) THEN 0 ELSE executed[t]]

LEMMA ScanStart ==
    ASSUME IInv, ContextSwitch
    PROVE  ScanInv(0)
  <1>1. rt_list_task \in Seq(Tasks) /\ executed \in [Tasks -> Nat] /\ state \in [Objects -> States]
    BY DEF IInv, TypeOK
  <1>2. scan[0] = Start
    BY <1>1, ScanSteps
  <1>3. 1 .. 0 = {} /\ ReleasedBy(0) = {}
    BY DEF ReleasedBy
  <1>4. Retired = [t \in Objects |-> Retired[t]]
    BY <1>1 DEF Retired
  <1> QED
    BY <1>1, <1>2, <1>3, <1>4 DEF ScanInv, FirstElected, Start

(* One element further, the best so far changes for a strictly shorter     *)
(* period only.                                                            *)
LEMMA ScanKeeps ==
    ASSUME IInv, ContextSwitch, NEW i \in DOMAIN rt_list_task, ScanInv(i - 1)
    PROVE  ScanInv(i)
  <1> DEFINE s == scan[i - 1]
             t == rt_list_task[i]
  <1>1. /\ rt_list_task \in Seq(Tasks) /\ period \in [Objects -> Nat] /\ executed \in [Tasks -> Nat]
        /\ i \in Nat \ {0} /\ i \in 1 .. Len(rt_list_task) /\ Len(rt_list_task) \in Nat
    BY DEF IInv, TypeOK
  <1>2. t \in Tasks /\ t \in Objects /\ t \in Listed /\ t \in allocated
    BY <1>1, SwitchFacts DEF Listed, ToSet, Objects
  <1>3. \A j \in 1 .. i : rt_list_task[j] = t => j = i
    BY <1>1 DEF IInv, TypeOK
  <1>4. \A j : j \in 1 .. i <=> j \in 1 .. i - 1 \/ j = i
    BY <1>1
  <1>5. Incumbent \in Objects /\ \A j \in 1 .. i : rt_list_task[j] \in Objects
    <2>1. allocated \subseteq Tasks
      BY DEF IInv, TypeOK
    <2>2. Incumbent \in Objects
      BY <2>1, SwitchFacts DEF Objects
    <2>3. ASSUME NEW j \in 1 .. i PROVE rt_list_task[j] \in Objects
      <3>1. j \in 1 .. Len(rt_list_task)
        BY <1>1
      <3> QED BY <1>1, <3>1 DEF Objects
    <2> QED BY <2>2, <2>3
  <1>6. scan[i] = Visit(s, t)
    BY <1>1, ScanSteps
  <1>7. s.state[t] = Retired[t] /\ t \notin ReleasedBy(i - 1)
    <2>1. t \notin ReleasedBy(i - 1)
      <3>1. i \notin 1 .. i - 1
        BY <1>1
      <3> QED BY <1>3, <1>4, <3>1 DEF ReleasedBy
    <2>2. s.state = [u \in Objects |-> IF u \in ReleasedBy(i - 1) THEN READY ELSE Retired[u]]
      BY DEF ScanInv
    <2> QED BY <1>2, <2>1, <2>2
  <1>8. t \in Contenders <=> ~ (s.state[t] = BLOCKED \/ (s.state[t] = DONE /\ rt_time % period[t] # 0))
    BY <1>2, <1>7 DEF Contenders, Released, BLOCKED, DONE
  <1>9. t \in Released <=> t \in Contenders /\ s.state[t] = DONE
    BY <1>2, <1>7, <1>8 DEF Released, BLOCKED, DONE
  <1>10. ReleasedBy(i) = ReleasedBy(i - 1) \cup (IF t \in Released THEN {t} ELSE {})
    <2>1. ASSUME NEW u PROVE u \in ReleasedBy(i) <=> u \in ReleasedBy(i - 1) \/ (u = t /\ t \in Released)
      BY <1>4 DEF ReleasedBy
    <2> QED BY <2>1
  <1>11. FirstElected(i, IF t \in Contenders /\ period[t] < period[s.running] THEN t ELSE s.running)
    <2>1. FirstElected(i - 1, s.running)
      BY DEF ScanInv
    <2>2. s.running \in Objects
      BY <1>4, <1>5, <2>1 DEF FirstElected
    <2>3. CASE t \notin Contenders
      BY <1>4, <2>1, <2>3 DEF FirstElected
    <2>4. CASE t \in Contenders /\ period[t] < period[s.running]
      <3>1. period[t] < period[Incumbent]
        BY <1>1, <1>2, <1>5, <2>1, <2>2, <2>4 DEF FirstElected
      <3>2. ASSUME NEW j \in 1 .. i, rt_list_task[j] \in Contenders
            PROVE  period[t] < period[rt_list_task[j]] \/ (period[t] = period[rt_list_task[j]] /\ i <= j)
        <4>1. CASE j = i
          BY <1>1, <1>2, <4>1
        <4>2. CASE j \in 1 .. i - 1
          <5>2. rt_list_task[j] \in Objects
            BY <1>5
          <5>3. period[t] \in Nat /\ period[s.running] \in Nat /\ period[rt_list_task[j]] \in Nat
            BY <1>1, <1>2, <2>2, <5>2
          <5>1. period[rt_list_task[j]] >= period[s.running]
            <6>1. CASE s.running = Incumbent
              <7>1. ~ (period[Incumbent] < period[Incumbent])
                BY <5>3, <6>1
              <7>2. \A h \in 1 .. i - 1 : rt_list_task[h] \in Contenders
                                             => period[rt_list_task[h]] >= period[Incumbent]
                BY <2>1, <6>1, <7>1 DEF FirstElected
              <7> QED BY <3>2, <4>2, <6>1, <7>2
            <6>2. CASE s.running # Incumbent
              <7>1. PICK m \in 1 .. i - 1 :
                       \A h \in 1 .. i - 1 : rt_list_task[h] \in Contenders =>
                          \/ period[s.running] < period[rt_list_task[h]]
                          \/ period[s.running] = period[rt_list_task[h]] /\ m <= h
                BY <2>1, <6>2 DEF FirstElected
              <7>2. \/ period[s.running] < period[rt_list_task[j]]
                    \/ period[s.running] = period[rt_list_task[j]]
                BY <3>2, <4>2, <7>1
              <7> QED BY <5>3, <7>2
            <6> QED BY <6>1, <6>2
          <5>4. period[t] < period[s.running]
            BY <2>4
          <5> QED BY ONLY <5>1, <5>3, <5>4
        <4> QED BY <1>4, <4>1, <4>2
      <3> QED BY <1>1, <2>4, <3>1, <3>2 DEF FirstElected
    <2>5. CASE t \in Contenders /\ ~ (period[t] < period[s.running])
      <3>1. period[s.running] <= period[t] /\ period[s.running] \in Nat /\ period[t] \in Nat
        BY <1>1, <1>2, <2>2, <2>5
      <3>2. ASSUME s.running = Incumbent,
                   \A j \in 1 .. i - 1 : rt_list_task[j] \in Contenders
                                            => period[rt_list_task[j]] >= period[Incumbent]
            PROVE  FirstElected(i, s.running)
        BY <1>4, <3>1, <3>2 DEF FirstElected
      <3>3. ASSUME NEW m \in 1 .. i - 1,
                   s.running = rt_list_task[m], s.running \in Contenders,
                   period[s.running] < period[Incumbent],
                   \A j \in 1 .. i - 1 :
                      rt_list_task[j] \in Contenders =>
                         \/ period[s.running] < period[rt_list_task[j]]
                         \/ period[s.running] = period[rt_list_task[j]] /\ m <= j
            PROVE  FirstElected(i, s.running)
        <4>1. m \in 1 .. i /\ m <= i
          BY <1>1
        <4>2. period[s.running] < period[t] \/ (period[s.running] = period[t] /\ m <= i)
          BY <3>1, <4>1
        <4>3. ASSUME NEW j \in 1 .. i, rt_list_task[j] \in Contenders
              PROVE  \/ period[s.running] < period[rt_list_task[j]]
                     \/ period[s.running] = period[rt_list_task[j]] /\ m <= j
          BY <1>4, <3>3, <4>2, <4>3
        <4> QED BY <3>3, <4>1, <4>3 DEF FirstElected
      <3>4. FirstElected(i, s.running)
        <4>1. CASE s.running = Incumbent
                   /\ \A j \in 1 .. i - 1 : rt_list_task[j] \in Contenders
                                              => period[rt_list_task[j]] >= period[Incumbent]
          BY <3>2, <4>1
        <4>2. CASE \E m \in 1 .. i - 1 :
                      /\ s.running = rt_list_task[m]
                      /\ s.running \in Contenders
                      /\ period[s.running] < period[Incumbent]
                      /\ \A j \in 1 .. i - 1 :
                            rt_list_task[j] \in Contenders =>
                               \/ period[s.running] < period[rt_list_task[j]]
                               \/ period[s.running] = period[rt_list_task[j]] /\ m <= j
          <5>1. PICK m \in 1 .. i - 1 :
                   /\ s.running = rt_list_task[m]
                   /\ s.running \in Contenders
                   /\ period[s.running] < period[Incumbent]
                   /\ \A j \in 1 .. i - 1 :
                         rt_list_task[j] \in Contenders =>
                            \/ period[s.running] < period[rt_list_task[j]]
                            \/ period[s.running] = period[rt_list_task[j]] /\ m <= j
            BY <4>2
          <5> QED BY <3>3, <5>1
        <4> QED BY <2>1, <4>1, <4>2 DEF FirstElected
      <3> QED BY <2>5, <3>4
    <2> QED BY <2>3, <2>4, <2>5
  <1>12. CASE t \notin Contenders
    <2>1. scan[i] = s
      BY <1>6, <1>8, <1>12 DEF Visit
    <2>2. ReleasedBy(i) = ReleasedBy(i - 1)
      BY <1>9, <1>10, <1>12
    <2> QED BY <1>11, <1>12, <2>1, <2>2 DEF ScanInv
  <1>13. CASE t \in Contenders
    <2>1. /\ scan[i].running = IF period[t] < period[s.running] THEN t ELSE s.running
          /\ scan[i].state = IF t \in Released THEN [s.state EXCEPT ![t] = READY] ELSE s.state
          /\ scan[i].executed = IF t \in Released THEN [s.executed EXCEPT ![t] = 0] ELSE s.executed
      BY <1>6, <1>8, <1>9, <1>13 DEF Visit
    <2>2. s.state = [u \in Objects |-> IF u \in ReleasedBy(i - 1) THEN READY ELSE Retired[u]]
          /\ s.executed = [u \in Tasks |-> IF u \in ReleasedBy(i - 1) THEN 0 ELSE executed[u]]
      BY DEF ScanInv
    <2>3. scan[i].state = [u \in Objects |-> IF u \in ReleasedBy(i) THEN READY ELSE Retired[u]]
      BY <1>2, <1>10, <2>1, <2>2
    <2>4. scan[i].executed = [u \in Tasks |-> IF u \in ReleasedBy(i) THEN 0 ELSE executed[u]]
      BY <1>2, <1>10, <2>1, <2>2
    <2> QED BY <1>11, <1>13, <2>1, <2>3, <2>4 DEF ScanInv
  <1> QED BY <1>12, <1>13

LEMMA ScanDone ==
    ASSUME IInv, ContextSwitch
    PROVE  ScanInv(Len(rt_list_task))
  <1> DEFINE T == {n \in 0 .. Len(rt_list_task) : ~ ScanInv(n)}
  <1>1. Len(rt_list_task) \in Nat /\ DOMAIN rt_list_task = 1 .. Len(rt_list_task)
    BY DEF IInv, TypeOK
  <1>2. SUFFICES ASSUME T # {} PROVE FALSE
    BY <1>1
  <1>3. PICK m \in T : \A n \in T : m <= n
    <2>1. T \subseteq Nat
      BY <1>1
    <2> HIDE DEF T
    <2> QED BY <1>2, <2>1, Least
  <1>4. m \in 0 .. Len(rt_list_task) /\ ~ ScanInv(m)
    OBVIOUS
  <1>5. m # 0
    BY <1>4, ScanStart
  <1>6. m - 1 \in 0 .. Len(rt_list_task) /\ m - 1 \notin T /\ m \in DOMAIN rt_list_task
    BY <1>1, <1>3, <1>4, <1>5
  <1>7. ScanInv(m - 1)
    BY <1>6
  <1> QED BY <1>4, <1>6, <1>7, ScanKeeps

(* Only one task is elected. *)
LEMMA ElectedOnce ==
    ASSUME IInv, ContextSwitch, NEW t, NEW u, Elected(t), Elected(u)
    PROVE  t = u
  <1>1. /\ period \in [Objects -> Nat] /\ Incumbent \in Objects
        /\ \A i \in DOMAIN rt_list_task : i \in Nat /\ rt_list_task[i] \in Objects /\ rt_list_task[i] \in Listed
    <2>1. rt_list_task \in Seq(Tasks) /\ allocated \subseteq Tasks /\ period \in [Objects -> Nat]
      BY DEF IInv, TypeOK
    <2>2. Incumbent \in Objects
      BY <2>1, SwitchFacts DEF Objects
    <2>3. ASSUME NEW i \in DOMAIN rt_list_task
          PROVE  i \in Nat /\ rt_list_task[i] \in Objects /\ rt_list_task[i] \in Listed
      BY <2>1 DEF Objects, Listed, ToSet
    <2> QED BY <2>1, <2>2, <2>3
  <1>2. \A v \in Contenders : v \in Objects /\ \E i \in DOMAIN rt_list_task : v = rt_list_task[i]
    BY <1>1, SwitchFacts DEF Listed, ToSet
  <1>3. ASSUME NEW i \in DOMAIN rt_list_task, NEW j \in DOMAIN rt_list_task,
               t = rt_list_task[i], u = rt_list_task[j], t \in Contenders, u \in Contenders,
               period[t] < period[u] \/ (period[t] = period[u] /\ i <= j),
               period[u] < period[t] \/ (period[u] = period[t] /\ j <= i)
        PROVE  t = u
    <2>1. period[t] \in Nat /\ period[u] \in Nat /\ i \in Nat /\ j \in Nat
      BY <1>1, <1>2, <1>3
    <2>2. i = j
      BY <1>3, <2>1
    <2> QED BY <1>3, <2>2
  <1>4. ASSUME NEW v \in Contenders, \A w \in Contenders : period[w] >= period[Incumbent],
               period[v] < period[Incumbent]
        PROVE  FALSE
    BY <1>1, <1>2, <1>4
  <1>5. CASE t = Incumbent /\ \A w \in Contenders : period[w] >= period[Incumbent]
    BY <1>4, <1>5 DEF Elected
  <1>6. CASE u = Incumbent /\ \A w \in Contenders : period[w] >= period[Incumbent]
    BY <1>4, <1>6 DEF Elected
  <1> QED BY <1>3, <1>5, <1>6 DEF Elected

(* The election loop of rt_context_switch, for every list.                 *)
THEOREM KernelScan == Spec => ScanAgrees
  <1>1. ASSUME IInv, ContextSwitch
        PROVE  /\ rt_running_task' = Scan.running
               /\ state' = [Scan.state EXCEPT ![Scan.running] = RUNNING]
               /\ executed' = [t \in Tasks |-> Scan.executed[t] + (IF t = Scan.running THEN 1 ELSE 0)]
    <2>1. ScanInv(Len(rt_list_task)) /\ Scan = scan[Len(rt_list_task)]
      BY <1>1, ScanDone DEF Scan
    <2>2. DOMAIN rt_list_task = 1 .. Len(rt_list_task) /\ Len(rt_list_task) \in Nat
      BY <1>1 DEF IInv, TypeOK
    <2>3. \A v \in Contenders : \E i \in DOMAIN rt_list_task : v = rt_list_task[i]
      BY <1>1, SwitchFacts DEF Listed, ToSet
    <2>4. Elected(Scan.running)
      BY <2>1, <2>2, <2>3 DEF ScanInv, FirstElected, Elected
    <2>5. rt_running_task' = Scan.running
      BY <1>1, <2>4, SwitchFacts, ElectedOnce
    <2>6. ReleasedBy(Len(rt_list_task)) = Released
      <3>1. \A v \in Released : \E i \in 1 .. Len(rt_list_task) : rt_list_task[i] = v
        BY <1>1, <2>2, SwitchFacts DEF Listed, ToSet
      <3> QED BY <3>1 DEF ReleasedBy
    <2>7. /\ Scan.state = [t \in Objects |-> IF t \in Released THEN READY ELSE Retired[t]]
          /\ Scan.executed = [t \in Tasks |-> IF t \in Released THEN 0 ELSE executed[t]]
      BY <2>1, <2>6 DEF ScanInv
    <2>8. /\ state' = [t \in Objects |-> IF t = rt_running_task' THEN RUNNING
                                         ELSE IF t \in Released THEN READY ELSE Retired[t]]
          /\ executed' = [t \in Tasks |-> (IF t \in Released THEN 0 ELSE executed[t])
                                          + (IF t = rt_running_task' THEN 1 ELSE 0)]
      BY <1>1, SwitchFacts
    <2>9. state' = [Scan.state EXCEPT ![Scan.running] = RUNNING]
      BY <2>5, <2>7, <2>8
    <2>10. executed' = [t \in Tasks |-> Scan.executed[t] + (IF t = Scan.running THEN 1 ELSE 0)]
      BY <2>5, <2>7, <2>8
    <2> QED BY <2>5, <2>9, <2>10
  <1>2. IInv /\ [Next]_vars =>
          [ContextSwitch =>
             /\ rt_running_task' = Scan.running
             /\ state' = [Scan.state EXCEPT ![Scan.running] = RUNNING]
             /\ executed' = [t \in Tasks |-> Scan.executed[t] + (IF t = Scan.running THEN 1 ELSE 0)]]_vars
    BY <1>1
  <1> QED
    BY <1>2, KernelInvariant, PTL DEF Spec, ScanAgrees
=============================================================================
