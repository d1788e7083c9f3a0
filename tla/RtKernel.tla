------------------------------ MODULE RtKernel ------------------------------
(***************************************************************************)
(* The real-time kernel of tp1/app/rt.c: a list of periodic tasks, each    *)
(* with a budget (_capacity) of timer ticks per period, and a scheduler    *)
(* that runs in the TIMER1 interrupt and hands every tick to the task with *)
(* the shortest period that still has budget.                              *)
(*                                                                         *)
(* A task object keeps its fields in functions of the same name.  The      *)
(* timer interrupt runs with interrupts disabled up to the longjmp that    *)
(* leaves it, so rt_context_switch is one action.  Names, deadlines and    *)
(* logging take no part in scheduling and are left out, and so is          *)
(* executed of the idle task: nothing but a comparison with its capacity   *)
(* -1 reads it, and the DONE that comparison could set is overwritten.     *)
(***************************************************************************)
EXTENDS Integers, Sequences, SequencesExt

CONSTANTS
    Tasks,          \* the rt_task objects malloc can return
    Idle,           \* rt_idle_task
    Null,           \* rt_running_task before rt_start
    Functions,      \* the entry points applications pass to rt_add_task
    NoFunction,     \* a zeroed _function
    Periods,        \* the periods and
    Capacities,     \*   capacities callers ask for
    IdlePeriod,     \* _period of the idle task, 65535 in the code
    IntMax,         \* rt_time is an int: it wraps from IntMax to -IntMax - 1
    AddPhases,      \* phases in which rt_add_task is called
    DeletePhases    \* phases in which rt_del_task is called

ASSUME TasksAssumption == Idle \notin Tasks /\ Null \notin Tasks \cup {Idle}
ASSUME FunctionsAssumption ==
    Functions \cap {"rt_start", "rt_idle_function", "rt_context_switch", "unset"} = {}
ASSUME NumbersAssumption ==
    Periods \subseteq Nat /\ Capacities \subseteq Nat /\ IdlePeriod \in Nat /\ IntMax \in Nat
ASSUME PhasesAssumption == AddPhases \cup DeletePhases \subseteq {"create", "run"}

(* Tasks are added before rt_start only, and deleted after it only. *)
StaticTasks == AddPhases \subseteq {"create"} /\ "create" \notin DeletePhases

VARIABLES
    phase,              \* "create" | "start" | "run": how far main() has got
    allocated,          \* objects rt_add_task has allocated, never freed
    rt_list_task,       \* the tasks of the list, in list order
    id, period, capacity, function, state, executed,    \* rt_task fields
    rt_running_task,
    rt_running_id,
    rt_time,
    rt_jmp,             \* slot -> the code whose context setjmp saved in it
    cpu                 \* the code longjmp resumed last

fields == <<id, period, capacity, function>>
vars == <<phase, allocated, rt_list_task, id, period, capacity, function, state, executed,
          rt_running_task, rt_running_id, rt_time, rt_jmp, cpu>>

READY   == "READY"
RUNNING == "RUNNING"
BLOCKED == "BLOCKED"
DONE    == "DONE"
SYS     == "SYS"
States  == {READY, RUNNING, BLOCKED, DONE, SYS}

Objects  == Tasks \cup {Idle}
Contexts == Functions \cup {NoFunction, "rt_start", "rt_idle_function", "rt_context_switch", "unset"}

(* Variants: operators named Bad... are wrong forms of the definition that *)
(* follows them, for which some property fails; nothing else uses them.    *)
BadSYS_BUFFER == 3
SYS_BUFFER == 2     \* slot 0 is the scheduler's, slot 1 the idle task's

Listed == ToSet(rt_list_task)

(* The successor of an int on the 32-bit target. *)
BadWrapWider(n) == n
BadWrapShort(n) == IF n >= IntMax THEN - IntMax - 1 ELSE n
Wrap(n) == IF n > IntMax THEN - IntMax - 1 ELSE n

(* The code found in a slot: memory past rt_jmp was never saved to. *)
Saved(slot) == IF slot \in DOMAIN rt_jmp THEN rt_jmp[slot] ELSE "unset"
-----------------------------------------------------------------------------
(* rt_create.  The heap is zeroed memory, and READY is 0. *)
Init ==
    /\ phase = "create"
    /\ allocated = {}
    /\ rt_list_task = <<>>
    /\ id = [t \in Objects |-> 0]
    /\ period = [t \in Objects |-> 0]
    /\ capacity = [t \in Objects |-> 0]
    /\ function = [t \in Objects |-> NoFunction]
    /\ state = [t \in Objects |-> READY]
    /\ executed = [t \in Tasks |-> 0]
    /\ rt_running_task = Null
    /\ rt_running_id = 0
    /\ rt_time = 0
    /\ rt_jmp = <<>>
    /\ cpu = "rt_start"

(* main() calls the kernel before rt_start; afterwards only task code,     *)
(* between two ticks, does.                                                *)
Calling(phases) == phase \in phases /\ (phase = "run" => cpu \in Functions)

(* rt_add_task; a call it rejects returns 0 and changes nothing. *)
AddTask(t, f, p, c, s) ==
    /\ Calling(AddPhases)
    /\ s \in {READY, BLOCKED}
    /\ p # 0 /\ c # 0
    /\ p >= c
    /\ t \notin allocated
    /\ allocated' = allocated \cup {t}
    /\ id' = [id EXCEPT ![t] = rt_running_id]
    /\ period' = [period EXCEPT ![t] = p]
    /\ capacity' = [capacity EXCEPT ![t] = c]
    /\ function' = [function EXCEPT ![t] = f]
    /\ state' = [state EXCEPT ![t] = s]
    /\ rt_list_task' = Append(rt_list_task, t)
    /\ rt_running_id' = rt_running_id + 1
    /\ UNCHANGED <<phase, executed, rt_running_task, rt_time, rt_jmp, cpu>>

(* rt_del_task: the argument, called id, is a position of the list.  A     *)
(* position past the end returns -1 and changes nothing.                   *)
DelTask(pos) ==
    /\ Calling(DeletePhases)
    /\ pos + 1 \in DOMAIN rt_list_task
    /\ rt_list_task' = RemoveAt(rt_list_task, pos + 1)
    /\ UNCHANGED <<phase, allocated, fields, state, executed, rt_running_task, rt_running_id,
                   rt_time, rt_jmp, cpu>>

(* rt_start up to the return of rt_idle_function's longjmp: the idle task  *)
(* is set up, slots 0 and 1 are saved.                                     *)
StartInit ==
    /\ phase = "create"
    /\ phase' = "start"
    /\ id' = [id EXCEPT ![Idle] = -1]
    /\ period' = [period EXCEPT ![Idle] = IdlePeriod]
    /\ capacity' = [capacity EXCEPT ![Idle] = -1]
    /\ state' = [state EXCEPT ![Idle] = SYS]
    /\ rt_running_task' = Idle
    /\ rt_running_id' = 1
    /\ rt_time' = 0
    /\ rt_jmp' = [slot \in 0 .. Len(rt_list_task) + 1 |->
                    CASE slot = 0 -> "rt_start"
                      [] slot = 1 -> "rt_idle_function"
                      [] OTHER    -> "unset"]
    /\ UNCHANGED <<allocated, rt_list_task, function, executed, cpu>>

(* One turn of rt_start's loop through slot 0: a task function is called,  *)
(* saves its context in slot rt_running_id and jumps back.  element is     *)
(* read again from the head of the list every time.                        *)
StartSlot ==
    /\ phase = "start"
    /\ rt_running_id < Len(rt_list_task) + 1
    /\ rt_running_id' = rt_running_id + 1
    /\ rt_jmp' = [rt_jmp EXCEPT ![rt_running_id + 1] = function[Head(rt_list_task)]]
    /\ UNCHANGED <<phase, allocated, rt_list_task, fields, state, executed, rt_running_task,
                   rt_time, cpu>>

(* The end of rt_start: rt_clock starts the timer, then the processor      *)
(* spins in rt_start until the first tick.                                 *)
StartClock ==
    /\ phase = "start"
    /\ rt_running_id >= Len(rt_list_task) + 1
    /\ phase' = "run"
    /\ rt_running_id' = 0
    /\ UNCHANGED <<allocated, rt_list_task, fields, state, executed, rt_running_task, rt_time,
                   rt_jmp, cpu>>
-----------------------------------------------------------------------------
(* rt_context_switch first retires a running task that used its budget.    *)
BadExhausted ==
    state[rt_running_task] # SYS /\ rt_running_task # Idle
    /\ executed[rt_running_task] = capacity[rt_running_task] + 1
Exhausted ==
    /\ state[rt_running_task] # SYS
    /\ rt_running_task # Idle
    /\ executed[rt_running_task] = capacity[rt_running_task]

BadIncumbent == Idle
Incumbent == IF Exhausted THEN Idle ELSE rt_running_task

Retired == IF Exhausted THEN [state EXCEPT ![rt_running_task] = DONE] ELSE state

(* The loop then gives DONE tasks a new budget at a multiple of their      *)
(* period, and looks for a period below the incumbent's.                   *)
BadReleasedAnytime == {t \in Listed : Retired[t] = DONE}
BadReleasedLate == {t \in Listed : state[t] = DONE /\ rt_time % period[t] = 0}
Released == {t \in Listed : Retired[t] = DONE /\ rt_time % period[t] = 0}

BadContenders == {t \in Listed : Retired[t] = READY} \cup Released
Contenders == {t \in Listed : Retired[t] \notin {BLOCKED, DONE}} \cup Released

(* The loop's outcome: the first task of the list with the least period    *)
(* among the contenders, unless the incumbent's period is as short.        *)
Elected(t) ==
    \/ /\ t = Incumbent
       /\ \A u \in Contenders : period[u] >= period[Incumbent]
    \/ \E i \in DOMAIN rt_list_task :
          /\ t = rt_list_task[i]
          /\ t \in Contenders
          /\ period[t] < period[Incumbent]
          /\ \A j \in DOMAIN rt_list_task :
                rt_list_task[j] \in Contenders =>
                   \/ period[t] < period[rt_list_task[j]]
                   \/ period[t] = period[rt_list_task[j]] /\ i <= j

(* timer1ctc_handler and the whole of rt_context_switch.  A processor that *)
(* jumped to a context nobody saved has no defined continuation.           *)
ContextSwitch ==
    /\ phase = "run"
    /\ cpu # "unset"
    /\ \E next \in Contenders \cup {Incumbent} :
          /\ Elected(next)
          /\ rt_running_task' = next
          /\ rt_running_id' = id[next]
          /\ state' = [t \in Objects |-> IF t = next THEN RUNNING
                                         ELSE IF t \in Released THEN READY ELSE Retired[t]]
          /\ executed' = [t \in Tasks |-> (IF t \in Released THEN 0 ELSE executed[t])
                                          + (IF t = next THEN 1 ELSE 0)]
          /\ cpu' = Saved(id[next] + SYS_BUFFER)
    /\ rt_time' = Wrap(rt_time + 1)
    /\ rt_jmp' = [rt_jmp EXCEPT ![0] = "rt_context_switch"]
    /\ UNCHANGED <<phase, allocated, rt_list_task, fields>>

Next ==
    \/ \E t \in Tasks, f \in Functions, p \in Periods, c \in Capacities, s \in States :
          AddTask(t, f, p, c, s)
    \/ \E pos \in 0 .. Len(rt_list_task) : DelTask(pos)
    \/ StartInit
    \/ StartSlot
    \/ StartClock
    \/ ContextSwitch

(* rt_start runs to its end, and the timer keeps ticking. *)
Fairness == WF_vars(StartInit) /\ WF_vars(StartSlot) /\ WF_vars(StartClock) /\ WF_vars(ContextSwitch)

Spec == Init /\ [][Next]_vars
FairSpec == Spec /\ Fairness
-----------------------------------------------------------------------------
(* The loop of rt_context_switch as it is written: one element of the      *)
(* list, what it has made of the first i, and of them all.                 *)
Visit(s, t) ==
    IF s.state[t] = BLOCKED \/ (s.state[t] = DONE /\ rt_time % period[t] # 0)
    THEN s
    ELSE [running  |-> IF period[t] < period[s.running] THEN t ELSE s.running,
          state    |-> IF s.state[t] = DONE THEN [s.state EXCEPT ![t] = READY] ELSE s.state,
          executed |-> IF s.state[t] = DONE THEN [s.executed EXCEPT ![t] = 0] ELSE s.executed]
scan[i \in 0 .. Len(rt_list_task)] ==
    IF i = 0 THEN [running |-> Incumbent, state |-> Retired, executed |-> executed]
    ELSE Visit(scan[i - 1], rt_list_task[i])
Scan == scan[Len(rt_list_task)]

(* rt_get_states and rt_get_ids: what an application sees of the list. *)
StatesSeen == [i \in DOMAIN rt_list_task |-> state[rt_list_task[i]]]
IdsSeen    == [i \in DOMAIN rt_list_task |-> id[rt_list_task[i]]]
-----------------------------------------------------------------------------
(* Every variable has its type, and the list holds allocated tasks, each   *)
(* once.                                                                   *)
TypeOK ==
    /\ phase \in {"create", "start", "run"}
    /\ allocated \subseteq Tasks
    /\ rt_list_task \in Seq(Tasks)
    /\ Listed \subseteq allocated
    /\ \A i, j \in DOMAIN rt_list_task : rt_list_task[i] = rt_list_task[j] => i = j
    /\ id \in [Objects -> Int]
    /\ period \in [Objects -> Nat]
    /\ capacity \in [Objects -> Int]
    /\ function \in [Objects -> Functions \cup {NoFunction}]
    /\ state \in [Objects -> States]
    /\ executed \in [Tasks -> Nat]
    /\ rt_running_task \in allocated \cup {Idle, Null}
    /\ rt_running_id \in Int
    /\ rt_time \in - IntMax - 1 .. IntMax
    /\ rt_jmp \in [DOMAIN rt_jmp -> Contexts]
    /\ cpu \in Contexts

(* Budgets: a task never gets more ticks than its capacity before it is    *)
(* released again, it is DONE exactly when it has had them all and left    *)
(* the processor, a preempted task (still RUNNING) has budget left, and a  *)
(* blocked task never ran.  rt_context_switch compares executed with       *)
(* _capacity by == only, so one missed reset would let a task run on.      *)
BudgetInv ==
    \A t \in allocated :
       /\ executed[t] <= capacity[t]
       /\ state[t] \in {READY, BLOCKED} => executed[t] = 0
       /\ state[t] = DONE => executed[t] = capacity[t]
       /\ state[t] = RUNNING => executed[t] >= 1
       /\ state[t] = RUNNING /\ t # rt_running_task => executed[t] < capacity[t]
       /\ t = rt_running_task => state[t] = RUNNING

(* Every task the scheduler may dispatch has a context of its own slot     *)
(* that rt_start saved: longjmp(rt_jmp[rt_running_id + SYS_BUFFER]) never  *)
(* resumes from memory past rt_jmp or from a slot no setjmp filled, as     *)
(* long as StaticTasks holds.                                              *)
DispatchInBounds ==
    phase = "run" =>
       \A t \in Listed \cup {rt_running_task} : Saved(id[t] + SYS_BUFFER) # "unset"

(* Rate-monotonic priority: when rt_context_switch leaves, no listed task  *)
(* that could run has a shorter period than the task it dispatched.        *)
RunsShortestPeriod ==
    [][ContextSwitch =>
         \A t \in Listed :
            state'[t] \in {READY, RUNNING} => period[t] >= period[rt_running_task']]_vars

(* No needless switch: a task with budget left loses the processor only to *)
(* a task with a strictly shorter period (the < in the loop), and only to  *)
(* one that is on the list.                                                *)
PreemptedByShorter ==
    [][ContextSwitch /\ ~Exhausted /\ rt_running_task' # rt_running_task =>
         /\ period[rt_running_task'] < period[rt_running_task]
         /\ rt_running_task' \in Listed]_vars

(* The election above is what the loop computes, for every list order: the *)
(* task dispatched, and the state and budget of every task.                *)
ScanAgrees ==
    [][ContextSwitch =>
         /\ rt_running_task' = Scan.running
         /\ state' = [Scan.state EXCEPT ![Scan.running] = RUNNING]
         /\ executed' = [t \in Tasks |-> Scan.executed[t] + (IF t = Scan.running THEN 1 ELSE 0)]]_vars
=============================================================================
