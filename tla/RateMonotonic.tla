--------------------------- MODULE RateMonotonic ----------------------------
(***************************************************************************)
(* What the kernel of tp1/app/rt.c promises its tasks, without lists,      *)
(* states or contexts: fixed priorities by period, and a budget of ticks   *)
(* that is refilled at multiples of the period once it has been used up.   *)
(* Among tasks of equal period any may be preferred.                       *)
(***************************************************************************)
EXTENDS Integers

CONSTANTS
    Tasks,
    None,           \* nobody: the idle task has the processor
    Periods,
    IdlePeriod,     \* tasks with this period or a longer one never run
    IntMax          \* the clock wraps from IntMax to -IntMax - 1

VARIABLES
    clock,
    competing,      \* admitted tasks that take part in scheduling
    period, capacity,
    budget,         \* ticks a task may still have before its next refill
    current         \* who has the processor

vars == <<clock, competing, period, capacity, budget, current>>

Init ==
    /\ clock = 0
    /\ competing = {}
    /\ period = [t \in Tasks |-> 0]
    /\ capacity = [t \in Tasks |-> 0]
    /\ budget = [t \in Tasks |-> 0]
    /\ current = None

(* A new task is admitted with a full budget; a parked one never competes. *)
Admit(t, parked) ==
    /\ t \notin competing \cup {current}
    /\ \E p \in Periods : \E c \in 1 .. p :
          /\ period' = [period EXCEPT ![t] = p]
          /\ capacity' = [capacity EXCEPT ![t] = c]
          /\ budget' = [budget EXCEPT ![t] = c]
    /\ competing' = IF parked THEN competing ELSE competing \cup {t}
    /\ UNCHANGED <<clock, current>>

(* A withdrawn task that has the processor keeps it for its budget. *)
Withdraw(t) ==
    /\ competing' = competing \ {t}
    /\ UNCHANGED <<clock, period, capacity, budget, current>>

Refilled ==
    [t \in Tasks |-> IF t \in competing /\ budget[t] = 0 /\ clock % period[t] = 0
                     THEN capacity[t] ELSE budget[t]]

Runnable ==
    {t \in competing \cup ({current} \ {None}) : Refilled[t] > 0 /\ period[t] < IdlePeriod}

(* One tick goes to a runnable task of least period, or to nobody. *)
Tick ==
    /\ \/ /\ Runnable = {}
          /\ current' = None
          /\ budget' = Refilled
       \/ \E t \in Runnable :
             /\ \A u \in Runnable : period[t] <= period[u]
             /\ current' = t
             /\ budget' = [Refilled EXCEPT ![t] = @ - 1]
    /\ clock' = IF clock = IntMax THEN - IntMax - 1 ELSE clock + 1
    /\ UNCHANGED <<competing, period, capacity>>

Next ==
    \/ \E t \in Tasks, parked \in BOOLEAN : Admit(t, parked)
    \/ \E t \in Tasks : Withdraw(t)
    \/ Tick

Spec == Init /\ [][Next]_vars
=============================================================================
