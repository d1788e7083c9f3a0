---------------------------- MODULE RtRefinement ----------------------------
(***************************************************************************)
(* rt.c keeps what RateMonotonic promises.  The abstract budget is what is *)
(* left of a task's capacity; the list, the task states and the election   *)
(* by list order disappear.                                                *)
(***************************************************************************)
EXTENDS RtKernel

RM == INSTANCE RateMonotonic WITH
        None      <- Idle,
        clock     <- rt_time,
        competing <- {t \in Listed : state[t] # BLOCKED},
        period    <- [t \in Tasks |-> period[t]],
        capacity  <- [t \in Tasks |-> capacity[t]],
        budget    <- [t \in Tasks |-> capacity[t] - executed[t]],
        current   <- IF rt_running_task \in Tasks THEN rt_running_task ELSE Idle

(* Every step of the kernel is a step of the abstract scheduler or hidden  *)
(* from it: each call and each tick does to every task's budget and to the *)
(* processor what rate-monotonic scheduling with budgets does.             *)
ImplementsRateMonotonic == RM!Spec
=============================================================================
