---------------------------- MODULE RtDocumented ----------------------------
(***************************************************************************)
(* What the comments of rt.c and sys.h say of the kernel and its code does *)
(* not do.                                                                 *)
(***************************************************************************)
EXTENDS RtKernel, TLC

Symmetry == Permutations(Tasks)

(* "jump 0 is rt_context_switch, jump 1 is rt_task_idle" and the rest are  *)
(* the tasks': what a tick jumps to was saved by a setjmp.                 *)
JumpsToSaved == cpu # "unset"
=============================================================================
