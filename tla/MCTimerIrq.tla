----------------------------- MODULE MCTimerIrq -----------------------------
(***************************************************************************)
(* Segments of code for TimerIrq, shorter than the real ones.              *)
(***************************************************************************)
EXTENDS TimerIrq

CONSTANT HandlerLengths

MCLength ==
    [s \in Segments |->
        CASE s = "entry"     -> {2}
          [] s = "handler"   -> HandlerLengths
          [] s = "longjmp"   -> {5}
          [] s = "exception" -> {1, 3}
          [] s = "restore"   -> {2}
          [] s = "leave"     -> {1}
          [] OTHER           -> {1}]

(* The run with handlers that switch tasks is one with short ones. *)
ASSUME LengthsAssumption == Switches = {TRUE} => ShortHandlers
=============================================================================
