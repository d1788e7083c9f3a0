----------------------------- MODULE MCRtTiming -----------------------------
(***************************************************************************)
(* RtTiming for TLC.  The objects are numbers, allocated in their order:   *)
(* which of the free ones malloc returns makes no difference, and TLC's    *)
(* SYMMETRY cannot say so where there are liveness properties.             *)
(***************************************************************************)
EXTENDS RtTiming

InOrder == \A t \in allocated', u \in Tasks : u < t => u \in allocated'

(* What the theorems about ReleaseSpacing and DeadlinesMet assume.  rt_time *)
(* wraps here, so it has to do so at multiples of the periods.             *)
ASSUME TimingAssumption == WrapsAtPeriods /\ AddPhases \cup DeletePhases \subseteq {"create"}

MCSpec == TimingInit /\ [][TimingNext /\ InOrder]_timingVars /\ Fairness
=============================================================================
