--------------------------- MODULE TimerIrqProofs ---------------------------
(***************************************************************************)
(* Proofs about TimerIrq: the types, the parity of the interrupt cause and *)
(* the way out of _isr, whatever the lengths of the code; and, if handlers *)
(* are short, that no event is lost.                                       *)
(***************************************************************************)
EXTENDS TimerIrq, SequenceTheorems, TLAPS

Routine == Segments \ {"longjmp"}

(* Interrupts are off and not about to come on until _restore enables      *)
(* them, and then they stay off for the two instructions of "leave".       *)
InterruptsOff ==
    /\ pc \in Routine => ~ status
    /\ pc \in Routine \ {"leave"} => \A j \in 0 .. 3 : ~ status_dly[j]
    /\ pc = "leave" => left \in {0, 1} /\ ~ status_dly[0] /\ (left = 1 => ~ status_dly[1])
    /\ exception => pc = "task"

(* The service routine runs on a frame, the loop of irq0_handler within    *)
(* the bits of k.                                                          *)
Framed == pc \in Routine => stack # <<>>
Counted == pc \in {"switch", "bits", "ack", "handler", "loop"} => k < Bits

IInv == IrqTypeOK /\ TickParity /\ InterruptsOff /\ Framed /\ Counted

USE TimerAssumption, BoundsAssumption DEF TIMER

-----------------------------------------------------------------------------
LEMMA GotoType ==
    ASSUME NEW s \in Segments, Goto(s)
    PROVE  pc' = s /\ left' \in Nat
BY LengthAssumption DEF Goto

(* What the end of a cycle keeps: with no call of the handler the cause is *)
(* compared with what it was, with one it is toggled.                      *)
LEMMA ClockKeeps ==
    ASSUME NEW delays \in [0 .. 3 -> BOOLEAN], NEW inv \in BOOLEAN, NEW calls \in {0, 1},
           IrqTypeOK, Pending <=> (raised % 2 = 1), calls <= raised,
           (inv = timercause_inv) <=> calls = 0,
           Clock(delays, inv, calls)
    PROVE  /\ {status', timercause', timercause_inv'} \subseteq BOOLEAN
           /\ status_dly' \in [0 .. 3 -> BOOLEAN]
           /\ timer0' \in 0 .. Prescale - 1
           /\ timer1' \in Nat
           /\ raised' \in 0 .. Cap
           /\ Pending' <=> (raised' % 2 = 1)
           /\ (calls = 0 /\ raised >= 1) => raised' >= 1
           /\ status' = delays[0]
           /\ \A j \in 0 .. 3 : status_dly'[j] = delays[IF j < 3 THEN j + 1 ELSE 3]
<1> DEFINE e == IF Event THEN 1 ELSE 0
           n == raised - calls + e
<1>1. raised \in 0 .. Cap /\ e \in {0, 1} /\ n \in 0 .. Cap + 1
  BY DEF IrqTypeOK
<1>2. raised' = IF n > Cap THEN n - 2 ELSE n
  BY DEF Clock, Owed
<1>3. raised' \in 0 .. Cap /\ ((calls = 0 /\ raised >= 1) => raised' >= 1)
  BY <1>1, <1>2
<1>4. raised' % 2 = n % 2
  BY <1>1, <1>2
<1>5. (n % 2 = 1) <=> ((raised % 2 = 1) # (calls # e))
  BY <1>1
<1>6. {status', timercause', timercause_inv'} \subseteq BOOLEAN /\ status_dly' \in [0 .. 3 -> BOOLEAN]
  BY DEF Clock, IrqTypeOK
<1>7. Pending' <=> (Pending # (calls # e))
  <2>1. timercause' = (timercause # Event) /\ timercause_inv' = inv
    BY DEF Clock
  <2>2. timercause \in BOOLEAN /\ timercause_inv \in BOOLEAN /\ Event \in BOOLEAN
    BY DEF IrqTypeOK, Event
  <2> QED BY <1>1, <2>1, <2>2 DEF Pending
<1>8. timer0' \in 0 .. Prescale - 1
  BY DEF Clock, IrqTypeOK
<1>9. timer1' \in Nat
  BY DEF Clock, IrqTypeOK
<1> QED
  BY <1>3, <1>4, <1>5, <1>6, <1>7, <1>8, <1>9 DEF Clock

LEMMA TickKeeps ==
    ASSUME IInv, Tick
    PROVE  /\ {status', timercause', timercause_inv'} \subseteq BOOLEAN
           /\ status_dly' \in [0 .. 3 -> BOOLEAN]
           /\ timer0' \in 0 .. Prescale - 1
           /\ timer1' \in Nat
           /\ raised' \in 0 .. Cap
           /\ Pending' <=> (raised' % 2 = 1)
           /\ raised >= 1 => raised' >= 1
           /\ (\A j \in 0 .. 3 : ~ status_dly[j]) => ~ status' /\ \A j \in 0 .. 3 : ~ status_dly'[j]
           /\ ~ status_dly[0] => ~ status'
           /\ ~ status_dly[1] => ~ status_dly'[0]
<1>1. status_dly \in [0 .. 3 -> BOOLEAN] /\ timercause_inv \in BOOLEAN /\ 0 <= raised /\ IrqTypeOK
  BY DEF IInv, IrqTypeOK
<1>2. Pending <=> (raised % 2 = 1)
  BY DEF IInv, TickParity
<1>3. Clock(status_dly, timercause_inv, 0)
  BY DEF Tick
<1> QED
  BY <1>1, <1>2, <1>3, ClockKeeps

(* What is left of IInv' after a cycle that only delays: the code's own    *)
(* variables.                                                              *)
Software ==
    /\ {exception, called, ran} \subseteq BOOLEAN
    /\ pc \in Segments \cup {"task"}
    /\ left \in Nat
    /\ stack \in Seq([pc : {"task", "longjmp"}, left : Nat])
    /\ k \in 0 .. Bits
    /\ pc = "ack" => raised >= 1
    /\ exception => pc = "task"
    /\ Framed
    /\ Counted

LEMMA SoftwareNow == IInv => Software
BY DEF IInv, IrqTypeOK, TickParity, InterruptsOff, Software

LEMMA Cycle ==
    ASSUME IInv, Tick, Software',
           pc' \in Routine \ {"leave"} => pc \in Routine \ {"leave"},
           pc' = "leave" => pc = "leave" /\ left = 1 /\ left' = 0
    PROVE  IInv'
<1> USE TickKeeps
<1>1. IrqTypeOK'
  BY DEF IrqTypeOK, Software
<1>2. TickParity'
  BY DEF TickParity, Software
<1>3. InterruptsOff'
  <2>1. CASE pc' \in Routine \ {"leave"}
    BY <2>1 DEF IInv, InterruptsOff, Software
  <2>2. CASE pc' = "leave"
    BY <2>2 DEF IInv, InterruptsOff, Software
  <2>3. CASE pc' \notin Routine
    <3>1. pc' # "leave"
      BY <2>3 DEF Routine, Segments
    <3> QED BY <2>3, <3>1 DEF InterruptsOff, Software
  <2> QED BY <2>1, <2>2, <2>3
<1> QED
  BY <1>1, <1>2, <1>3 DEF IInv, Software

(* Instructions of tasks, and those before the last of a segment. *)
LEMMA PlainIInv == IInv /\ (Plain \/ Run \/ Ecall) => IInv'
<1> SUFFICES ASSUME IInv, Plain \/ Run \/ Ecall PROVE IInv'
  OBVIOUS
<1>1. Tick /\ pc' = pc /\ left' \in Nat /\ stack' = stack /\ k' = k /\ (pc = "leave" => left = 1 /\ left' = 0)
  <2>1. pc = "leave" => left \in {0, 1}
    BY DEF IInv, InterruptsOff
  <2>2. left \in Nat
    BY DEF IInv, IrqTypeOK
  <2> QED BY <2>1, <2>2 DEF Plain, Run, Ecall, Last
<1>2. {exception', called', ran'} \subseteq BOOLEAN /\ (exception' => pc = "task")
  <2>1. Software
    BY SoftwareNow
  <2>2. CASE Plain
    BY <2>1, <2>2 DEF Plain, Software
  <2>3. CASE Run
    BY <2>1, <2>3 DEF Run, Software
  <2>4. CASE Ecall
    BY <2>1, <2>4 DEF Ecall, Last, Software
  <2> QED BY <2>2, <2>3, <2>4
<1>3. pc = "ack" => raised' >= 1
  BY <1>1, TickKeeps, SoftwareNow DEF Software, IInv, IrqTypeOK
<1>4. Software'
  BY <1>1, <1>2, <1>3, SoftwareNow DEF Software, Framed, Counted
<1> QED
  BY <1>1, <1>4, Cycle

(* irq0_handler and the exception handler. *)
LEMMA ServiceIInv ==
    IInv /\ (ReadCause \/ Switch \/ ReadTimers \/ Loop \/ ExceptionHandler) => IInv'
<1> SUFFICES ASSUME IInv, ReadCause \/ Switch \/ ReadTimers \/ Loop \/ ExceptionHandler PROVE IInv'
  OBVIOUS
<1>1. Tick /\ pc \in Routine \ {"leave"} /\ stack' = stack /\ exception' = exception /\ ran' = ran
  BY DEF ReadCause, Switch, ReadTimers, Loop, ExceptionHandler, Last, Routine, Segments
<1>2. /\ pc' \in {"switch", "exception", "bits", "loop", "ack", "restore"}
      /\ left' \in Nat
      /\ called' \in BOOLEAN
  <2>1. \A s \in {"switch", "exception", "bits", "loop", "ack", "restore"} :
           Goto(s) => pc' = s /\ left' \in Nat
    BY GotoType DEF Segments
  <2> QED BY <2>1, SoftwareNow DEF ReadCause, Switch, ReadTimers, Loop, ExceptionHandler, Software
<1>3. pc' = "ack" => Pending
  BY DEF ReadCause, Switch, ReadTimers, Loop, ExceptionHandler, Goto
<1>4. pc' = "ack" => raised' >= 1
  <2>1. Pending => raised >= 1
    BY DEF IInv, TickParity, IrqTypeOK
  <2> QED BY <1>1, <1>3, <2>1, TickKeeps
<1>5. k' \in 0 .. Bits /\ Counted'
  <2>1. CASE ReadCause
    BY <2>1, SoftwareNow DEF ReadCause, Goto, Counted, Software
  <2>2. CASE Switch \/ ReadTimers
    BY <2>2, SoftwareNow DEF Switch, ReadTimers, Last, Counted, Software
  <2>3. CASE Loop
    BY <2>3, SoftwareNow DEF Loop, Last, Goto, Counted, Software
  <2>4. CASE ExceptionHandler
    BY <2>4, SoftwareNow DEF ExceptionHandler, Goto, Counted, Software
  <2> QED BY <2>1, <2>2, <2>3, <2>4
<1>6. ~ exception
  BY <1>1, SoftwareNow DEF Software, Routine, Segments
<1>7. Software'
  BY <1>1, <1>2, <1>4, <1>5, <1>6, SoftwareNow DEF Software, Framed, Segments
<1> QED
  BY <1>1, <1>2, <1>7, Cycle

LEMMA EnterIInv == IInv /\ Enter => IInv'
<1> SUFFICES ASSUME IInv, Enter PROVE IInv'
  OBVIOUS
<1>1. Software /\ status_dly \in [0 .. 3 -> BOOLEAN] /\ timercause_inv \in BOOLEAN /\ IrqTypeOK
  BY SoftwareNow DEF IInv, IrqTypeOK
<1>2. Off \in [0 .. 3 -> BOOLEAN] /\ \A j \in 0 .. 3 : ~ Off[j]
  BY DEF Off
<1>3. pc' = "entry" /\ left' \in Nat
  BY GotoType DEF Enter, Segments
<1>4. pc \in {"task", "longjmp"}
  BY <1>1 DEF IInv, InterruptsOff, Enter, Taken, Routine, Software
<1>5. stack' \in Seq([pc : {"task", "longjmp"}, left : Nat]) /\ stack' # <<>>
  <2> DEFINE frame == [pc |-> pc, left |-> left]
  <2>1. frame \in [pc : {"task", "longjmp"}, left : Nat]
    BY <1>1, <1>4 DEF Software
  <2>2. <<frame>> \in Seq([pc : {"task", "longjmp"}, left : Nat]) /\ Len(<<frame>>) = 1
    BY <2>1
  <2>3. stack' = <<frame>> \o stack
    BY DEF Enter
  <2>4. stack' \in Seq([pc : {"task", "longjmp"}, left : Nat]) /\ Len(stack') = 1 + Len(stack)
    BY <1>1, <2>2, <2>3, ConcatProperties DEF Software
  <2>5. Len(stack) \in Nat
    BY <1>1 DEF Software
  <2> QED BY <2>4, <2>5
<1>6. /\ {status', timercause', timercause_inv'} \subseteq BOOLEAN
      /\ status_dly' \in [0 .. 3 -> BOOLEAN]
      /\ timer0' \in 0 .. Prescale - 1 /\ timer1' \in Nat /\ raised' \in 0 .. Cap
      /\ Pending' <=> (raised' % 2 = 1)
      /\ ~ status' /\ \A j \in 0 .. 3 : ~ status_dly'[j]
  <2>1. (Pending <=> (raised % 2 = 1)) /\ 0 <= raised
    BY DEF IInv, TickParity, IrqTypeOK
  <2>2. Clock(Off, timercause_inv, 0)
    BY DEF Enter
  <2> QED BY <1>1, <1>2, <2>1, <2>2, ClockKeeps
<1>7. k' = k /\ called' = called /\ ran' = ran /\ exception' = FALSE
  BY DEF Enter
<1>8. IrqTypeOK'
  BY <1>1, <1>3, <1>5, <1>6, <1>7 DEF IrqTypeOK, Segments
<1>9. TickParity' /\ InterruptsOff' /\ Framed' /\ Counted'
  BY <1>3, <1>5, <1>6, <1>7 DEF TickParity, InterruptsOff, Framed, Counted
<1> QED
  BY <1>8, <1>9 DEF IInv

LEMMA AcknowledgeIInv == IInv /\ Acknowledge => IInv'
<1> SUFFICES ASSUME IInv, Acknowledge PROVE IInv'
  OBVIOUS
<1>1. Software /\ status_dly \in [0 .. 3 -> BOOLEAN] /\ timercause_inv \in BOOLEAN /\ IrqTypeOK
  BY SoftwareNow DEF IInv, IrqTypeOK
<1>2. pc = "ack" /\ pc' = "handler" /\ left' \in Nat
  BY GotoType DEF Acknowledge, Last, Segments
<1>3. \A j \in 0 .. 3 : ~ status_dly[j]
  BY <1>2 DEF IInv, InterruptsOff, Routine, Segments
<1>4. /\ {status', timercause', timercause_inv'} \subseteq BOOLEAN
      /\ status_dly' \in [0 .. 3 -> BOOLEAN]
      /\ timer0' \in 0 .. Prescale - 1 /\ timer1' \in Nat /\ raised' \in 0 .. Cap
      /\ Pending' <=> (raised' % 2 = 1)
      /\ ~ status' /\ \A j \in 0 .. 3 : ~ status_dly'[j]
  <2>1. (Pending <=> (raised % 2 = 1)) /\ 1 <= raised
    BY <1>2 DEF IInv, TickParity
  <2>2. Clock(status_dly, ~ timercause_inv, 1)
    BY DEF Acknowledge
  <2>3. (~ timercause_inv) \in BOOLEAN
    BY <1>1
  <2>4. PICK inv \in BOOLEAN : inv = ~ timercause_inv
    BY <2>3
  <2>5. Clock(status_dly, inv, 1)
    BY <2>2, <2>4
  <2>6. /\ {status', timercause', timercause_inv'} \subseteq BOOLEAN
        /\ status_dly' \in [0 .. 3 -> BOOLEAN]
        /\ timer0' \in 0 .. Prescale - 1 /\ timer1' \in Nat /\ raised' \in 0 .. Cap
        /\ Pending' <=> (raised' % 2 = 1)
        /\ status' = status_dly[0]
        /\ \A j \in 0 .. 3 : status_dly'[j] = status_dly[IF j < 3 THEN j + 1 ELSE 3]
    <3>1. (inv = timercause_inv) <=> 1 = 0
      BY <1>1, <2>4
    <3>2. 1 \in {0, 1} /\ IrqTypeOK /\ (Pending <=> (raised % 2 = 1)) /\ 1 <= raised
      BY <1>1, <2>1
    <3> QED BY ONLY <1>1, <2>5, <3>1, <3>2, ClockKeeps
  <2>7. ~ status' /\ \A j \in 0 .. 3 : ~ status_dly'[j]
    BY <1>3, <2>6
  <2> QED BY <2>6, <2>7
<1>5. UNCHANGED <<exception, stack, k, called, ran>>
  BY DEF Acknowledge
<1>6. ~ exception /\ stack # <<>> /\ k < Bits
  BY <1>1, <1>2 DEF Software, Framed, Counted, Routine, Segments
<1>7. IrqTypeOK'
  BY <1>1, <1>2, <1>4, <1>5 DEF IrqTypeOK, Segments
<1>8. TickParity' /\ InterruptsOff' /\ Framed' /\ Counted'
  BY <1>2, <1>4, <1>5, <1>6 DEF TickParity, InterruptsOff, Framed, Counted
<1> QED
  BY <1>7, <1>8 DEF IInv

(* The two stores that enable interrupts, by the handler that switches     *)
(* tasks and by _restore.                                                  *)
LEMMA EnabledKeeps ==
    ASSUME IInv, Clock(Enabled, timercause_inv, 0), pc \in Routine \ {"leave"}
    PROVE  /\ {status', timercause', timercause_inv'} \subseteq BOOLEAN
           /\ status_dly' \in [0 .. 3 -> BOOLEAN]
           /\ timer0' \in 0 .. Prescale - 1 /\ timer1' \in Nat /\ raised' \in 0 .. Cap
           /\ Pending' <=> (raised' % 2 = 1)
           /\ ~ status' /\ ~ status_dly'[0] /\ ~ status_dly'[1]
<1>1. status_dly \in [0 .. 3 -> BOOLEAN] /\ timercause_inv \in BOOLEAN /\ IrqTypeOK
  BY DEF IInv, IrqTypeOK
<1>2. Enabled \in [0 .. 3 -> BOOLEAN] /\ ~ Enabled[0] /\ ~ Enabled[1] /\ ~ Enabled[2]
  BY <1>1 DEF Enabled, IInv, InterruptsOff
<1>3. (Pending <=> (raised % 2 = 1)) /\ 0 <= raised
  BY DEF IInv, TickParity, IrqTypeOK
<1> QED
  BY <1>1, <1>2, <1>3, ClockKeeps

LEMMA HandlerIInv == IInv /\ Handler => IInv'
<1> SUFFICES ASSUME IInv, Handler PROVE IInv'
  OBVIOUS
<1>1. pc = "handler" /\ UNCHANGED <<exception, stack, k, called, ran>> /\ Software
  BY SoftwareNow DEF Handler, Last
<1>2. ~ exception /\ stack # <<>> /\ k < Bits
  BY <1>1 DEF Software, Framed, Counted, Routine, Segments
<1>3. CASE Goto("longjmp") /\ Clock(Enabled, timercause_inv, 0)
  <2>1. pc' = "longjmp" /\ left' \in Nat /\ Clock(Enabled, timercause_inv, 0)
    BY <1>3, GotoType DEF Segments
  <2>2. pc \in Routine \ {"leave"}
    BY <1>1 DEF Routine, Segments
  <2>3. IrqTypeOK'
    BY <1>1, <2>1, <2>2, EnabledKeeps DEF IrqTypeOK, Software, Segments
  <2>4. TickParity' /\ InterruptsOff' /\ Framed' /\ Counted'
    BY <1>1, <1>2, <2>1, <2>2, EnabledKeeps DEF TickParity, InterruptsOff, Framed, Counted, Routine
  <2> QED BY <2>3, <2>4 DEF IInv
<1>4. CASE Goto("loop") /\ Tick
  <2>1. pc' = "loop" /\ left' \in Nat /\ Tick
    BY <1>4, GotoType DEF Segments
  <2>2. pc \in Routine \ {"leave"}
    BY <1>1 DEF Routine, Segments
  <2>3. Software'
    BY <1>1, <1>2, <2>1 DEF Software, Framed, Counted, Segments
  <2> QED BY <2>1, <2>2, <2>3, Cycle
<1> QED BY <1>3, <1>4 DEF Handler

LEMMA RestoreIInv == IInv /\ Restore => IInv'
<1> SUFFICES ASSUME IInv, Restore PROVE IInv'
  OBVIOUS
<1>1. pc = "restore" /\ UNCHANGED <<exception, stack, k, called, ran>> /\ Software
  BY SoftwareNow DEF Restore, Last
<1>2. pc \in Routine \ {"leave"} /\ ~ exception /\ stack # <<>>
  BY <1>1 DEF Software, Framed, Routine, Segments
<1>3. pc' = "leave" /\ left' = 1 /\ Clock(Enabled, timercause_inv, 0)
  BY LeaveAssumption DEF Restore, Goto
<1>4. IrqTypeOK'
  BY <1>1, <1>2, <1>3, EnabledKeeps DEF IrqTypeOK, Software, Segments
<1>5. TickParity' /\ InterruptsOff' /\ Framed' /\ Counted'
  BY <1>1, <1>2, <1>3, EnabledKeeps DEF TickParity, InterruptsOff, Framed, Counted, Routine
<1> QED BY <1>4, <1>5 DEF IInv

(* Back to a task, or to the longjmp that was interrupted. *)
LEMMA BackIInv == IInv /\ (Longjmp \/ Leave) => IInv'
<1> SUFFICES ASSUME IInv, Longjmp \/ Leave PROVE IInv'
  OBVIOUS
<1>1. Tick /\ UNCHANGED <<exception, k, called>> /\ ran' = FALSE /\ Software
  BY SoftwareNow DEF Longjmp, Leave
<1>2. pc \in {"longjmp", "leave"} /\ ~ exception
  BY <1>1 DEF Longjmp, Leave, Last, Software
<1>3. /\ pc' \in {"task", "longjmp"} /\ left' \in Nat
      /\ stack' \in Seq([pc : {"task", "longjmp"}, left : Nat])
  <2>1. CASE Longjmp
    BY <2>1 DEF Longjmp
  <2>2. CASE Leave
    <3>1. stack # <<>> /\ stack \in Seq([pc : {"task", "longjmp"}, left : Nat])
      BY <1>1, <2>2 DEF Leave, Last, Software, Framed, Routine, Segments
    <3>2. Head(stack) \in [pc : {"task", "longjmp"}, left : Nat]
          /\ Tail(stack) \in Seq([pc : {"task", "longjmp"}, left : Nat])
      BY <3>1, HeadTailProperties
    <3> QED BY <2>2, <3>2 DEF Leave
  <2> QED BY <2>1, <2>2
<1>4. Software'
  BY <1>1, <1>2, <1>3 DEF Software, Framed, Counted, Routine, Segments
<1>5. pc' \notin Routine
  BY <1>3 DEF Routine, Segments
<1>6. pc' # "leave"
  BY <1>3
<1> QED BY <1>1, <1>4, <1>5, <1>6, Cycle
-----------------------------------------------------------------------------
(* A task runs, with interrupts on. *)
LEMMA InitIInv == Init => IInv
<1> SUFFICES ASSUME Init PROVE IInv
  OBVIOUS
<1>1. IrqTypeOK
  <2>1. {status, exception, timercause, timercause_inv, called, ran} \subseteq BOOLEAN
    BY DEF Init
  <2>2. status_dly \in [0 .. 3 -> BOOLEAN] /\ timer0 \in 0 .. Prescale - 1 /\ timer1 \in Nat
    BY DEF Init
  <2>3. pc \in Segments \cup {"task"} /\ left \in Nat /\ k \in 0 .. Bits /\ raised \in 0 .. Cap
    BY DEF Init
  <2>4. stack \in Seq([pc : {"task", "longjmp"}, left : Nat])
    BY EmptySeq DEF Init
  <2> QED BY <2>1, <2>2, <2>3, <2>4 DEF IrqTypeOK
<1>2. TickParity
  <2>1. 0 % 2 = 0 /\ 1 % 2 = 1
    OBVIOUS
  <2>2. (raised = 1 /\ Pending) \/ (raised = 0 /\ ~ Pending)
    BY DEF Init, Pending
  <2>3. pc # "ack"
    BY DEF Init
  <2> QED BY <2>1, <2>2, <2>3 DEF TickParity
<1>3. InterruptsOff /\ Framed /\ Counted
  BY DEF Init, InterruptsOff, Framed, Counted, Routine, Segments
<1> QED BY <1>1, <1>2, <1>3 DEF IInv

(* The types, and the invariant they need, of every configuration of the   *)
(* timer and every length of the code.                                     *)
THEOREM IrqInvariant == Spec => []IInv
<1>1. Init => IInv
  BY InitIInv
<1>2. IInv /\ [Next]_vars => IInv'
  <2>1. IInv /\ Next => IInv'
    BY PlainIInv, ServiceIInv, EnterIInv, AcknowledgeIInv, HandlerIInv, RestoreIInv, BackIInv DEF Next
  <2>2. IInv /\ UNCHANGED vars => IInv'
    BY DEF vars, registers, IInv, IrqTypeOK, TickParity, Pending, InterruptsOff, Framed, Counted
  <2> QED BY <2>1, <2>2
<1> QED
  BY <1>1, <1>2, PTL DEF Spec

(* Every variable keeps its type; in particular only tasks and longjmp are *)
(* interrupted (the delay line of IRQ_STATUS, crt0.s).                     *)
THEOREM IrqTypes == Spec => []IrqTypeOK
<1>1. IInv => IrqTypeOK
  BY DEF IInv
<1> QED
  BY <1>1, IrqInvariant, PTL

(* The cause is up exactly when an odd number of CTC events is unhandled,  *)
(* and none is acknowledged that did not happen (TIMERCAUSE and            *)
(* TIMERCAUSEINV, irq0_handler).                                           *)
THEOREM Parity == Spec => []TickParity
<1>1. IInv => TickParity
  BY DEF IInv
<1> QED
  BY <1>1, IrqInvariant, PTL

(* No interrupt is taken between the store that enables them at the end of *)
(* _isr and its jump.                                                      *)
THEOREM LeavesAtomically == Spec => LeaveAtomic
<1>1. IInv /\ [Next]_vars => [Enter => pc # "leave"]_vars
  BY DEF IInv, InterruptsOff, Enter, Taken, Routine, Segments
<1> QED
  BY <1>1, IrqInvariant, PTL DEF Spec, LeaveAtomic
-----------------------------------------------------------------------------
(***************************************************************************)
(* Under ShortHandlers, no event is lost.  The invariant follows the way   *)
(* from an event to the first instruction of the task dispatched: Way      *)
(* holds on it, Remaining bounds the cycles left, and OnTime says that     *)
(* they end before the next event.                                         *)
(***************************************************************************)
Period == CTC * Prescale

(* Cycles since the last CTC event. *)
Since == timer1 * Prescale + timer0

Way == raised = 1 \/ pc \in {"handler", "longjmp"}

(* Cycles until the delay line has turned interrupts on. *)
Wait ==
    CASE status -> 0
      [] ~ status /\ status_dly[0] -> 1
      [] ~ status /\ ~ status_dly[0] /\ status_dly[1] -> 2
      [] ~ status /\ ~ status_dly[0] /\ ~ status_dly[1] /\ status_dly[2] -> 3
      [] OTHER -> 4

(* Cycles after the segment, to the first instruction of the next task. *)
After ==
    CASE pc = "task"      -> Wait + Service - 1
      [] pc = "entry"     -> AfterEntry
      [] pc = "switch"    -> AfterSwitch(k)
      [] pc = "loop"      -> Cost("switch") + AfterSwitch(k + 1)
      [] pc = "bits"      -> AfterBits
      [] pc = "ack"       -> AfterAck
      [] pc = "handler"   -> AfterHandler
      [] pc = "longjmp"   -> 1
      [] pc = "exception" -> Cost("restore") + 3 + Service
      [] pc = "restore"   -> 3 + Service
      [] pc = "leave"     -> 1 + Service
      [] OTHER            -> 0

Remaining == left + 1 + After

(* TIMER1 counts to TIMER1CTC and no further. *)
Clocked == timer1 <= CTC /\ (timer1 = CTC => timer0 = 0)

(* One interrupt at a time, of task code; irq0_handler gets to the timers  *)
(* without turning round.                                                  *)
Shape ==
    /\ stack = IF pc = "task" THEN <<>> ELSE <<[pc |-> "task", left |-> 0]>>
    /\ IF pc = "task" THEN left = 0 ELSE left + 1 <= Cost(pc)
    /\ pc = "switch" => k <= TIMER
    /\ pc = "loop" => k < TIMER

(* The loop of irq0_handler has an event to handle; timer1ctc_handler and  *)
(* longjmp run before the next one.                                        *)
Owing ==
    /\ raised <= 1
    /\ pc \in {"switch", "loop", "bits", "ack"} => raised = 1
    /\ pc \in {"handler", "longjmp"} => raised = 0

(* Only an ecall brings _isr in without an event. *)
Ecalls ==
    /\ exception => called /\ ran
    /\ pc = "exception" => called
    /\ pc = "entry" /\ raised = 0 => called

(* Outside of the routine interrupts are on or coming on, and not before   *)
(* the task has run when an event waits.                                   *)
ComingOn ==
    /\ pc \notin Routine => status_dly[3]
    /\ pc \notin Routine \ {"leave"} =>
          (status => status_dly[0]) /\ \A j \in 0 .. 2 : status_dly[j] => status_dly[j + 1]
    /\ pc = "leave" => status_dly[2] /\ (left = 0 => status_dly[1])
    /\ pc = "task" /\ ~ ran => raised = 0 \/ (~ status /\ status_dly[0])

OnTime == Way => Since + Remaining <= Period + 1

DInv == IInv /\ Clocked /\ Shape /\ Owing /\ Ecalls /\ ComingOn /\ OnTime

(* The lengths of a segment are bounded by its cost. *)
LEMMA CostBounds ==
    ASSUME ShortHandlers, NEW s \in Segments
    PROVE  Cost(s) \in Nat /\ 1 <= Cost(s) /\ \A n \in Length[s] : n + 1 <= Cost(s)
<1> DEFINE Most(n) == \A m \in Length[s] : m <= n
           top == CHOOSE n \in Length[s] : Most(n)
<1>1. \E n \in Length[s] : Most(n)
  BY DEF ShortHandlers
<1>2. top \in Length[s] /\ Most(top)
  BY <1>1
<1>3. Length[s] \subseteq Nat
  BY LengthAssumption
<1>4. Cost(s) = 1 + top
  BY DEF Cost
<1> HIDE DEF top
<1> QED BY <1>2, <1>3, <1>4

(* The way of an event in cycles, as ShortHandlers bounds it. *)
LEMMA Costs ==
    ASSUME ShortHandlers
    PROVE  /\ \A s \in Segments : Cost(s) \in Nat /\ 1 <= Cost(s)
           /\ Cost("leave") = 2
           /\ {AfterHandler, AfterAck, AfterBits, AfterEntry, Service, Period} \subseteq Nat
           /\ \A j \in 0 .. TIMER : AfterSwitch(j) \in Nat
           /\ 2 <= AfterHandler /\ AfterHandler < AfterAck /\ AfterAck < AfterBits
           /\ \A j \in 0 .. TIMER : AfterBits < AfterSwitch(j) /\ AfterSwitch(j) <= AfterSwitch(0)
           /\ AfterSwitch(0) < AfterEntry /\ AfterEntry < Service
           /\ Cost("exception") + Cost("restore") + 3 + Service <= Period
           /\ Prescale + Service <= Period + 2
<1>1. \A s \in Segments : Cost(s) \in Nat /\ 1 <= Cost(s)
  BY CostBounds
<1>2. Cost("leave") = 2
  BY LeaveAssumption DEF Cost
<1>3. /\ Cost("exception") + Cost("restore") + Cost("leave") + 1 + Service <= Period
      /\ Prescale + Service <= Period + 2
  BY DEF ShortHandlers, Period
<1>4. Period \in Nat
  BY DEF Period
<1>5. {"entry", "switch", "bits", "ack", "loop", "handler", "longjmp", "exception", "restore"} \subseteq Segments
  BY DEF Segments
<1> HIDE DEF Cost, Period, Segments
<1>6. AfterHandler \in Nat /\ 2 <= AfterHandler
  BY <1>1, <1>5 DEF AfterHandler
<1>7. AfterAck \in Nat /\ AfterHandler < AfterAck
  BY <1>1, <1>5, <1>6 DEF AfterAck
<1>8. AfterBits \in Nat /\ AfterAck < AfterBits
  BY <1>1, <1>5, <1>7 DEF AfterBits
<1>9. \A j \in 0 .. TIMER : AfterSwitch(j) \in Nat /\ AfterBits < AfterSwitch(j) /\ AfterSwitch(j) <= AfterSwitch(0)
  BY <1>1, <1>5, <1>8 DEF AfterSwitch
<1>10. AfterEntry \in Nat /\ AfterSwitch(0) < AfterEntry
  BY <1>1, <1>5, <1>9 DEF AfterEntry
<1>11. Service \in Nat /\ AfterEntry < Service
  BY <1>1, <1>5, <1>10 DEF Service
<1>12. Cost("exception") + Cost("restore") + 3 + Service <= Period
  BY <1>1, <1>2, <1>3, <1>5, <1>11
<1> QED
  BY <1>1, <1>2, <1>3, <1>4, <1>6, <1>7, <1>8, <1>9, <1>10, <1>11, <1>12

(* One cycle: TIMER1 counts it, and the event comes after Period of them.  *)
LEMMA Elapse ==
    ASSUME IrqTypeOK, Clocked, raised <= 1, NEW delays, NEW inv, NEW calls \in {0, 1},
           calls <= raised, Clock(delays, inv, calls)
    PROVE  /\ Clocked'
           /\ Event => Since = Period
           /\ Since' = IF Event THEN 1 ELSE Since + 1
           /\ raised' = raised - calls + (IF Event THEN 1 ELSE 0)
           /\ status' = delays[0]
           /\ \A j \in 0 .. 3 : status_dly'[j] = delays[IF j < 3 THEN j + 1 ELSE 3]
<1>1. timer0 \in 0 .. Prescale - 1 /\ timer1 \in Nat /\ raised \in {0, 1}
  BY DEF IrqTypeOK
<1>2. raised' = raised - calls + (IF Event THEN 1 ELSE 0)
  BY <1>1 DEF Clock, Owed
<1>3. timer0' = IF timer0 = Prescale - 1 THEN 0 ELSE timer0 + 1
  BY <1>1 DEF Clock
<1>4. timer1' = (IF Event THEN 0 ELSE timer1) + (IF timer0' = 0 THEN 1 ELSE 0)
  BY DEF Clock
<1>5. Event => timer1 = CTC /\ timer0 = 0
  BY DEF Event, Clocked
<1>6. CASE Event
  <2>1. Since = Period
    BY <1>1, <1>5, <1>6 DEF Since, Period
  <2>2. CASE Prescale = 1
    <3>1. timer0' = 0 /\ timer1' = 1
      BY <1>3, <1>4, <1>5, <1>6, <2>2
    <3> QED BY <1>2, <1>6, <2>1, <2>2, <3>1 DEF Since, Clocked, Clock
  <2>3. CASE Prescale # 1
    <3>1. timer0' = 1 /\ timer1' = 0
      BY <1>3, <1>4, <1>5, <1>6, <2>3
    <3>2. Since' = 1
      BY <3>1 DEF Since
    <3> QED BY <1>2, <1>6, <2>1, <3>1, <3>2 DEF Clocked, Clock
  <2> QED BY <2>2, <2>3
<1>7. CASE ~ Event
  <2>1. timer1 < CTC
    BY <1>1, <1>7 DEF Event, Clocked
  <2>2. Since' = Since + 1
    <3>1. CASE timer0 = Prescale - 1
      <4>1. timer0' = 0 /\ timer1' = timer1 + 1
        BY <1>1, <1>3, <1>4, <1>7, <3>1
      <4>2. (timer1 + 1) * Prescale = timer1 * Prescale + Prescale
        BY <1>1
      <4>3. timer1 * Prescale \in Int
        BY <1>1
      <4> QED BY <1>1, <3>1, <4>1, <4>2, <4>3 DEF Since
    <3>2. CASE timer0 # Prescale - 1
      <4>1. timer0' = timer0 + 1 /\ timer1' = timer1
        BY <1>1, <1>3, <1>4, <1>7, <3>2
      <4> QED BY <1>1, <4>1 DEF Since
    <3> QED BY <3>1, <3>2
  <2>3. Clocked'
    BY <1>1, <1>3, <1>4, <1>7, <2>1 DEF Clocked
  <2> QED BY <1>2, <1>7, <2>2, <2>3 DEF Clock
<1> QED BY <1>6, <1>7

(* From anywhere, the next task is at most a period away; and on the way   *)
(* there is one more instruction before it.                                *)
LEMMA Bounded ==
    ShortHandlers /\ IInv /\ Shape => Remaining \in 2 .. Period
<1> SUFFICES ASSUME ShortHandlers, IInv, Shape PROVE Remaining \in 2 .. Period
  OBVIOUS
<1> USE Costs
<1>1. pc \in Segments \cup {"task"} /\ left \in Nat /\ k \in Nat
  BY DEF IInv, IrqTypeOK
<1>2. CASE pc = "task"
  <2>1. Wait \in 0 .. 4
    BY DEF Wait
  <2>2. left = 0 /\ After = Wait + Service - 1
    BY <1>2 DEF Shape, After
  <2>3. Cost("exception") \in Nat \ {0} /\ Cost("restore") \in Nat \ {0} /\ Service \in Nat /\ 4 <= Service
    BY DEF Segments
  <2> QED BY <2>1, <2>2, <2>3 DEF Remaining
<1>3. CASE pc # "task"
  <2>1. pc \in Segments /\ Cost(pc) \in Nat /\ left + 1 <= Cost(pc)
    BY <1>1, <1>3 DEF Shape
  <2>2. \A s \in Segments : Cost(s) \in Nat \ {0}
    OBVIOUS
  <2>3. {"entry", "switch", "bits", "ack", "loop", "handler", "longjmp", "exception", "restore", "leave"}
          \subseteq Segments
    BY DEF Segments
  <2>4. Cost("leave") = 2 /\ Cost("exception") + Cost("restore") + 3 + Service <= Period /\ Period \in Nat
        /\ Service \in Nat
    OBVIOUS
  <2>5. CASE pc \in {"exception", "restore", "leave"}
    BY <1>1, <2>1, <2>2, <2>3, <2>4, <2>5 DEF Remaining, After
  <2>6. CASE pc = "entry"
    BY <1>1, <2>1, <2>2, <2>3, <2>4, <2>6 DEF Remaining, After, Service
  <2>7. CASE pc = "switch"
    <3>1. k \in 0 .. TIMER /\ After = AfterSwitch(k)
      BY <1>1, <2>7 DEF Shape, After
    <3>2. After \in Nat /\ 1 <= After /\ After <= AfterSwitch(0) /\ AfterEntry \in Nat
          /\ AfterEntry = Cost("switch") + AfterSwitch(0) /\ AfterEntry < Service /\ AfterSwitch(0) \in Nat
      BY <3>1 DEF AfterEntry
    <3> QED BY <1>1, <2>1, <2>2, <2>3, <2>4, <2>7, <3>2 DEF Remaining
  <2>8. CASE pc = "loop"
    <3>1. k + 1 \in 1 .. TIMER /\ After = Cost("switch") + AfterSwitch(k + 1)
      BY <1>1, <2>8 DEF Shape, After
    <3>2. /\ AfterSwitch(k + 1) \in Nat /\ AfterEntry \in Nat /\ AfterEntry < Service
          /\ AfterEntry = Cost("switch") + AfterSwitch(0) /\ AfterSwitch(0) \in Nat
      BY <3>1 DEF AfterEntry
    <3>3. Cost("loop") + Cost("switch") + AfterSwitch(k + 1) <= AfterSwitch(0)
      BY <3>1, <2>2, <2>3 DEF AfterSwitch
    <3> QED BY <1>1, <2>1, <2>2, <2>3, <2>4, <2>8, <3>1, <3>2, <3>3 DEF Remaining
  <2>9. CASE pc \in {"bits", "ack", "handler", "longjmp"}
    <3>1. After \in Nat /\ 1 <= After /\ Cost(pc) + After <= AfterSwitch(0)
      <4>1. CASE pc = "bits"
        BY <2>2, <2>3, <4>1 DEF After, AfterSwitch
      <4>2. CASE pc = "ack"
        BY <2>2, <2>3, <4>2 DEF After, AfterBits
      <4>3. CASE pc = "handler"
        BY <2>2, <2>3, <4>3 DEF After, AfterAck
      <4>4. CASE pc = "longjmp"
        BY <2>2, <2>3, <4>4 DEF After, AfterHandler
      <4> QED BY <2>9, <4>1, <4>2, <4>3, <4>4
    <3>2. AfterSwitch(0) \in Nat /\ AfterEntry \in Nat /\ AfterSwitch(0) < AfterEntry /\ AfterEntry < Service
      OBVIOUS
    <3> QED BY <1>1, <2>1, <2>2, <2>3, <2>4, <3>1, <3>2 DEF Remaining
  <2> QED BY <2>1, <2>5, <2>6, <2>7, <2>8, <2>9 DEF Segments
<1> QED BY <1>2, <1>3

LEMMA BoundedNext ==
    ShortHandlers /\ IInv' /\ Shape' => Remaining' \in 2 .. Period
<1>1. (ShortHandlers /\ IInv /\ Shape => Remaining \in 2 .. Period)'
  BY Bounded, PTL
<1>2. ShortHandlers => ShortHandlers'
  BY DEF ShortHandlers, Cost, Service, AfterEntry, AfterSwitch, AfterBits, AfterAck, AfterHandler
<1>3. Period' = Period
  BY DEF Period
<1> QED BY <1>1, <1>2, <1>3

(* A cycle on the way leaves one less to go; one that finds the event has  *)
(* the whole period before it.                                             *)
LEMMA Advance ==
    ASSUME ShortHandlers, DInv, IInv', Shape',
           NEW delays, NEW inv, NEW calls \in {0, 1}, Clock(delays, inv, calls),
           calls = 1 => pc = "ack",
           pc = "ack" /\ pc' = "handler" => calls = 1,
           pc' \in {"handler", "longjmp"} => Way,
           Way => Remaining' <= Remaining - 1 \/ (pc = "longjmp" /\ pc' = "task")
    PROVE  /\ Clocked' /\ OnTime' /\ raised' <= 1
           /\ Way => raised' = raised - calls
           /\ status' = delays[0]
           /\ \A j \in 0 .. 3 : status_dly'[j] = delays[IF j < 3 THEN j + 1 ELSE 3]
<1>1. raised \in {0, 1} /\ IrqTypeOK /\ Clocked /\ Shape /\ calls <= raised
  BY DEF DInv, IInv, IrqTypeOK, Owing
<1>2. /\ Clocked'
      /\ Event => Since = Period
      /\ Since' = IF Event THEN 1 ELSE Since + 1
      /\ raised' = raised - calls + (IF Event THEN 1 ELSE 0)
      /\ status' = delays[0]
      /\ \A j \in 0 .. 3 : status_dly'[j] = delays[IF j < 3 THEN j + 1 ELSE 3]
  BY <1>1, Elapse
<1>3. Remaining \in 2 .. Period /\ Remaining' \in 2 .. Period
  BY <1>1, Bounded, BoundedNext DEF DInv
<1>4. Since \in Nat /\ Period \in Nat
  <2>1. timer1 \in Nat /\ timer0 \in Nat /\ CTC \in Nat /\ Prescale \in Nat
    BY <1>1, TimerAssumption DEF IrqTypeOK
  <2>2. timer1 * Prescale \in Nat /\ CTC * Prescale \in Nat
    BY ONLY <2>1
  <2> QED BY <2>1, <2>2 DEF Since, Period
<1>7. PICK rest : rest = Remaining'
  OBVIOUS
<1>8. rest \in 2 .. Period /\ Remaining \in 2 .. Period
  BY <1>3, <1>7
<1>5. CASE Way
  <2>1. Since + Remaining <= Period + 1
    BY <1>5 DEF DInv, OnTime
  <2>2. ~ Event
    <3>1. Since # Period
      BY ONLY <1>4, <1>8, <2>1
    <3> QED BY <1>2, <3>1
  <2>3. CASE Remaining' <= Remaining - 1
    <3>1. Since' = Since + 1 /\ rest <= Remaining - 1
      BY <1>2, <1>7, <2>2, <2>3
    <3>2. Since' + rest <= Period + 1
      BY <1>4, <1>8, <2>1, <3>1
    <3>3. Period' = Period
      BY DEF Period
    <3> QED BY <1>1, <1>2, <1>7, <2>2, <3>2, <3>3 DEF OnTime
  <2>4. CASE pc = "longjmp" /\ pc' = "task"
    BY <1>1, <1>2, <2>2, <2>4 DEF OnTime, Way, DInv, Owing
  <2> QED BY <1>5, <2>3, <2>4
<1>6. CASE ~ Way
  <2>1. raised = 0 /\ calls = 0
    BY <1>1, <1>6 DEF Way
  <2>2. Way' => Event
    BY <1>2, <1>6, <2>1 DEF Way
  <2>3. Way' => OnTime'
    <3>1. SUFFICES ASSUME Way' PROVE Since' + rest <= Period' + 1
      BY <1>7 DEF OnTime
    <3>2. Since' = 1
      BY <1>2, <2>2, <3>1
    <3>3. Since' + rest <= Period + 1
      BY ONLY <1>4, <1>8, <3>2
    <3> QED BY <3>3 DEF Period
  <2>4. raised' <= 1 /\ (~ Way' => OnTime')
    BY <1>2, <2>1 DEF OnTime
  <2> QED BY <1>2, <1>6, <2>3, <2>4
<1> QED BY <1>5, <1>6

LEMMA NextIInv == IInv /\ Next => IInv'
BY PlainIInv, ServiceIInv, EnterIInv, AcknowledgeIInv, HandlerIInv, RestoreIInv, BackIInv DEF Next

(* With one event at most outstanding the cause says whether there is.     *)
LEMMA PendingOnce ==
    ASSUME DInv
    PROVE  raised \in {0, 1} /\ (Pending <=> raised = 1)
<1>1. raised \in {0, 1}
  BY DEF DInv, IInv, IrqTypeOK, Owing
<1>2. Pending <=> (raised % 2 = 1)
  BY DEF DInv, IInv, TickParity
<1>3. 0 % 2 = 0 /\ 1 % 2 = 1
  OBVIOUS
<1> QED BY <1>1, <1>2, <1>3

(* A step within a segment or to the next one: what is left to show.       *)
LEMMA GotoShort ==
    ASSUME ShortHandlers, NEW s \in Segments, Goto(s)
    PROVE  pc' = s /\ left' \in Nat /\ left' + 1 <= Cost(s)
BY CostBounds, GotoType DEF Goto

(* The frame of the interrupted task stays while the routine runs.         *)
LEMMA RoutineShape ==
    ASSUME ShortHandlers, DInv, NEW s \in Segments, Goto(s), pc # "task", stack' = stack,
           s = "switch" => k' <= TIMER, s = "loop" => k' < TIMER
    PROVE  Shape'
<1>1. pc' = s /\ left' \in Nat /\ left' + 1 <= Cost(s)
  BY GotoShort
<1>2. s # "task"
  BY DEF Segments
<1>3. stack' = <<[pc |-> "task", left |-> 0]>>
  BY DEF DInv, Shape
<1> QED BY <1>1, <1>2, <1>3 DEF Shape

(* Enter: of task code, and not before the task has run.                   *)
LEMMA EnterTask ==
    ASSUME DInv, Enter
    PROVE  pc = "task" /\ ran /\ (raised = 0 => called)
<1>1. CASE exception
  BY <1>1 DEF DInv, IInv, InterruptsOff, Ecalls
<1>2. CASE status /\ Pending
  <2>1. raised = 1
    BY <1>2, PendingOnce
  <2>2. pc \notin Routine /\ pc \in Segments \cup {"task"}
    BY <1>2 DEF DInv, IInv, InterruptsOff, IrqTypeOK
  <2>3. pc # "longjmp"
    BY <2>1 DEF DInv, Owing
  <2>4. pc = "task"
    BY <2>2, <2>3 DEF Routine
  <2> QED BY <1>2, <2>1, <2>4 DEF DInv, ComingOn
<1> QED BY <1>1, <1>2 DEF Enter, Taken

LEMMA EnterDInv == ShortHandlers /\ DInv /\ Enter => DInv'
<1> SUFFICES ASSUME ShortHandlers, DInv, Enter PROVE DInv'
  OBVIOUS
<1>1. pc = "task" /\ stack = <<>> /\ left = 0 /\ (raised = 0 => called)
  BY EnterTask DEF DInv, Shape
<1>2. pc' = "entry" /\ left' \in Nat /\ left' + 1 <= Cost("entry")
  BY GotoShort DEF Enter, Segments
<1>3. IInv'
  BY NextIInv DEF DInv, Next
<1>4. Shape'
  <2>1. stack' = <<[pc |-> "task", left |-> 0]>>
    BY <1>1 DEF Enter
  <2> QED BY <1>2, <2>1 DEF Shape
<1>5. Remaining' <= Remaining - 1
  <2>1. Remaining' = left' + 1 + AfterEntry
    BY <1>2 DEF Remaining, After
  <2>2. Wait \in 0 .. 4 /\ Remaining = 0 + 1 + (Wait + Service - 1)
    BY <1>1 DEF Wait, Remaining, After
  <2>3. AfterEntry \in Nat /\ Cost("entry") \in Nat /\ Service = 1 + Cost("entry") + AfterEntry
    BY Costs DEF Segments, Service
  <2> QED BY <1>2, <2>1, <2>2, <2>3
<1>6. Clock(Off, timercause_inv, 0)
  BY DEF Enter
<1>7. Clocked' /\ OnTime' /\ raised' <= 1 /\ (Way => raised' = raised - 0)
  BY <1>1, <1>2, <1>3, <1>4, <1>5, <1>6, Advance
<1>8. Owing' /\ ComingOn'
  BY <1>2, <1>7 DEF Owing, ComingOn, Routine, Segments
<1>9. Ecalls'
  <2>1. ~ exception' /\ called' = called
    BY DEF Enter
  <2>2. raised' = 0 => raised = 0
    BY <1>7, PendingOnce DEF Way
  <2> QED BY <1>1, <1>2, <2>1, <2>2 DEF Ecalls
<1> QED BY <1>3, <1>4, <1>7, <1>8, <1>9 DEF DInv

(* The loop of irq0_handler, from the read of IRQ_CAUSE to the handler.    *)
LEMMA WayDInv ==
    ShortHandlers /\ DInv /\ (ReadCause \/ Switch \/ ReadTimers \/ Loop \/ Acknowledge) => DInv'
<1> SUFFICES ASSUME ShortHandlers, DInv,
                    ReadCause \/ Switch \/ ReadTimers \/ Loop \/ Acknowledge
             PROVE  DInv'
  OBVIOUS
<1> DEFINE calls == IF pc = "ack" THEN 1 ELSE 0
<1>1. /\ left = 0 /\ pc \in {"entry", "switch", "bits", "loop", "ack"}
      /\ UNCHANGED <<exception, stack, called, ran>>
      /\ calls \in {0, 1} /\ \E inv : Clock(status_dly, inv, calls)
  BY DEF ReadCause, Switch, ReadTimers, Loop, Acknowledge, Last, Tick
<1>2. raised \in {0, 1} /\ (Pending <=> raised = 1) /\ (pc # "entry" => raised = 1) /\ k \in Nat
  BY <1>1, PendingOnce DEF DInv, Owing, IInv, IrqTypeOK
<1>3. IInv'
  BY NextIInv DEF DInv, Next
<1>4. /\ pc' \in {"switch", "exception", "bits", "loop", "ack", "handler"}
      /\ pc' = "exception" => raised = 0 /\ called
      /\ pc' # "exception" => raised = 1
      /\ pc = "ack" <=> pc' = "handler"
      /\ Shape'
      /\ raised = 1 => Remaining' <= Remaining - 1
  <2>1. CASE ReadCause
    <3>1. CASE Pending
      <4>1. pc = "entry" /\ Goto("switch") /\ k' = 0 /\ raised = 1
        BY <1>2, <2>1, <3>1 DEF ReadCause, Last
      <4>2. pc' = "switch" /\ left' \in Nat /\ left' + 1 <= Cost("switch")
        BY <4>1, GotoShort DEF Segments
      <4>3. Shape'
        BY <1>1, <4>1, RoutineShape DEF Segments
      <4>4. Remaining' = left' + 1 + AfterSwitch(0)
        BY <4>1, <4>2 DEF Remaining, After
      <4>5. Remaining = 0 + 1 + AfterEntry
        BY <1>1, <4>1 DEF Remaining, After
      <4>6. AfterSwitch(0) \in Nat /\ Cost("switch") \in Nat /\ AfterEntry = Cost("switch") + AfterSwitch(0)
        BY Costs DEF Segments, AfterEntry
      <4>7. Remaining' <= Remaining - 1
        BY <4>2, <4>4, <4>5, <4>6
      <4> QED BY <4>1, <4>2, <4>3, <4>7
    <3>2. CASE ~ Pending
      <4>1. pc = "entry" /\ Goto("exception") /\ raised = 0
        BY <1>2, <2>1, <3>2 DEF ReadCause, Last
      <4>2. pc' = "exception" /\ Shape'
        BY <1>1, <4>1, GotoShort, RoutineShape DEF Segments
      <4>3. called
        BY <4>1 DEF DInv, Ecalls
      <4> QED BY <4>1, <4>2, <4>3
    <3> QED BY <3>1, <3>2
  <2>2. CASE Switch
    <3>1. pc = "switch" /\ k \in 0 .. TIMER /\ k' = k /\ raised = 1
      BY <1>2, <2>2 DEF Switch, Last, DInv, Shape
    <3>2. Remaining = 0 + 1 + AfterSwitch(k)
      BY <1>1, <3>1 DEF Remaining, After
    <3>3. CASE k = TIMER
      <4>1. Goto("bits")
        BY <1>2, <2>2, <3>1, <3>3 DEF Switch
      <4>2. pc' = "bits" /\ left' \in Nat /\ left' + 1 <= Cost("bits") /\ Shape'
        BY <1>1, <3>1, <4>1, GotoShort, RoutineShape DEF Segments
      <4>3. Remaining' = left' + 1 + AfterBits
        BY <4>2 DEF Remaining, After
      <4>4. AfterBits \in Nat /\ Cost("bits") \in Nat /\ AfterSwitch(k) = 0 + Cost("bits") + AfterBits
        BY <3>3, Costs DEF Segments, AfterSwitch
      <4>5. Remaining' <= Remaining - 1
        BY <3>2, <4>2, <4>3, <4>4
      <4> QED BY <3>1, <4>2, <4>5
    <3>4. CASE k # TIMER
      <4>1. Goto("loop") /\ k \in {0, 1}
        BY <2>2, <3>1, <3>4 DEF Switch
      <4>2. pc' = "loop" /\ left' \in Nat /\ left' + 1 <= Cost("loop") /\ Shape'
        BY <1>1, <3>1, <4>1, GotoShort, RoutineShape DEF Segments
      <4>3. Remaining' = left' + 1 + (Cost("switch") + AfterSwitch(k + 1))
        BY <3>1, <4>2 DEF Remaining, After
      <4>4. /\ AfterSwitch(k + 1) \in Nat /\ Cost("switch") \in Nat /\ Cost("loop") \in Nat
            /\ AfterSwitch(k) = Cost("loop") + Cost("switch") + AfterSwitch(k + 1)
        <5>1. Cost("switch") \in Nat /\ Cost("loop") \in Nat /\ Cost("bits") \in Nat /\ AfterBits \in Nat
          BY Costs DEF Segments
        <5> QED BY <4>1, <5>1 DEF AfterSwitch
      <4>5. Remaining' <= Remaining - 1
        BY <3>2, <4>2, <4>3, <4>4
      <4> QED BY <3>1, <4>2, <4>5
    <3> QED BY <3>3, <3>4
  <2>3. CASE ReadTimers
    <3>1. pc = "bits" /\ raised = 1 /\ Goto("ack")
      BY <1>2, <2>3 DEF ReadTimers, Last
    <3>2. pc' = "ack" /\ left' \in Nat /\ left' + 1 <= Cost("ack") /\ Shape'
      BY <1>1, <3>1, GotoShort, RoutineShape DEF Segments
    <3>3. Remaining = 0 + 1 + AfterBits /\ Remaining' = left' + 1 + AfterAck
      BY <1>1, <3>1, <3>2 DEF Remaining, After
    <3>4. AfterAck \in Nat /\ Cost("ack") \in Nat /\ AfterBits = Cost("ack") + AfterAck
      BY Costs DEF Segments, AfterBits
    <3>5. Remaining' <= Remaining - 1
      BY <3>2, <3>3, <3>4
    <3> QED BY <3>1, <3>2, <3>5
  <2>4. CASE Loop
    <3>1. pc = "loop" /\ k \in {0, 1} /\ k' = k + 1 /\ raised = 1
      BY <1>2, <2>4 DEF Loop, Last, DInv, Shape
    <3>2. Goto("switch")
      BY <1>2, <2>4, <3>1 DEF Loop
    <3>3. pc' = "switch" /\ left' \in Nat /\ left' + 1 <= Cost("switch") /\ Shape'
      BY <1>1, <3>1, <3>2, GotoShort, RoutineShape DEF Segments
    <3>4. /\ Remaining = 0 + 1 + (Cost("switch") + AfterSwitch(k + 1))
          /\ Remaining' = left' + 1 + AfterSwitch(k + 1)
      BY <1>1, <3>1, <3>3 DEF Remaining, After
    <3>5. AfterSwitch(k + 1) \in Nat /\ Cost("switch") \in Nat
      BY <3>1, Costs DEF Segments
    <3>6. Remaining' <= Remaining - 1
      BY <3>3, <3>4, <3>5
    <3> QED BY <3>1, <3>3, <3>6
  <2>5. CASE Acknowledge
    <3>1. pc = "ack" /\ raised = 1 /\ Goto("handler")
      BY <1>2, <2>5 DEF Acknowledge, Last
    <3>2. pc' = "handler" /\ left' \in Nat /\ left' + 1 <= Cost("handler") /\ Shape'
      BY <1>1, <3>1, GotoShort, RoutineShape DEF Segments
    <3>3. Remaining = 0 + 1 + AfterAck /\ Remaining' = left' + 1 + AfterHandler
      BY <1>1, <3>1, <3>2 DEF Remaining, After
    <3>4. AfterHandler \in Nat /\ Cost("handler") \in Nat /\ AfterAck = Cost("handler") + AfterHandler
      BY Costs DEF Segments, AfterAck
    <3>5. Remaining' <= Remaining - 1
      BY <3>2, <3>3, <3>4
    <3> QED BY <3>1, <3>2, <3>5
  <2> QED BY <2>1, <2>2, <2>3, <2>4, <2>5
<1>5. Way <=> raised = 1
  BY <1>1 DEF Way
<1>6. Clocked' /\ OnTime' /\ raised' <= 1 /\ (Way => raised' = raised - calls)
  <2>1. PICK inv : Clock(status_dly, inv, calls)
    BY <1>1
  <2>2. /\ calls = 1 => pc = "ack"
        /\ pc = "ack" /\ pc' = "handler" => calls = 1
        /\ pc' \in {"handler", "longjmp"} => Way
        /\ Way => Remaining' <= Remaining - 1
    BY <1>4, <1>5
  <2>3. calls \in {0, 1} /\ Shape'
    BY <1>1, <1>4
  <2> HIDE DEF calls
  <2> QED BY <1>3, <2>1, <2>2, <2>3, Advance
<1>7. Owing'
  BY <1>1, <1>2, <1>4, <1>5, <1>6 DEF Owing
<1>8. Ecalls' /\ ComingOn'
  <2>1. ~ exception
    BY <1>1 DEF DInv, IInv, InterruptsOff
  <2> QED BY <1>1, <1>4, <2>1 DEF Ecalls, ComingOn, Routine, Segments
<1> QED BY <1>3, <1>4, <1>6, <1>7, <1>8 DEF DInv

(* What a cycle that only shifts the delay line keeps of ComingOn.         *)
LEMMA Shift ==
    ASSUME DInv, pc \notin Routine \ {"leave"},
           status' = status_dly[0],
           \A j \in 0 .. 3 : status_dly'[j] = status_dly[IF j < 3 THEN j + 1 ELSE 3]
    PROVE  /\ status_dly'[3] /\ status_dly'[2]
           /\ status' => status_dly'[0]
           /\ \A j \in 0 .. 2 : status_dly'[j] => status_dly'[j + 1]
           /\ pc = "task" /\ ~ status => Wait' <= Wait - 1
<1>1. /\ \A j \in 0 .. 2 : status_dly[j] => status_dly[j + 1]
      /\ status => status_dly[0]
      /\ pc = "leave" => status_dly[2]
      /\ pc \notin Routine => status_dly[3]
      /\ status_dly \in [0 .. 3 -> BOOLEAN]
  BY DEF DInv, ComingOn, IInv, IrqTypeOK
<1>2. (status_dly[0] => status_dly[1]) /\ (status_dly[1] => status_dly[2]) /\ (status_dly[2] => status_dly[3])
  BY <1>1
<1>3. /\ status_dly'[0] = status_dly[1] /\ status_dly'[1] = status_dly[2]
      /\ status_dly'[2] = status_dly[3] /\ status_dly'[3] = status_dly[3]
  OBVIOUS
<1>4. status_dly[3]
  BY <1>1, <1>2
<1>5. \A j \in 0 .. 2 : status_dly'[j] => status_dly'[j + 1]
  <2>1. \A j \in 0 .. 2 : j = 0 \/ j = 1 \/ j = 2
    OBVIOUS
  <2>2. 0 + 1 = 1 /\ 1 + 1 = 2 /\ 2 + 1 = 3
    OBVIOUS
  <2>3. (status_dly'[0] => status_dly'[1]) /\ (status_dly'[1] => status_dly'[2]) /\ (status_dly'[2] => status_dly'[3])
    BY <1>2, <1>3
  <2> QED BY <2>1, <2>2, <2>3
<1>6. ~ status => Wait' <= Wait - 1
  <2> SUFFICES ASSUME ~ status PROVE Wait' <= Wait - 1
    OBVIOUS
  <2>1. CASE status_dly[0]
    BY <1>3, <2>1 DEF Wait
  <2>2. CASE ~ status_dly[0] /\ status_dly[1]
    <3>1. Wait = 2 /\ Wait' = 1
      BY <1>3, <2>2 DEF Wait
    <3> QED BY <3>1
  <2>3. CASE ~ status_dly[0] /\ ~ status_dly[1] /\ status_dly[2]
    <3>1. Wait = 3 /\ Wait' = 2
      BY <1>3, <2>3 DEF Wait
    <3> QED BY <3>1
  <2>4. CASE ~ status_dly[0] /\ ~ status_dly[1] /\ ~ status_dly[2]
    <3>1. Wait = 4 /\ Wait' = 3
      BY <1>3, <1>4, <2>4 DEF Wait
    <3> QED BY <3>1
  <2> QED BY <2>1, <2>2, <2>3, <2>4
<1> QED BY <1>2, <1>3, <1>4, <1>5, <1>6

(* Instructions before the last of a segment. *)
LEMMA PlainDInv == ShortHandlers /\ DInv /\ Plain => DInv'
<1> SUFFICES ASSUME ShortHandlers, DInv, Plain PROVE DInv'
  OBVIOUS
<1>1. /\ left > 0 /\ left' = left - 1 /\ UNCHANGED <<exception, pc, stack, k, called, ran>>
      /\ Clock(status_dly, timercause_inv, 0)
  BY DEF Plain, Tick
<1>2. left \in Nat /\ pc # "task" /\ pc \in Segments /\ left + 1 <= Cost(pc) /\ Cost(pc) \in Nat /\ raised \in {0, 1}
  BY <1>1, Costs, PendingOnce DEF DInv, Shape, IInv, IrqTypeOK
<1>3. IInv'
  BY NextIInv DEF DInv, Next
<1>4. Shape'
  BY <1>1, <1>2 DEF DInv, Shape
<1>5. Remaining' <= Remaining - 1
  <2>1. PICK after : after = After
    OBVIOUS
  <2>2. After' = after
    BY <1>1, <1>2, <2>1 DEF After
  <2>3. Remaining' = left' + 1 + after /\ Remaining = left + 1 + after
    BY <2>1, <2>2 DEF Remaining
  <2>4. after \in Int
    BY <1>2, <2>1, Costs DEF After, DInv, Shape, IInv, IrqTypeOK, Segments
  <2> QED BY <1>1, <1>2, <2>3, <2>4
<1>6. /\ Clocked' /\ OnTime' /\ raised' <= 1 /\ (Way => raised' = raised - 0)
      /\ status' = status_dly[0]
      /\ \A j \in 0 .. 3 : status_dly'[j] = status_dly[IF j < 3 THEN j + 1 ELSE 3]
  <2>1. /\ 0 = 1 => pc = "ack"
        /\ pc = "ack" /\ pc' = "handler" => 0 = 1
        /\ pc' \in {"handler", "longjmp"} => Way
        /\ Way => Remaining' <= Remaining - 1
    BY <1>1, <1>5 DEF Way
  <2> QED BY <1>1, <1>3, <1>4, <2>1, Advance
<1>7. Owing' /\ Ecalls'
  BY <1>1, <1>2, <1>6 DEF DInv, Owing, Ecalls, Way
<1>8. ComingOn'
  <2>1. CASE pc \in Routine \ {"leave"}
    BY <1>1, <2>1 DEF ComingOn, Routine, Segments
  <2>2. CASE pc \notin Routine \ {"leave"}
    <3>1. pc' \notin Routine => status_dly'[3]
      BY <1>1, <1>6, <2>2, Shift
    <3>2. (status' => status_dly'[0]) /\ \A j \in 0 .. 2 : status_dly'[j] => status_dly'[j + 1]
      BY <1>1, <1>6, <2>2, Shift
    <3>3. pc' = "leave" => status_dly'[2] /\ status_dly'[1]
      <4>1. pc = "leave" => status_dly[2]
        BY DEF DInv, ComingOn
      <4> QED BY <1>1, <1>6, <2>2, <4>1, Shift
    <3> QED BY <1>1, <1>2, <3>1, <3>2, <3>3 DEF ComingOn
  <2> QED BY <2>1, <2>2
<1> QED BY <1>3, <1>4, <1>6, <1>7, <1>8 DEF DInv

(* Instructions of tasks: an event that waits is waiting for the delay     *)
(* line.                                                                   *)
LEMMA TaskDInv == ShortHandlers /\ DInv /\ (Run \/ Ecall) => DInv'
<1> SUFFICES ASSUME ShortHandlers, DInv, Run \/ Ecall PROVE DInv'
  OBVIOUS
<1>1. /\ pc = "task" /\ left = 0 /\ ~ Taken /\ UNCHANGED <<pc, left, stack, k>>
      /\ Clock(status_dly, timercause_inv, 0)
      /\ ran' /\ (exception' => exception \/ called') /\ (called => called')
  BY DEF Run, Ecall, Last, Tick
<1>2. ~ exception /\ raised \in {0, 1} /\ (raised = 1 => ~ status)
  BY <1>1, PendingOnce DEF Taken
<1>3. IInv'
  BY NextIInv DEF DInv, Next
<1>4. Shape'
  BY <1>1 DEF DInv, Shape
<1>5. Way => raised = 1
  BY <1>1 DEF Way
<1>6. \A j \in 0 .. 3 : status_dly'[j] = status_dly[IF j < 3 THEN j + 1 ELSE 3]
  BY <1>1 DEF Clock
<1>7. Way => Remaining' <= Remaining - 1
  <2> SUFFICES ASSUME Way PROVE Remaining' <= Remaining - 1
    OBVIOUS
  <2>1. PICK w : w = Wait'
    OBVIOUS
  <2>2. w <= Wait - 1
    <3>1. status' = status_dly[0] /\ pc \notin Routine \ {"leave"}
      BY <1>1 DEF Clock, Routine, Segments
    <3> QED BY <1>1, <1>2, <1>5, <1>6, <2>1, <3>1, Shift
  <2>3. Remaining = 0 + 1 + (Wait + Service - 1) /\ Remaining' = 0 + 1 + (w + Service - 1)
    BY <1>1, <2>1 DEF Remaining, After
  <2>4. Wait \in Int /\ w \in Int /\ Service \in Int
    BY <2>1, Costs DEF Wait
  <2> QED BY <2>2, <2>3, <2>4
<1>8. /\ Clocked' /\ OnTime' /\ raised' <= 1 /\ status' = status_dly[0]
  <2>1. /\ 0 = 1 => pc = "ack"
        /\ pc = "ack" /\ pc' = "handler" => 0 = 1
        /\ pc' \in {"handler", "longjmp"} => Way
    BY <1>1
  <2> QED BY <1>1, <1>3, <1>4, <1>7, <2>1, Advance
<1>9. Owing' /\ Ecalls'
  BY <1>1, <1>2, <1>8 DEF Owing, Ecalls
<1>10. ComingOn'
  <2>1. pc \notin Routine \ {"leave"}
    BY <1>1 DEF Routine, Segments
  <2>2. /\ status_dly'[3] /\ (status' => status_dly'[0])
        /\ \A j \in 0 .. 2 : status_dly'[j] => status_dly'[j + 1]
    BY <1>6, <1>8, <2>1, Shift
  <2> QED BY <1>1, <2>2 DEF ComingOn
<1> QED BY <1>3, <1>4, <1>8, <1>9, <1>10 DEF DInv

(* timer1ctc_handler, which switches tasks, exception_handler and          *)
(* _restore: no event is handled, the frame stays.                         *)
LEMMA TurnDInv == ShortHandlers /\ DInv /\ (Handler \/ ExceptionHandler \/ Restore) => DInv'
<1> SUFFICES ASSUME ShortHandlers, DInv, Handler \/ ExceptionHandler \/ Restore PROVE DInv'
  OBVIOUS
<1>1. /\ left = 0 /\ pc \in {"handler", "exception", "restore"}
      /\ UNCHANGED <<exception, stack, k, ran>>
      /\ \E delays : Clock(delays, timercause_inv, 0)
  BY DEF Handler, ExceptionHandler, Restore, Last, Tick
<1>2. IInv'
  BY NextIInv DEF DInv, Next
<1>3. /\ pc = "handler" => pc' = "longjmp" /\ Clock(Enabled, timercause_inv, 0)
      /\ pc = "exception" => pc' = "restore"
      /\ pc = "restore" => pc' = "leave" /\ left' = 1 /\ Clock(Enabled, timercause_inv, 0)
      /\ Shape'
      /\ Remaining' <= Remaining - 1
  <2>1. CASE Handler
    <3>1. pc = "handler" /\ Goto("longjmp") /\ Clock(Enabled, timercause_inv, 0)
      BY <2>1 DEF Handler, Last, ShortHandlers
    <3>2. pc' = "longjmp" /\ left' \in Nat /\ left' + 1 <= Cost("longjmp") /\ Shape'
      BY <1>1, <3>1, GotoShort, RoutineShape DEF Segments
    <3>3. Remaining = 0 + 1 + AfterHandler /\ Remaining' = left' + 1 + 1
      BY <1>1, <3>1, <3>2 DEF Remaining, After
    <3>4. Cost("longjmp") \in Nat /\ AfterHandler = Cost("longjmp") + 1
      BY Costs DEF Segments, AfterHandler
    <3>5. Remaining' <= Remaining - 1
      BY <3>2, <3>3, <3>4
    <3> QED BY <3>1, <3>2, <3>5
  <2>2. CASE ExceptionHandler
    <3>1. pc = "exception" /\ Goto("restore")
      BY <2>2 DEF ExceptionHandler, Last
    <3>2. pc' = "restore" /\ left' \in Nat /\ left' + 1 <= Cost("restore") /\ Shape'
      BY <1>1, <3>1, GotoShort, RoutineShape DEF Segments
    <3>3. Remaining = 0 + 1 + (Cost("restore") + 3 + Service) /\ Remaining' = left' + 1 + (3 + Service)
      BY <1>1, <3>1, <3>2 DEF Remaining, After
    <3>4. Cost("restore") \in Nat /\ Service \in Nat
      BY Costs DEF Segments
    <3>5. Remaining' <= Remaining - 1
      BY <3>2, <3>3, <3>4
    <3> QED BY <3>1, <3>2, <3>5
  <2>3. CASE Restore
    <3>1. pc = "restore" /\ Goto("leave") /\ Clock(Enabled, timercause_inv, 0)
      BY <2>3 DEF Restore, Last
    <3>2. pc' = "leave" /\ left' = 1 /\ Shape'
      BY <1>1, <3>1, RoutineShape, LeaveAssumption DEF Segments, Goto
    <3>3. Remaining = 0 + 1 + (3 + Service) /\ Remaining' = 1 + 1 + (1 + Service)
      BY <1>1, <3>1, <3>2 DEF Remaining, After
    <3>4. Service \in Nat
      BY Costs
    <3>5. Remaining' <= Remaining - 1
      BY <3>3, <3>4
    <3> QED BY <3>1, <3>2, <3>5
  <2> QED BY <2>1, <2>2, <2>3
<1>4. PICK delays : /\ Clock(delays, timercause_inv, 0)
                    /\ pc \in {"handler", "restore"} => delays = Enabled
  BY <1>1, <1>3
<1>5. /\ Clocked' /\ OnTime' /\ raised' <= 1 /\ (Way => raised' = raised - 0)
      /\ status' = delays[0]
      /\ \A j \in 0 .. 3 : status_dly'[j] = delays[IF j < 3 THEN j + 1 ELSE 3]
  <2>1. /\ 0 = 1 => pc = "ack"
        /\ pc = "ack" /\ pc' = "handler" => 0 = 1
        /\ pc' \in {"handler", "longjmp"} => Way
        /\ Way => Remaining' <= Remaining - 1
    BY <1>1, <1>3 DEF Way
  <2> QED BY <1>2, <1>3, <1>4, <2>1, Advance
<1>6. Owing' /\ Ecalls'
  <2>1. ~ exception /\ raised \in {0, 1} /\ (pc = "handler" => raised = 0)
    BY <1>1, PendingOnce DEF DInv, IInv, InterruptsOff, Owing
  <2> QED BY <1>1, <1>3, <1>5, <2>1 DEF Owing, Ecalls, Way
<1>7. ComingOn'
  <2>1. CASE pc = "exception"
    BY <1>3, <2>1 DEF ComingOn, Routine, Segments
  <2>2. CASE pc \in {"handler", "restore"}
    <3>1. delays = Enabled /\ pc' \in {"longjmp", "leave"} /\ (pc' = "leave" => left' = 1)
      BY <1>1, <1>3, <1>4, <2>2
    <3>2. Enabled \in [0 .. 3 -> BOOLEAN] /\ ~ Enabled[0] /\ ~ Enabled[1] /\ ~ Enabled[2] /\ Enabled[3]
      <4>1. status_dly \in [0 .. 3 -> BOOLEAN] /\ ~ status_dly[0] /\ ~ status_dly[1] /\ ~ status_dly[2]
        BY <2>2 DEF DInv, IInv, IrqTypeOK, InterruptsOff, Routine, Segments
      <4> QED BY <4>1 DEF Enabled
    <3>3. ~ status' /\ ~ status_dly'[0] /\ ~ status_dly'[1] /\ status_dly'[2] /\ status_dly'[3]
      BY <1>5, <3>1, <3>2
    <3>4. \A j \in 0 .. 2 : status_dly'[j] => status_dly'[j + 1]
      BY <3>3
    <3> QED BY <3>1, <3>3, <3>4 DEF ComingOn
  <2> QED BY <1>1, <2>1, <2>2
<1> QED BY <1>2, <1>3, <1>5, <1>6, <1>7 DEF DInv

(* longjmp and the jump out of _restore, back to a task. *)
LEMMA BackDInv == ShortHandlers /\ DInv /\ (Longjmp \/ Leave) => DInv'
<1> SUFFICES ASSUME ShortHandlers, DInv, Longjmp \/ Leave PROVE DInv'
  OBVIOUS
<1>1. /\ left = 0 /\ pc \in {"longjmp", "leave"} /\ UNCHANGED <<exception, k, called>> /\ ~ ran'
      /\ Clock(status_dly, timercause_inv, 0)
  BY DEF Longjmp, Leave, Last, Tick
<1>2. IInv'
  BY NextIInv DEF DInv, Next
<1>3. pc' = "task" /\ left' = 0 /\ stack' = <<>>
  <2>1. CASE Longjmp
    BY <2>1 DEF Longjmp
  <2>2. CASE Leave
    <3>1. stack = <<[pc |-> "task", left |-> 0]>>
      BY <1>1 DEF DInv, Shape
    <3> QED BY <2>2, <3>1 DEF Leave
  <2> QED BY <2>1, <2>2
<1>4. Shape'
  BY <1>3 DEF Shape
<1>5. ~ exception /\ raised \in {0, 1} /\ (pc = "longjmp" => raised = 0) /\ pc \notin Routine \ {"leave"}
  BY <1>1, PendingOnce DEF DInv, IInv, InterruptsOff, Owing, Routine, Segments
<1>6. pc = "leave" => ~ status' /\ ~ status_dly[0] /\ status_dly[1]
  BY <1>1 DEF DInv, IInv, InterruptsOff, ComingOn, Clock
<1>7. /\ status' = status_dly[0]
      /\ \A j \in 0 .. 3 : status_dly'[j] = status_dly[IF j < 3 THEN j + 1 ELSE 3]
  BY <1>1 DEF Clock
<1>8. Way => Remaining' <= Remaining - 1 \/ (pc = "longjmp" /\ pc' = "task")
  <2>1. CASE pc = "leave"
    <3>1. status_dly'[0] /\ ~ status'
      BY <1>6, <1>7, <2>1
    <3>2. Wait' = 1
      BY <3>1 DEF Wait
    <3>3. Remaining = 0 + 1 + (1 + Service) /\ Remaining' = 0 + 1 + (1 + Service - 1)
      BY <1>1, <1>3, <2>1, <3>2 DEF Remaining, After
    <3>4. Service \in Nat
      BY Costs
    <3> QED BY <3>3, <3>4
  <2>2. CASE pc = "longjmp"
    BY <1>3, <2>2
  <2> QED BY <1>1, <2>1, <2>2
<1>9. Clocked' /\ OnTime' /\ raised' <= 1 /\ (Way => raised' = raised - 0)
  <2>1. /\ 0 = 1 => pc = "ack"
        /\ pc = "ack" /\ pc' = "handler" => 0 = 1
        /\ pc' \in {"handler", "longjmp"} => Way
    BY <1>1, <1>3
  <2> QED BY <1>1, <1>2, <1>4, <1>8, <2>1, Advance
<1>10. Owing' /\ Ecalls'
  BY <1>1, <1>3, <1>5, <1>9 DEF Owing, Ecalls
<1>11. ComingOn'
  <2>1. /\ status_dly'[3] /\ (status' => status_dly'[0])
        /\ \A j \in 0 .. 2 : status_dly'[j] => status_dly'[j + 1]
    BY <1>5, <1>7, Shift
  <2>2. pc = "longjmp" => raised' = 0
    BY <1>5, <1>9 DEF Way
  <2>3. pc = "leave" => ~ status' /\ status_dly'[0]
    BY <1>6, <1>7
  <2> QED BY <1>1, <1>3, <2>1, <2>2, <2>3 DEF ComingOn
<1> QED BY <1>2, <1>4, <1>9, <1>10, <1>11 DEF DInv

(* An event before the first period leaves Prescale cycles less.           *)
LEMMA InitDInv == ShortHandlers /\ Init => DInv
<1> SUFFICES ASSUME ShortHandlers, Init PROVE DInv
  OBVIOUS
<1>1. IInv
  BY InitIInv
<1>2. pc = "task" /\ left = 0 /\ stack = <<>> /\ timer1 = 0 /\ timer0 \in 0 .. Prescale - 1 /\ raised \in {0, 1}
  BY DEF Init
<1>3. status /\ \A j \in 0 .. 3 : status_dly[j]
  BY DEF Init
<1>4. Clocked /\ Shape /\ Owing /\ Ecalls /\ ComingOn
  BY <1>2, <1>3 DEF Init, Clocked, Shape, Owing, Ecalls, ComingOn, Routine, Segments
<1>5. Since = timer0 /\ Remaining = 0 + 1 + (0 + Service - 1)
  <2>1. Wait = 0
    BY <1>3 DEF Wait
  <2> QED BY <1>2, <2>1 DEF Since, Remaining, After
<1>6. Prescale + Service <= Period + 2 /\ Service \in Nat /\ Period \in Nat
  BY Costs
<1>7. OnTime
  BY <1>2, <1>5, <1>6 DEF OnTime
<1> QED BY <1>1, <1>4, <1>7 DEF DInv
-----------------------------------------------------------------------------
(* The invariant, whenever the way from an event to the next task is       *)
(* shorter than a period.                                                  *)
THEOREM DeadlineInvariant == ShortHandlers => (Spec => []DInv)
<1> SUFFICES ASSUME ShortHandlers PROVE Spec => []DInv
  OBVIOUS
<1>1. Init => DInv
  BY InitDInv
<1>2. DInv /\ [Next]_vars => DInv'
  <2>1. DInv /\ Next => DInv'
    BY EnterDInv, PlainDInv, TaskDInv, WayDInv, TurnDInv, BackDInv DEF Next
  <2>2. DInv /\ UNCHANGED vars => DInv'
    <3> SUFFICES ASSUME DInv, UNCHANGED vars PROVE DInv'
      OBVIOUS
    <3>1. IInv'
      BY DEF DInv, vars, registers, IInv, IrqTypeOK, TickParity, Pending, InterruptsOff, Framed, Counted
    <3>2. Clocked' /\ Shape' /\ Owing' /\ Ecalls' /\ ComingOn'
      BY DEF DInv, vars, registers, Clocked, Shape, Owing, Ecalls, ComingOn
    <3>3. OnTime'
      <4>1. Remaining' = Remaining /\ Since' = Since /\ Way' = Way /\ Period' = Period
        BY DEF vars, registers, Remaining, After, Wait, Since, Way, Period
      <4> QED BY <4>1 DEF DInv, OnTime
    <3> QED BY <3>1, <3>2, <3>3 DEF DInv
  <2> QED BY <2>1, <2>2
<1> QED
  BY <1>1, <1>2, PTL DEF Spec

(* No CTC event is lost: TIMERCAUSE never toggles twice before             *)
(* timer1ctc_handler is called for the first.                              *)
THEOREM NoTicksLost == ShortHandlers => (Spec => []NoTickLost)
<1>1. DInv => NoTickLost
  BY DEF DInv, Owing, NoTickLost
<1> QED
  BY <1>1, DeadlineInvariant, PTL

(* What _isr takes for an exception is an ecall.                           *)
THEOREM ExceptionsAreEcalls == ShortHandlers => (Spec => []ExceptionIsEcall)
<1>1. DInv => ExceptionIsEcall
  BY DEF DInv, Ecalls, ExceptionIsEcall
<1> QED
  BY <1>1, DeadlineInvariant, PTL

(* Interrupts are taken from tasks only, each of which has run since it    *)
(* was dispatched or resumed.                                              *)
THEOREM TasksInterrupted == ShortHandlers => (Spec => InterruptsTasks)
<1>1. DInv /\ [Next]_vars => [Enter => (pc = "task" /\ ran)]_vars
  BY EnterTask
<1> QED
  BY <1>1, DeadlineInvariant, PTL DEF Spec, InterruptsTasks
=============================================================================
