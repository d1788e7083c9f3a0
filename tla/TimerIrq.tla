------------------------------ MODULE TimerIrq ------------------------------
(***************************************************************************)
(* The timer interrupt of tp1 from the CTC event of TIMER1 to the longjmp  *)
(* that leaves rt_context_switch: the interrupt and timer registers of     *)
(* tools/sim/hf_riscv_sim, the service routine _isr of crt0.s and          *)
(* irq_handler, irq0_handler of interrupt.c.                               *)
(*                                                                         *)
(* A step is one cycle of the simulator: an instruction, then the          *)
(* peripherals.  The software is cut into segments of code, each ending    *)
(* with the one instruction that touches the registers of this module;     *)
(* left counts the instructions before it.  Only TIMER1 CTC is unmasked,   *)
(* as rt_clock leaves it.                                                  *)
(***************************************************************************)
EXTENDS Integers, Sequences

CONSTANTS
    CTC,        \* TIMER1CTC
    Prescale,   \* cycles per count of TIMER1
    Length,     \* segment -> the numbers of instructions before its last
    Switches,   \* whether a timer handler may switch tasks (as rt_context_switch does)
    Syscalls,   \* tasks execute ecall
    Bits,       \* width of k in irq0_handler, 32 in the code
    MaxDepth,   \* bound on interrupts within interrupts
    Cap         \* bound on the history variable raised

Segments == {"entry", "switch", "bits", "ack", "loop", "handler", "longjmp", "exception", "restore",
             "leave"}

TIMER == 2      \* bit of MASK_S0CAUSE_TIMER

ASSUME TimerAssumption == CTC \in Nat \ {0} /\ Prescale \in Nat \ {0}
ASSUME LengthAssumption == \A s \in Segments : Length[s] \subseteq Nat /\ Length[s] # {}
(* lw s10, -4(sp) and jalr follow the store that enables interrupts. *)
ASSUME LeaveAssumption == Length["leave"] = {1}
ASSUME SwitchesAssumption == Switches \subseteq BOOLEAN /\ Switches # {} /\ Syscalls \in BOOLEAN
ASSUME BoundsAssumption == Bits \in Nat /\ Bits > TIMER /\ MaxDepth \in Nat /\ Cap \in Nat /\ Cap >= 2

VARIABLES
    status, status_dly,             \* IRQ_STATUS and the cycles before it is set
    exception,                      \* an ecall was executed
    timercause, timercause_inv,     \* their bits of TIMER1 CTC
    timer0,                         \* modulo Prescale
    timer1,
    pc, left,                       \* segment and the instructions left in it
    stack,                          \* frames of interrupted code, last first
    k,                              \* irq0_handler's k = 1 << k
    raised,     \* history: CTC events less calls of their handler, Cap + 1 being Cap - 1
    called,     \* history: the last ecall has not reached exception_handler
    ran         \* history: pc's code has run since it was resumed

registers == <<status, status_dly, timercause, timercause_inv, timer0, timer1, raised>>
vars == <<registers, exception, pc, left, stack, k, called, ran>>

Off == [j \in 0 .. 3 |-> FALSE]
Pending == timercause # timercause_inv      \* IRQ_CAUSE and S0CAUSE

(* rt_clock has unmasked the CTC event.  Before it set TIMER1CTC, TIMER1   *)
(* matched 0 any number of times, so the cause may be up already.          *)
Init ==
    /\ status = TRUE
    /\ status_dly = [j \in 0 .. 3 |-> TRUE]
    /\ exception = FALSE
    /\ timercause \in BOOLEAN
    /\ timercause_inv = FALSE
    /\ timer0 \in 0 .. Prescale - 1
    /\ timer1 = 0
    /\ pc = "task" /\ left = 0
    /\ stack = <<>>
    /\ k = 0
    /\ raised = IF timercause THEN 1 ELSE 0
    /\ called = FALSE
    /\ ran = TRUE
-----------------------------------------------------------------------------
(* The end of a cycle, after the instruction has left the delay line and   *)
(* TIMERCAUSEINV as given; calls are calls of the CTC handler.  A CTC      *)
(* event toggles its cause.                                                *)
Event == timer1 = CTC

Owed(n) == IF n > Cap THEN n - 2 ELSE n

BadClockLevel(delays, inv, calls) ==
    /\ status' = delays[0]
    /\ status_dly' = [j \in 0 .. 3 |-> delays[IF j < 3 THEN j + 1 ELSE 3]]
    /\ timercause_inv' = inv
    /\ timercause' = (timercause # Event)
    /\ timer0' = (timer0 + 1) % Prescale
    /\ timer1' = IF timer0' # 0 THEN timer1 ELSE IF Event THEN 0 ELSE timer1 + 1
    /\ raised' = Owed(raised - calls + (IF Event THEN 1 ELSE 0))
BadClock(delays, inv, calls) ==
    /\ status' = delays[0]
    /\ status_dly' = [j \in 0 .. 3 |-> delays[IF j < 3 THEN j + 1 ELSE 3]]
    /\ timercause_inv' = inv
    /\ timercause' = (timercause \/ Event)
    /\ timer0' = (timer0 + 1) % Prescale
    /\ timer1' = (IF Event THEN 0 ELSE timer1) + (IF timer0' = 0 THEN 1 ELSE 0)
    /\ raised' = Owed(raised - calls + (IF Event THEN 1 ELSE 0))
Clock(delays, inv, calls) ==
    /\ status' = delays[0]
    /\ status_dly' = [j \in 0 .. 3 |-> delays[IF j < 3 THEN j + 1 ELSE 3]]
    /\ timercause_inv' = inv
    /\ timercause' = (timercause # Event)
    /\ timer0' = (timer0 + 1) % Prescale
    /\ timer1' = (IF Event THEN 0 ELSE timer1) + (IF timer0' = 0 THEN 1 ELSE 0)
    /\ raised' = Owed(raised - calls + (IF Event THEN 1 ELSE 0))

Tick == Clock(status_dly, timercause_inv, 0)

(* A store of 1 to IRQ_STATUS: it enters the far end of the delay line. *)
BadEnabled == [status_dly EXCEPT ![0] = TRUE]
Enabled == [status_dly EXCEPT ![3] = TRUE]

Goto(segment) == pc' = segment /\ left' \in Length[segment]
-----------------------------------------------------------------------------
(* A cycle that starts with an interrupt or exception executes the first   *)
(* instruction of _isr, with interrupts off.                               *)
Taken == (status /\ Pending) \/ exception

Enter ==
    /\ Taken
    /\ Len(stack) < MaxDepth
    /\ stack' = <<[pc |-> pc, left |-> left]>> \o stack
    /\ exception' = FALSE
    /\ Goto("entry")
    /\ Clock(Off, timercause_inv, 0)
    /\ UNCHANGED <<k, called, ran>>

(* Instructions of a segment before its last one. *)
Plain ==
    /\ ~ Taken
    /\ left > 0
    /\ left' = left - 1
    /\ Tick
    /\ UNCHANGED <<exception, pc, stack, k, called, ran>>

Last(segment) == ~ Taken /\ pc = segment /\ left = 0

Run ==
    /\ Last("task")
    /\ ran' = TRUE
    /\ Tick
    /\ UNCHANGED <<exception, pc, left, stack, k, called>>

Ecall ==
    /\ Syscalls
    /\ Last("task")
    /\ exception' = TRUE
    /\ called' = TRUE /\ ran' = TRUE
    /\ Tick
    /\ UNCHANGED <<pc, left, stack, k>>

(* _isr saves the registers and reads IRQ_CAUSE and IRQ_MASK; without a    *)
(* cause it takes the interrupt for an exception.                          *)
ReadCause ==
    /\ Last("entry")
    /\ IF Pending THEN Goto("switch") /\ k' = 0 ELSE Goto("exception") /\ UNCHANGED k
    /\ Tick
    /\ UNCHANGED <<exception, stack, called, ran>>

(* irq0_handler looks at S0CAUSE & k, then at the causes of the timers. *)
Switch ==
    /\ Last("switch")
    /\ Goto(IF k = TIMER /\ Pending THEN "bits" ELSE "loop")
    /\ Tick
    /\ UNCHANGED <<exception, stack, k, called, ran>>

ReadTimers ==
    /\ Last("bits")
    /\ Goto(IF Pending THEN "ack" ELSE "loop")
    /\ Tick
    /\ UNCHANGED <<exception, stack, k, called, ran>>

BadAcknowledge ==
    /\ Last("ack")
    /\ Goto("handler")
    /\ Clock(status_dly, timercause, 1)
    /\ UNCHANGED <<exception, stack, k, called, ran>>
Acknowledge ==
    /\ Last("ack")
    /\ Goto("handler")
    /\ Clock(status_dly, ~ timercause_inv, 1)
    /\ UNCHANGED <<exception, stack, k, called, ran>>

(* while (S0CAUSE && k) *)
BadLoop ==
    /\ Last("loop")
    /\ k' = k + 1
    /\ Goto("restore")
    /\ Tick
    /\ UNCHANGED <<exception, stack, called, ran>>
Loop ==
    /\ Last("loop")
    /\ k' = k + 1
    /\ Goto(IF Pending /\ k' < Bits THEN "switch" ELSE "restore")
    /\ Tick
    /\ UNCHANGED <<exception, stack, called, ran>>

(* timer1ctc_handler: rt_context_switch enables interrupts and leaves by   *)
(* longjmp; other handlers return to irq0_handler.                         *)
Handler ==
    /\ Last("handler")
    /\ \/ TRUE \in Switches /\ Goto("longjmp") /\ Clock(Enabled, timercause_inv, 0)
       \/ FALSE \in Switches /\ Goto("loop") /\ Tick
    /\ UNCHANGED <<exception, stack, k, called, ran>>

(* The context restored has the stack pointer of rt_start: every frame     *)
(* above it is gone.                                                       *)
Longjmp ==
    /\ Last("longjmp")
    /\ pc' = "task" /\ left' = 0
    /\ stack' = <<>>
    /\ ran' = FALSE
    /\ Tick
    /\ UNCHANGED <<exception, k, called>>

ExceptionHandler ==
    /\ Last("exception")
    /\ called' = FALSE
    /\ Goto("restore")
    /\ Tick
    /\ UNCHANGED <<exception, stack, k, ran>>

(* _restore: the registers, then interrupts on after a few cycles ... *)
Restore ==
    /\ Last("restore")
    /\ Goto("leave")
    /\ Clock(Enabled, timercause_inv, 0)
    /\ UNCHANGED <<exception, stack, k, called, ran>>

(* ... and the jump to the interrupted instruction, whose address is read  *)
(* below the stack pointer.                                                *)
Leave ==
    /\ Last("leave")
    /\ pc' = Head(stack).pc /\ left' = Head(stack).left
    /\ stack' = Tail(stack)
    /\ ran' = FALSE
    /\ Tick
    /\ UNCHANGED <<exception, k, called>>

Next ==
    \/ Enter \/ Plain \/ Run \/ Ecall
    \/ ReadCause \/ Switch \/ ReadTimers \/ Acknowledge \/ Loop
    \/ Handler \/ Longjmp
    \/ ExceptionHandler \/ Restore \/ Leave

(* The processor does not stop. *)
Spec == Init /\ [][Next]_vars
FairSpec == Spec /\ WF_vars(Next)
-----------------------------------------------------------------------------
(* Every variable has its type; the frames are of code that runs with      *)
(* interrupts on.                                                          *)
IrqTypeOK ==
    /\ {status, exception, timercause, timercause_inv, called, ran} \subseteq BOOLEAN
    /\ status_dly \in [0 .. 3 -> BOOLEAN]
    /\ timer0 \in 0 .. Prescale - 1
    /\ timer1 \in Nat
    /\ pc \in Segments \cup {"task"}
    /\ left \in Nat
    /\ stack \in Seq([pc : {"task", "longjmp"}, left : Nat])
    /\ k \in 0 .. Bits
    /\ raised \in 0 .. Cap

(* The acknowledgement toggles TIMERCAUSEINV where the event toggled       *)
(* TIMERCAUSE: the cause is up exactly when an odd number of events is     *)
(* unacknowledged, also for an event between irq0_handler's read and its   *)
(* store; and no acknowledgement is of an event that did not happen.       *)
TickParity ==
    /\ Pending <=> (raised % 2 = 1)
    /\ pc = "ack" => raised >= 1

(* No interrupt is taken between the store that enables them at the end of *)
(* _isr and its jump back: the frame is already popped, and the next one   *)
(* would overwrite the return address.                                     *)
LeaveAtomic == [][Enter => pc # "leave"]_vars

(* Cycles from the entry of a segment to its end, at most. *)
Cost(segment) == 1 + CHOOSE n \in Length[segment] : \A m \in Length[segment] : m <= n

(* Cycles to the first instruction of the task dispatched, from the end of *)
(* segments on the way: irq0_handler turns its loop for k = 0 and 1 before *)
(* it gets to the timers.                                                  *)
AfterHandler == Cost("longjmp") + 1
AfterAck == Cost("handler") + AfterHandler
AfterBits == Cost("ack") + AfterAck
AfterSwitch(j) ==
    (IF j = 0 THEN 2 * (Cost("switch") + Cost("loop"))
     ELSE IF j = 1 THEN Cost("switch") + Cost("loop") ELSE 0)
    + Cost("bits") + AfterBits
AfterEntry == Cost("switch") + AfterSwitch(0)
Service == 1 + Cost("entry") + AfterEntry

(* The longest way from an event to the first instruction of the next task *)
(* fits into a period: the event may find an ecall being handled, and the  *)
(* first one may have come before the period it is counted in.             *)
ShortHandlers ==
    /\ Switches = {TRUE}
    /\ \A s \in Segments : \E n \in Length[s] : \A m \in Length[s] : m <= n
    /\ Cost("exception") + Cost("restore") + Cost("leave") + 1 + Service <= CTC * Prescale
    /\ Prescale + Service <= CTC * Prescale + 2

(* If that holds: no event is lost, ...                                    *)
NoTickLost == raised <= 1

(* ... each gets to the handler, ... *)
TicksHandled == (raised = 1) ~> (raised = 0)

(* ... interrupts are taken from task code only, never within the switch   *)
(* to a task, and every task dispatched or resumed runs before the next.   *)
InterruptsTasks == [][Enter => (pc = "task" /\ ran)]_vars

(* "it's an exception, not an interrupt" (crt0.s): without a cause, what   *)
(* entered _isr was an ecall.                                              *)
ExceptionIsEcall == pc = "exception" => called
=============================================================================
