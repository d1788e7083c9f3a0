----------------------------- MODULE IntControl -----------------------------
(***************************************************************************)
(* The interrupt controller of the core, int_control.vhd: its registers    *)
(* and the state machine that turns a level into one request.  Each        *)
(* operator is a clocked process; the core that drives it is in Core.      *)
(* Software has unmasked IRQ 0 and set IRQ_VECTOR before anything here.    *)
(***************************************************************************)
EXTENDS Integers

CONSTANT Word       \* what a register of the processor holds

VARIABLES
    irq_status,         \* bit 0 of IRQ_STATUS
    irq_epc,            \* IRQ_EPC
    irq,                \* the request to the core
    pulse_state,        \* the state machine runs two registers deep:
    pulse_next_state    \*   the next state is a register too

controller == <<irq_status, irq_epc, irq, pulse_state, pulse_next_state>>

PulseStates == {"irq_idle", "irq_int", "irq_req", "irq_ackn", "irq_done"}

ControllerTypeOK ==
    /\ irq_status \in {0, 1} /\ irq \in {0, 1}
    /\ irq_epc \in Word
    /\ {pulse_state, pulse_next_state} \subseteq PulseStates

ControllerInit ==
    /\ irq_status = 0 /\ irq = 0
    /\ irq_epc = 0
    /\ pulse_state = "irq_idle" /\ pulse_next_state = "irq_idle"

(* write: software stores value in IRQ_STATUS in this cycle.  Taking an    *)
(* interrupt or an exception clears the bit whatever is stored.            *)
BadStatusRegister(write, value, ack, exception) == irq_status' = IF write THEN value ELSE irq_status
StatusRegister(write, value, ack, exception) ==
    irq_status' = IF ack \/ exception THEN 0 ELSE IF write THEN value ELSE irq_status

(* The bus address of the last cycle in which the request stands           *)
(* unacknowledged, or of the exception.                                    *)
BadEpcRegister(address, ack, exception) ==
    irq_epc' = IF irq = 1 \/ exception THEN address ELSE irq_epc
EpcRegister(address, ack, exception) ==
    irq_epc' = IF (irq = 1 /\ ~ ack) \/ exception THEN address ELSE irq_epc

(* interrupt is the level: some unmasked cause is up.  A state is left two *)
(* cycles after its condition holds.                                       *)
Following ==
    [irq_idle |-> "irq_int", irq_int |-> "irq_req", irq_req |-> "irq_ackn",
     irq_ackn |-> "irq_done", irq_done |-> "irq_idle"]

leaves(interrupt, ack) ==
    \/ pulse_state = "irq_idle" /\ interrupt /\ irq_status = 1
    \/ pulse_state = "irq_req" /\ ack
    \/ pulse_state = "irq_done" /\ irq_status = 1
    \/ pulse_state \in {"irq_int", "irq_ackn"}

Pulse(interrupt, ack, stall) ==
    IF stall THEN UNCHANGED <<irq, pulse_state, pulse_next_state>>
    ELSE
    /\ pulse_state' = pulse_next_state
    /\ pulse_next_state' =
           IF leaves(interrupt, ack) THEN Following[pulse_state] ELSE pulse_next_state
    /\ irq' = IF pulse_state = "irq_int" THEN 1
              ELSE IF pulse_state = "irq_req" /\ ack THEN 0 ELSE irq

(* One clock edge of the whole controller. *)
ControllerClock(interrupt, write, value, address, ack, exception, stall) ==
    /\ StatusRegister(write, value, ack, exception)
    /\ EpcRegister(address, ack, exception)
    /\ Pulse(interrupt, ack, stall)
=============================================================================
