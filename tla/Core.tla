-------------------------------- MODULE Core --------------------------------
(***************************************************************************)
(* The three-stage core of core_rv32i, datapath.vhd, with its interrupt    *)
(* controller, the synchronous memory and the slow memory behind           *)
(* spi_sram_ctrl, which may hold data and programs.  A step is a clock     *)
(* cycle; operators without primes are the combinational signals,          *)
(* named as in the code.  The software is a start-up sequence, a program   *)
(* and the service routine of crt0.s.                                      *)
(***************************************************************************)
EXTENDS Rv32i

CONSTANTS
    Programs,           \* the programs considered
    Code(_, _),         \* the instruction of a program's memory at an address
    First, Vector,      \* first words of the program and of the service routine
    STATUS, EPC,        \* addresses of IRQ_STATUS and IRQ_EPC
    FRAME,              \* the word of the stack in which _isr keeps where to return
    External,           \* the memory behind spi_sram_ctrl
    Cells,              \* cells of memory that may hold data, External among them
    Visible             \* the registers a compiled program uses (-ffixed-s10 -ffixed-s11)

ASSUME CodeAssumption == \A p \in Programs, a \in Word : Code(p, a) \in Instruction
ASSUME LayoutAssumption ==
    /\ {First, Vector, STATUS, EPC} \subseteq Word
    /\ First < Vector
    /\ External \subseteq Cells /\ Cells \subseteq Word
    /\ 0 \notin External                     \* the boot memory is at 0
    /\ STATUS # EPC /\ Cells \cap {STATUS, EPC} = {}
    /\ FRAME \in Cells /\ Visible \subseteq Registers

VARIABLES
    irq_status, irq_epc, irq, pulse_state, pulse_next_state,    \* see IntControl
    prog,                       \* the program in memory
    mem,                        \* the data in memory
    inst_in, data_in,           \* data_in of the core, as an instruction and as a number
    pc, pc_last, pc_last2,
    bds,                        \* the cycle after a jump
    mem_to_reg_r_dly, data_access_s_dly, irq_ack_s_dly, stall_reg,
    stall_dly2,                 \* the stall two cycles ago (stall_dly is stall_reg)
    ex,                         \* the instruction in the execute stage
    registers,
    valid,                      \* history: ex holds a word fetched, not a bubble
    arch,                       \* history: where the instruction to complete next is
    next,                       \* history: the same of the program alone
    inside                      \* history: no instruction was fetched from External

INSTANCE IntControl

fetch == <<pc, pc_last, pc_last2, bds, irq_ack_s_dly, mem_to_reg_r_dly, data_access_s_dly, stall_reg,
           stall_dly2>>
memory == <<prog, mem, inst_in, data_in>>
history == <<valid, arch, next, inside>>
vars == <<controller, fetch, memory, ex, registers, history>>

Program == First .. Vector - 1

Init ==
    /\ ControllerInit
    /\ prog \in Programs
    /\ mem = [c \in Cells |-> 0]
    /\ inst_in = Code(prog, 0) /\ data_in = 0      \* the memory is clocked during reset
    /\ pc = 0 /\ pc_last = 0 /\ pc_last2 = 0
    /\ bds = FALSE /\ irq_ack_s_dly = FALSE /\ stall_reg = FALSE /\ stall_dly2 = FALSE
    /\ mem_to_reg_r_dly = FALSE /\ data_access_s_dly = FALSE
    /\ ex = None
    /\ registers = [r \in Registers |-> 0]
    /\ valid = FALSE /\ arch = 0 /\ next = First /\ inside = TRUE
-----------------------------------------------------------------------------
(* Execute stage, combinational. *)
reg_to_mem_r == RegToMem(ex)
mem_to_reg_r == MemToReg(ex)
data_access_s == reg_to_mem_r \/ mem_to_reg_r
mwait == data_access_s /\ ~ data_access_s_dly

result == Plus(IF ex.class = "auipc" THEN pc_last2 ELSE registers[ex.rs1], ex.imm)
branch == Plus(IF ex.class = "jalr" THEN registers[ex.rs1] ELSE pc_last2, ex.imm)
branch_taken == ex.class = "branch" /\ registers[ex.rs1] = registers[ex.rs2]
jump_taken == ex.class \in {"jal", "jalr"}
except == ex.class = "system"

address == IF mwait THEN result ELSE pc

(* No interrupt while a jump or an access to data is under way. *)
irq_ack_s == irq = 1 /\ ~ bds /\ ~ branch_taken /\ ~ jump_taken /\ ~ data_access_s

(* The word fetched is dropped. *)
BadBubbleJump == data_access_s \/ except \/ stall_reg \/ branch_taken \/ jump_taken \/ irq_ack_s
BadBubbleStall == data_access_s \/ except \/ branch_taken \/ jump_taken \/ bds \/ irq_ack_s
bubble ==
    data_access_s \/ except \/ stall_reg \/ branch_taken \/ jump_taken \/ bds \/ irq_ack_s
-----------------------------------------------------------------------------
(* spi_sram_ctrl stalls the core from the cycle in which an address of its *)
(* memory is on the bus, of data or of an instruction, until it has the    *)
(* word, some cycles later; an access in the cycle after that it ignores   *)
(* (stall_dly2), and the bus keeps the word of the one before.             *)
requested == address \in External /\ ~ stall_dly2
ignored == address \in External /\ stall_dly2 /\ ~ stall_reg

MayBe(stall) ==
    /\ requested => stall
    /\ stall => address \in External /\ (requested \/ stall_reg)

(* No instruction was fetched from External, nor is one in this cycle. *)
stays == inside /\ (mwait \/ pc \notin External)
-----------------------------------------------------------------------------
(* The clocked processes of the datapath. *)
pc_next ==
    IF (irq = 1 /\ irq_ack_s) \/ except THEN Vector
    ELSE IF branch_taken \/ jump_taken THEN branch
    ELSE Plus(pc, 1)

ProgramCounter(stall) ==
    IF stall THEN UNCHANGED <<pc, pc_last, pc_last2>>
    ELSE IF mwait
    THEN /\ pc' = IF ~ bds THEN pc_last ELSE pc
         /\ UNCHANGED <<pc_last, pc_last2>>
    ELSE /\ pc' = IF stall_reg THEN pc_last ELSE pc_next
         /\ pc_last' = pc
         /\ pc_last2' = pc_last

BadDelays(stall) ==
    /\ stall_reg' = stall /\ stall_dly2' = stall_reg
    /\ IF stall THEN UNCHANGED <<mem_to_reg_r_dly, data_access_s_dly>>
       ELSE mem_to_reg_r_dly' = mem_to_reg_r /\ data_access_s_dly' = data_access_s
    /\ IF stall \/ mwait THEN UNCHANGED <<irq_ack_s_dly, bds>>
       ELSE irq_ack_s_dly' = irq_ack_s /\ bds' = (bds \/ branch_taken \/ jump_taken)
Delays(stall) ==
    /\ stall_reg' = stall /\ stall_dly2' = stall_reg
    /\ IF stall THEN UNCHANGED <<mem_to_reg_r_dly, data_access_s_dly>>
       ELSE mem_to_reg_r_dly' = mem_to_reg_r /\ data_access_s_dly' = data_access_s
    /\ IF stall \/ mwait THEN UNCHANGED <<irq_ack_s_dly, bds>>
       ELSE irq_ack_s_dly' = irq_ack_s /\ bds' = (branch_taken \/ jump_taken)

Decode(stall) ==
    ex' = IF stall \/ mwait THEN ex ELSE IF bubble THEN None ELSE inst_in

write_data == IF mem_to_reg_r THEN data_in ELSE IF jump_taken THEN pc_last ELSE result

WriteBack ==
    registers' = IF (RegWrite(ex) \/ mem_to_reg_r_dly) /\ ~ mwait /\ ~ stall_reg
                 THEN Put(registers, ex.rd, write_data) ELSE registers

(* The memory answers in the next cycle; the cells behind the controller   *)
(* are written when it lets the core go on.                                *)
Memory(stall) ==
    /\ inst_in' = IF ignored THEN inst_in ELSE Code(prog, address)
    /\ data_in' = IF ~ mwait THEN 0
                  ELSE IF ignored THEN data_in
                  ELSE IF result = EPC THEN irq_epc
                  ELSE IF result = STATUS THEN irq_status
                  ELSE IF result \in Cells THEN mem[result] ELSE 0
    /\ mem' = IF reg_to_mem_r /\ mwait /\ ~ stall /\ ~ ignored /\ result \in Cells
              THEN [mem EXCEPT ![result] = registers[ex.rs2]] ELSE mem
    /\ UNCHANGED prog

statusWrite == reg_to_mem_r /\ mwait /\ result = STATUS

(* An instruction completes: a store in its first cycle, when it is on the *)
(* bus, any other in its last.                                             *)
completes(stall) == ~ stall /\ valid /\ (mwait <=> reg_to_mem_r)

(* The interrupt is taken as the request it answers ends.                  *)
taken == irq = 0 /\ irq_ack_s_dly

Completed(stall) ==
    LET following == IF branch_taken \/ jump_taken THEN branch ELSE Plus(pc_last2, 1) IN
    /\ valid' = IF stall \/ mwait THEN valid ELSE ~ bubble
    /\ arch' = IF taken \/ (completes(stall) /\ except) THEN Vector
               ELSE IF completes(stall) THEN following ELSE arch
    /\ next' = IF completes(stall) /\ pc_last2 \in Program THEN following ELSE next
    /\ inside' = stays

(* A clock cycle with the level of the interrupt line. *)
Cycle(extio_in, stall) ==
    /\ MayBe(stall)
    /\ ControllerClock(extio_in, statusWrite, registers[ex.rs2] % 2, address, irq_ack_s_dly, except, stall)
    /\ ProgramCounter(stall) /\ Delays(stall)
    /\ Decode(stall) /\ WriteBack /\ Memory(stall)
    /\ Completed(stall)

Next == \E extio_in, stall \in BOOLEAN : Cycle(extio_in, stall)

Spec == Init /\ [][Next]_vars

(* The clock runs, and an access to the external memory ends. *)
FairSpec ==
    /\ Spec
    /\ WF_vars(Next)
    /\ WF_vars(\E extio_in \in BOOLEAN : Cycle(extio_in, FALSE))
-----------------------------------------------------------------------------
(* _isr: its accesses to IRQ_EPC, its frame and IRQ_STATUS.  The registers *)
(* it saves and the handler it calls in between are left out.              *)
Isr ==
    <<I("computation", "zero", "zero", "zero", 0),
      I("load", "s10", "zero", "zero", EPC),
      I("computation", "s10", "s10", "zero", Width - 1),
      I("store", "zero", "zero", "s10", FRAME),
      I("computation", "s11", "zero", "zero", 1),
      I("store", "zero", "zero", "s11", STATUS),
      I("load", "s10", "zero", "zero", FRAME),
      I("jalr", "zero", "s10", "zero", 0)>>

(* Executing i twice in a row is executing it once. *)
Repeatable(i) ==
    \/ i.class = "auipc"
    \/ i.class = "computation" /\ (i.rs1 # i.rd \/ i.rd = "zero")

(* What the hardware asks of software: no system calls, and a first word   *)
(* of the program and of _isr ("this must be a NOP") that may be executed  *)
(* twice, which is what happens to it.                                     *)
Software ==
    \A p \in Programs :
        /\ \A a \in Word : Code(p, a).class # "system"
        /\ Repeatable(Code(p, 0)) /\ Repeatable(Code(p, Vector))

(* _isr is there, with its frame in fast memory, and nothing but _isr and  *)
(* the start-up before the program uses s10 and s11.                       *)
Serves ==
    /\ 0 < First /\ Vector + 7 \in Word
    /\ FRAME \notin External
    /\ {"s10", "s11"} \subseteq Registers \ Visible /\ "zero" \in Visible
    /\ \A p \in Programs :
           /\ \A k \in 1 .. 8 : Code(p, Vector + k - 1) = Isr[k]
           /\ \A a \in Program : {Code(p, a).rd, Code(p, a).rs1, Code(p, a).rs2} \subseteq Visible
-----------------------------------------------------------------------------
(* Every register has its type. *)
CoreTypeOK ==
    /\ ControllerTypeOK
    /\ prog \in Programs
    /\ mem \in [Cells -> Word]
    /\ inst_in \in Instruction /\ ex \in Instruction
    /\ {data_in, pc, pc_last, pc_last2, arch, next} \subseteq Word
    /\ {bds, mem_to_reg_r_dly, data_access_s_dly, irq_ack_s_dly, stall_reg, stall_dly2,
        valid, inside} \subseteq BOOLEAN
    /\ registers \in [Registers -> Word]

(* For software without system calls, each instruction takes effect once,  *)
(* in its order, on registers and memory, with interrupts between two of   *)
(* them: bubbles, wait states and stalled accesses to data do not show.    *)
(* It holds until an instruction is fetched from External; what the core   *)
(* makes of that stall is not what the instruction set says.               *)
Machine == INSTANCE Isa WITH pc <- arch, regs <- registers

Executes == Machine!Next \/ (taken /\ Machine!Interrupt(Vector))

ImplementsMachine == [][stays => Executes]_Machine!vars

(* For a program, _isr between its instructions does not show either: it   *)
(* comes back to where it was called, registers and memory as they were.   *)
(* Again up to a fetch from External.                                      *)
User == INSTANCE Isa WITH
    pc <- next, regs <- [r \in Visible |-> registers[r]], mem <- [c \in External |-> mem[c]]

ImplementsUser == [][stays => User!Next]_User!vars

(* ".text : { ... } > ram", with ram at 0x30000000 (hf-risc_spi.ld):       *)
(* programs are executed from External as from anywhere else.              *)
ExecutesAnywhere == [][Executes]_Machine!vars

(* Wherever the word being executed was fetched, and whatever stalls came  *)
(* between, pc_last2 is its address: the base of relative jumps and auipc, *)
(* and what the links and IRQ_EPC follow from.                             *)
InstructionAddressed == valid => ex = Code(prog, pc_last2)

(* "disable interrupts" (hf-risc.h): the core takes no interrupt while     *)
(* IRQ_STATUS is 0, although the controller looks at it some cycles before *)
(* it raises the request.                                                  *)
AckWhileEnabled == irq_ack_s => irq_status = 1

(* "enable interrupts after a few cycles" (crt0.s): _isr enables them two  *)
(* instructions before it is left, and is not interrupted in between; it   *)
(* has the return address in a register it does not save.  Up to a fetch   *)
(* from External.                                                          *)
ServiceUninterrupted == (stays /\ irq_ack_s /\ ~ irq_ack_s_dly) => pc_last \in Program

(* "rollback, last opcode (at EPC) was not commited" (crt0.s): as an       *)
(* interrupt is taken IRQ_EPC is one word past the instruction to complete *)
(* next, also when a jump or a load was under way as the request came.  Up *)
(* to a fetch from External.                                               *)
EpcExact == (stays /\ taken) => irq_epc = Plus(arch, 1)

(* Whatever the program does, a request is acknowledged: jumps and loads   *)
(* hold it up, but no loop of them does for ever.                          *)
RequestTaken == irq = 1 ~> irq = 0
=============================================================================
