----------------------------- MODULE CoreProofs -----------------------------
(***************************************************************************)
(* Core for every program, every layout, and requests and stalls at any    *)
(* cycle.  A first invariant says what a stalled fetch leaves behind.      *)
(* Until an instruction is fetched from External, and for programs without *)
(* system calls, a second one says which of seven phases the pipeline is   *)
(* in, and where the instruction to complete next stands in each of them.  *)
(* A third follows the program through _isr and back.                      *)
(***************************************************************************)
EXTENDS Core, TLAPS
-----------------------------------------------------------------------------
fetched == inst_in = Code(prog, pc_last)
first == ~ bds /\ ~ irq_ack_s_dly
ahead == pc = Plus(pc_last, 1)

(* After a jump. *)
Jumped == ~ valid /\ bds /\ ~ irq_ack_s_dly /\ arch = pc

(* The request stands for a cycle more after the core began to take it. *)
Answered ==
    /\ ~ valid /\ ~ bds /\ irq_ack_s_dly /\ irq = 1
    /\ pc = Vector /\ irq_epc = Plus(arch, 1)

(* The first word is fetched again: after reset, and in _isr. *)
Entering ==
    /\ ~ valid /\ ~ bds /\ irq = 0 /\ pulse_state # "irq_int"
    /\ pc = pc_last /\ pc \in {0, Vector} /\ fetched
    /\ IF irq_ack_s_dly THEN pc = Vector /\ irq_epc = Plus(arch, 1) ELSE arch = pc

(* Its first execution. *)
Entered ==
    /\ valid /\ first /\ irq = 0
    /\ Repeatable(ex)
    /\ pc_last = pc_last2 /\ arch = pc_last2 /\ ahead /\ fetched

(* The word fetched is the next to execute. *)
Bubble == ~ valid /\ first /\ arch = pc_last /\ ahead /\ fetched

(* An instruction is in the execute stage, or the first word once more. *)
again == arch = Plus(pc_last2, 1) /\ Repeatable(ex) /\ Put(registers, ex.rd, result) = registers
Executing ==
    /\ valid /\ first
    /\ pc_last = Plus(pc_last2, 1) /\ ahead
    /\ arch = pc_last2 \/ again
    /\ data_access_s => ~ data_access_s_dly /\ arch = pc_last2
    /\ data_access_s \/ fetched

(* The second cycle of an access to data. *)
Accessed ==
    /\ valid /\ first /\ data_access_s /\ data_access_s_dly
    /\ pc = pc_last /\ pc_last = Plus(pc_last2, 1)
    /\ IF reg_to_mem_r THEN arch = pc_last
       ELSE arch = pc_last2 /\ (result \in Cells => data_in = mem[result])

PulsePairs ==
    {<<"irq_idle", "irq_idle">>, <<"irq_idle", "irq_int">>, <<"irq_int", "irq_int">>,
     <<"irq_int", "irq_req">>, <<"irq_req", "irq_req">>, <<"irq_req", "irq_ackn">>,
     <<"irq_ackn", "irq_ackn">>, <<"irq_ackn", "irq_done">>, <<"irq_done", "irq_done">>,
     <<"irq_done", "irq_idle">>}

PulseInv ==
    /\ <<pulse_state, pulse_next_state>> \in PulsePairs
    /\ irq = 1 => pulse_next_state = "irq_req"
    /\ irq_ack_s_dly => pulse_state = "irq_req"

ExInv ==
    /\ ex = IF valid THEN Code(prog, pc_last2) ELSE None
    /\ stall_reg => mwait
    /\ mem_to_reg_r_dly => ~ valid \/ (mem_to_reg_r /\ data_access_s_dly)

Phases == Jumped \/ Answered \/ Entering \/ Entered \/ Bubble \/ Executing \/ Accessed

IInv == CoreTypeOK /\ PulseInv /\ ExInv /\ Phases
-----------------------------------------------------------------------------
LEMMA Words == 0 \in Word /\ 1 \in Word
BY WidthAssumption DEF Word

LEMMA PlusType ==
    ASSUME NEW a \in Word, NEW b \in Word
    PROVE  Plus(a, b) \in Word
BY WidthAssumption DEF Word, Plus

LEMMA NoneType == None \in Instruction
BY Words, RegistersAssumption DEF None, Instruction, Classes

LEMMA PutType ==
    ASSUME NEW f \in [Registers -> Word], NEW rd \in Registers, NEW value \in Word
    PROVE  /\ Put(f, rd, value) \in [Registers -> Word]
           /\ Put(f, rd, value) = [r \in DOMAIN f |-> IF r = rd /\ r # "zero" THEN value ELSE f[r]]
<1>1. CASE rd = "zero"
  <2>1. [r \in DOMAIN f |-> IF r = rd /\ r # "zero" THEN value ELSE f[r]] = f
    BY <1>1
  <2> QED BY <1>1, <2>1 DEF Put
<1>2. CASE rd # "zero"
  <2>1. [r \in DOMAIN f |-> IF r = rd /\ r # "zero" THEN value ELSE f[r]] = [f EXCEPT ![rd] = value]
    BY <1>2
  <2>2. [f EXCEPT ![rd] = value] \in [Registers -> Word]
    OBVIOUS
  <2> QED BY <1>2, <2>1, <2>2 DEF Put
<1> QED BY <1>1, <1>2

(* The signals between the stages are words. *)
LEMMA SignalTypes ==
    ASSUME CoreTypeOK
    PROVE  /\ registers[ex.rs1] \in Word /\ registers[ex.rs2] \in Word
           /\ result \in Word /\ branch \in Word
           /\ address \in Word /\ pc_next \in Word /\ write_data \in Word
           /\ ex.rd \in Registers
<1>1. /\ registers[ex.rs1] \in Word /\ registers[ex.rs2] \in Word
      /\ ex.imm \in Word /\ ex.rd \in Registers
  BY DEF CoreTypeOK, Instruction
<1>2. pc_last2 \in Word /\ pc_last \in Word /\ pc \in Word /\ data_in \in Word
  BY DEF CoreTypeOK
<1>3. result \in Word /\ branch \in Word
  BY <1>1, <1>2, PlusType DEF result, branch
<1>4. address \in Word /\ write_data \in Word
  BY <1>2, <1>3 DEF address, write_data
<1>5. pc_next \in Word
  BY <1>2, <1>3, Words, PlusType, LayoutAssumption DEF pc_next
<1> QED BY <1>1, <1>3, <1>4, <1>5

LEMMA ControllerTypeStep ==
    ASSUME CoreTypeOK, NEW e \in BOOLEAN, NEW s \in BOOLEAN, Cycle(e, s)
    PROVE  ControllerTypeOK'
<1> USE DEF ControllerTypeOK
<1>1. irq_status' \in {0, 1}
  <2>1. registers[ex.rs2] % 2 \in {0, 1}
    BY SignalTypes DEF Word
  <2> QED BY <2>1 DEF Cycle, ControllerClock, StatusRegister, CoreTypeOK
<1>2. irq_epc' \in Word
  BY SignalTypes DEF Cycle, ControllerClock, EpcRegister, CoreTypeOK
<1>3. irq' \in {0, 1} /\ {pulse_state, pulse_next_state}' \subseteq PulseStates
  <2>1. Pulse(e, irq_ack_s_dly, s)
    BY DEF Cycle, ControllerClock
  <2>2. irq \in {0, 1} /\ pulse_state \in PulseStates /\ pulse_next_state \in PulseStates
    BY DEF CoreTypeOK
  <2>3. CASE s
    BY <2>1, <2>2, <2>3 DEF Pulse
  <2>4. CASE ~ s
    BY <2>1, <2>2, <2>4 DEF Pulse, PulseStates, Following, leaves
  <2> QED BY <2>3, <2>4
<1> QED BY <1>1, <1>2, <1>3

LEMMA MemoryTypeStep ==
    ASSUME CoreTypeOK, NEW e \in BOOLEAN, NEW s \in BOOLEAN, Cycle(e, s)
    PROVE  /\ prog' \in Programs /\ mem' \in [Cells -> Word]
           /\ inst_in' \in Instruction /\ data_in' \in Word
<1>1. Memory(s)
  BY DEF Cycle
<1>2. prog' \in Programs
  BY <1>1 DEF Memory, CoreTypeOK
<1>3. mem' \in [Cells -> Word]
  BY <1>1, SignalTypes DEF Memory, CoreTypeOK
<1>4. inst_in' \in Instruction
  BY <1>1, SignalTypes, CodeAssumption DEF Memory, CoreTypeOK
<1>5. data_in' \in Word
  <2>1. irq_epc \in Word /\ irq_status \in Word /\ data_in \in Word
    BY Words DEF CoreTypeOK, ControllerTypeOK
  <2>2. result \in Cells => mem[result] \in Word
    BY DEF CoreTypeOK
  <2> QED BY <1>1, <2>1, <2>2, Words DEF Memory
<1> QED BY <1>2, <1>3, <1>4, <1>5

LEMMA DatapathTypeStep ==
    ASSUME CoreTypeOK, NEW e \in BOOLEAN, NEW s \in BOOLEAN, Cycle(e, s)
    PROVE  /\ ex' \in Instruction
           /\ {pc, pc_last, pc_last2}' \subseteq Word
           /\ {bds, mem_to_reg_r_dly, data_access_s_dly, irq_ack_s_dly,
             stall_reg, stall_dly2}' \subseteq BOOLEAN
           /\ registers' \in [Registers -> Word]
<1>1. ex' \in Instruction
  BY NoneType DEF Cycle, Decode, CoreTypeOK
<1>2. {pc, pc_last, pc_last2}' \subseteq Word
  BY SignalTypes DEF Cycle, ProgramCounter, CoreTypeOK
<1>3. {bds, mem_to_reg_r_dly, data_access_s_dly, irq_ack_s_dly,
             stall_reg, stall_dly2}' \subseteq BOOLEAN
  <2>1. /\ mem_to_reg_r \in BOOLEAN /\ data_access_s \in BOOLEAN /\ irq_ack_s \in BOOLEAN
        /\ (branch_taken \/ jump_taken) \in BOOLEAN
    BY DEF mem_to_reg_r, MemToReg, data_access_s, irq_ack_s, branch_taken, jump_taken
  <2>2. Delays(s)
    BY DEF Cycle
  <2>3. /\ bds \in BOOLEAN /\ mem_to_reg_r_dly \in BOOLEAN /\ data_access_s_dly \in BOOLEAN
        /\ irq_ack_s_dly \in BOOLEAN
    BY DEF CoreTypeOK
  <2>4. mem_to_reg_r_dly' \in BOOLEAN /\ data_access_s_dly' \in BOOLEAN /\ stall_reg' \in BOOLEAN
    BY <2>1, <2>2, <2>3, Zenon DEF Delays
  <2>5. bds' \in BOOLEAN /\ irq_ack_s_dly' \in BOOLEAN
    BY <2>1, <2>2, <2>3, Zenon DEF Delays
  <2>6. stall_dly2' \in BOOLEAN
    BY <2>2 DEF Delays, CoreTypeOK
  <2> QED BY <2>4, <2>5, <2>6
<1>4. registers' \in [Registers -> Word]
  BY SignalTypes, PutType DEF Cycle, WriteBack, CoreTypeOK
<1> QED BY <1>1, <1>2, <1>3, <1>4

LEMMA HistoryTypeStep ==
    ASSUME CoreTypeOK, NEW e \in BOOLEAN, NEW s \in BOOLEAN, Cycle(e, s)
    PROVE  valid' \in BOOLEAN /\ arch' \in Word /\ next' \in Word /\ inside' \in BOOLEAN
<1>1. Completed(s)
  BY DEF Cycle
<1>2. valid' \in BOOLEAN
  <2>1. bubble \in BOOLEAN
    BY DEF bubble
  <2> QED BY <1>1, <2>1 DEF Completed, CoreTypeOK
<1>3. Plus(pc_last2, 1) \in Word /\ branch \in Word /\ Vector \in Word
  BY Words, PlusType, SignalTypes, LayoutAssumption DEF CoreTypeOK
<1>4. arch' \in Word /\ next' \in Word
  BY <1>1, <1>3 DEF Completed, CoreTypeOK
<1>5. inside' \in BOOLEAN
  BY <1>1 DEF Completed, stays
<1> QED BY <1>2, <1>4, <1>5

LEMMA InitTypes == Init => CoreTypeOK
<1> SUFFICES ASSUME Init PROVE CoreTypeOK
  OBVIOUS
<1>1. ControllerTypeOK
  BY Words DEF Init, ControllerInit, ControllerTypeOK, PulseStates
<1>2. inst_in \in Instruction
  BY Words, CodeAssumption DEF Init
<1>3. mem \in [Cells -> Word] /\ registers \in [Registers -> Word]
  BY Words DEF Init
<1> QED BY <1>1, <1>2, <1>3, Words, NoneType, LayoutAssumption DEF Init, CoreTypeOK

LEMMA TypeStep == CoreTypeOK /\ [Next]_vars => CoreTypeOK'
<1> SUFFICES ASSUME CoreTypeOK, [Next]_vars PROVE CoreTypeOK'
  OBVIOUS
<1>1. CASE Next
  <2>1. PICK e \in BOOLEAN, s \in BOOLEAN : Cycle(e, s)
    BY <1>1 DEF Next
  <2> QED BY <2>1, ControllerTypeStep, MemoryTypeStep, DatapathTypeStep, HistoryTypeStep DEF CoreTypeOK
<1>2. CASE UNCHANGED vars
  BY <1>2 DEF vars, controller, fetch, memory, history, CoreTypeOK, ControllerTypeOK
<1> QED BY <1>1, <1>2

(* Every register keeps its type, whatever the software and the devices    *)
(* do: no address leaves the memory map of Width words.                    *)
THEOREM CoreTypes == Spec => []CoreTypeOK
<1>1. Init => CoreTypeOK
  BY InitTypes
<1>2. CoreTypeOK /\ [Next]_vars => CoreTypeOK'
  BY TypeStep
<1> QED BY <1>1, <1>2, PTL DEF Spec

-----------------------------------------------------------------------------
(* Of the words on the bus, in the two cycles before and on their way, at  *)
(* most one is in External: a stalled fetch goes back to the word before   *)
(* it, which was fetched without a stall.                                  *)
FetchInv ==
    /\ ~ (pc \in External /\ pc_last \in External)
    /\ pc_last \in External => ~ mwait
    /\ stall_reg => address \in External
    /\ ~ ignored
    /\ bds => ~ data_access_s
    /\ stall_reg \/ data_access_s \/ fetched
    /\ InstructionAddressed

LEMMA FetchInit == Init => FetchInv
BY LayoutAssumption DEF Init, FetchInv, ignored, mwait, data_access_s, reg_to_mem_r, mem_to_reg_r,
       RegToMem, MemToReg, None, fetched, InstructionAddressed

(* The controller of the memory has not answered yet. *)
LEMMA HeldFetch ==
    ASSUME FetchInv, NEW e \in BOOLEAN, Cycle(e, TRUE)
    PROVE  FetchInv'
<1>1. /\ UNCHANGED <<pc, pc_last, pc_last2, bds, data_access_s_dly, ex, valid, prog>>
      /\ stall_reg' /\ address \in External
  BY DEF Cycle, MayBe, ProgramCounter, Delays, Decode, Memory, Completed
<1>2. /\ (reg_to_mem_r' <=> reg_to_mem_r) /\ (mem_to_reg_r' <=> mem_to_reg_r)
  BY <1>1 DEF reg_to_mem_r, mem_to_reg_r
<1>3. (data_access_s' <=> data_access_s) /\ (mwait' <=> mwait)
  BY <1>1, <1>2 DEF data_access_s, mwait
<1>4. address' = address
  <2>1. CASE mwait
    <3>1. registers' = registers
      BY <2>1 DEF Cycle, WriteBack
    <3>2. result' = result
      BY <1>1, <3>1 DEF result, Plus
    <3> QED BY <1>3, <2>1, <3>2 DEF address
  <2>2. CASE ~ mwait
    BY <1>1, <1>3, <2>2 DEF address
  <2> QED BY <2>1, <2>2
<1>5. ~ ignored'
  BY <1>1 DEF ignored
<1>6. InstructionAddressed'
  BY <1>1 DEF FetchInv, InstructionAddressed
<1> QED BY <1>1, <1>3, <1>4, <1>5, <1>6 DEF FetchInv

(* The first cycle of an access goes back to the word behind the access.   *)
LEMMA WaitFetch ==
    ASSUME FetchInv, NEW e \in BOOLEAN, Cycle(e, FALSE), mwait
    PROVE  FetchInv'
<1>1. data_access_s /\ ~ bds /\ pc_last \notin External
  BY DEF FetchInv, mwait
<1>2. /\ pc' = pc_last /\ UNCHANGED <<pc_last, pc_last2, bds, ex, valid, prog>>
      /\ data_access_s_dly' /\ ~ stall_reg'
  BY <1>1 DEF Cycle, ProgramCounter, Delays, Decode, Memory, Completed
<1>3. data_access_s' /\ ~ mwait'
  BY <1>1, <1>2 DEF data_access_s, reg_to_mem_r, mem_to_reg_r, mwait
<1>4. ~ ignored'
  BY <1>1, <1>2, <1>3 DEF ignored, address
<1>5. InstructionAddressed'
  BY <1>2 DEF FetchInv, InstructionAddressed
<1> QED BY <1>1, <1>2, <1>3, <1>4, <1>5 DEF FetchInv

LEMMA MovedFetch ==
    ASSUME FetchInv, NEW e \in BOOLEAN, Cycle(e, FALSE), ~ mwait
    PROVE  FetchInv'
<1>1. /\ address = pc /\ ~ stall_reg' /\ stall_dly2' = stall_reg /\ prog' = prog
      /\ pc' = IF stall_reg THEN pc_last ELSE pc_next
      /\ pc_last' = pc /\ pc_last2' = pc_last
      /\ ex' = (IF bubble THEN None ELSE inst_in) /\ valid' = ~ bubble
      /\ bds' = (branch_taken \/ jump_taken)
  BY DEF Cycle, address, ProgramCounter, Delays, Decode, Memory, Completed
<1>2. fetched'
  BY <1>1 DEF FetchInv, Cycle, Memory, fetched
<1>3. bubble => ~ data_access_s' /\ ~ mwait'
  BY <1>1 DEF None, data_access_s, reg_to_mem_r, mem_to_reg_r, RegToMem, MemToReg, mwait
<1>4. bds' => ~ data_access_s'
  BY <1>1, <1>3 DEF bubble
<1>5. CASE stall_reg
  <2>1. pc \in External /\ pc_last \notin External /\ bubble
    BY <1>1, <1>5 DEF FetchInv, bubble
  <2>2. pc' \notin External /\ ~ data_access_s' /\ ~ mwait' /\ ~ valid'
    BY <1>1, <1>3, <1>5, <2>1
  <2>3. ~ ignored'
    BY <2>2 DEF ignored, address
  <2> QED BY <1>1, <1>2, <1>4, <2>2, <2>3 DEF FetchInv, InstructionAddressed
<1>6. CASE ~ stall_reg
  <2>1. pc \notin External
    BY <1>1, <1>6 DEF FetchInv, ignored, Cycle, MayBe, requested
  <2>2. ~ ignored'
    BY <1>1, <1>6 DEF ignored
  <2>3. InstructionAddressed'
    BY <1>1, <1>6 DEF FetchInv, fetched, InstructionAddressed, bubble
  <2> QED BY <1>1, <1>2, <1>4, <2>1, <2>2, <2>3 DEF FetchInv
<1> QED BY <1>5, <1>6

LEMMA FetchStep == FetchInv /\ [Next]_vars => FetchInv'
<1> SUFFICES ASSUME FetchInv, [Next]_vars PROVE FetchInv'
  OBVIOUS
<1>1. CASE Next
  <2>1. PICK e \in BOOLEAN, s \in BOOLEAN : Cycle(e, s)
    BY <1>1 DEF Next
  <2> QED BY <2>1, HeldFetch, WaitFetch, MovedFetch
<1>2. CASE UNCHANGED vars
  BY <1>2 DEF vars, controller, fetch, memory, history, FetchInv, InstructionAddressed, fetched,
              ignored, address, result, Plus, mwait, data_access_s, reg_to_mem_r, mem_to_reg_r
<1> QED BY <1>1, <1>2

(* Whatever the software does, and wherever it is executed: the word in    *)
(* the execute stage is the one at pc_last2, although a stalled fetch      *)
(* moves pc back and leaves the old word on the bus.                       *)
THEOREM InstructionsAddressed == Spec => []InstructionAddressed
<1>1. Init => FetchInv
  BY FetchInit
<1>2. FetchInv /\ [Next]_vars => FetchInv'
  BY FetchStep
<1>3. FetchInv => InstructionAddressed
  BY DEF FetchInv
<1> QED BY <1>1, <1>2, <1>3, PTL DEF Spec
-----------------------------------------------------------------------------
(* A cycle that fetches from near memory, if anything: only an access to   *)
(* data may stall it.                                                      *)
Near(e, s) == Cycle(e, s) /\ ~ ignored /\ (s => mwait /\ result \in External)

LEMMA InsideNear ==
    ASSUME FetchInv, NEW e \in BOOLEAN, NEW s \in BOOLEAN, Cycle(e, s), inside'
    PROVE  Near(e, s) /\ inside
<1>1. inside /\ (mwait \/ pc \notin External)
  BY DEF Cycle, Completed, stays
<1>2. s => mwait /\ result \in External
  BY <1>1 DEF Cycle, MayBe, address
<1> QED BY <1>1, <1>2 DEF FetchInv, Near
-----------------------------------------------------------------------------
(* A cycle with a bubble in the execute stage. *)
LEMMA NoneSignals ==
    ASSUME ExInv, ~ valid
    PROVE  /\ ex = None
           /\ ~ reg_to_mem_r /\ ~ mem_to_reg_r /\ ~ data_access_s /\ ~ mwait /\ ~ stall_reg
           /\ ~ branch_taken /\ ~ jump_taken /\ ~ except /\ ~ RegWrite(ex)
           /\ ex.rd = "zero"
<1>1. ex = None /\ ex.class = "none" /\ ex.rd = "zero"
  BY DEF ExInv, None
<1>2. ~ reg_to_mem_r /\ ~ mem_to_reg_r /\ ~ RegWrite(ex)
  BY <1>1 DEF reg_to_mem_r, mem_to_reg_r, RegToMem, MemToReg, RegWrite
<1>3. ~ data_access_s /\ ~ mwait
  BY <1>2 DEF data_access_s, mwait
<1>4. ~ stall_reg
  BY <1>3 DEF ExInv
<1>5. ~ branch_taken /\ ~ jump_taken /\ ~ except
  BY <1>1 DEF branch_taken, jump_taken, except
<1> QED BY <1>1, <1>2, <1>3, <1>4, <1>5

(* What any cycle does that is neither a stall nor the first of an access. *)
LEMMA MovingStep ==
    ASSUME CoreTypeOK, NEW e \in BOOLEAN, NEW s \in BOOLEAN, Near(e, s), ~ mwait, ~ stall_reg, ~ except
    PROVE  /\ ~ s
           /\ pc' = IF irq_ack_s THEN Vector
                    ELSE IF branch_taken \/ jump_taken THEN branch ELSE Plus(pc, 1)
           /\ pc_last' = pc /\ pc_last2' = pc_last
           /\ ~ stall_reg' /\ mem_to_reg_r_dly' = mem_to_reg_r /\ data_access_s_dly' = data_access_s
           /\ irq_ack_s_dly' = irq_ack_s /\ bds' = (branch_taken \/ jump_taken)
           /\ valid' = ~ bubble
           /\ ex' = IF bubble THEN None ELSE inst_in
           /\ inst_in' = Code(prog, pc) /\ UNCHANGED <<prog, mem>>
           /\ irq_epc' = IF irq = 1 /\ ~ irq_ack_s_dly THEN pc ELSE irq_epc
<1>1. ~ s /\ address = pc
  BY DEF Near, Cycle, address
<1>2. /\ pc' = IF irq_ack_s THEN Vector
               ELSE IF branch_taken \/ jump_taken THEN branch ELSE Plus(pc, 1)
      /\ pc_last' = pc /\ pc_last2' = pc_last
  BY <1>1 DEF Near, Cycle, ProgramCounter, pc_next, irq_ack_s
<1>3. /\ ~ stall_reg' /\ mem_to_reg_r_dly' = mem_to_reg_r /\ data_access_s_dly' = data_access_s
      /\ irq_ack_s_dly' = irq_ack_s /\ bds' = (branch_taken \/ jump_taken)
  BY <1>1 DEF Near, Cycle, Delays
<1>4. valid' = ~ bubble /\ ex' = IF bubble THEN None ELSE inst_in
  BY <1>1 DEF Near, Cycle, Decode, Completed
<1>5. inst_in' = Code(prog, pc) /\ UNCHANGED <<prog, mem>>
  BY <1>1 DEF Near, Cycle, Memory
<1>6. irq_epc' = IF irq = 1 /\ ~ irq_ack_s_dly THEN pc ELSE irq_epc
  BY <1>1 DEF Near, Cycle, ControllerClock, EpcRegister
<1> QED BY <1>1, <1>2, <1>3, <1>4, <1>5, <1>6

LEMMA IdleStep ==
    ASSUME CoreTypeOK, ExInv, ~ valid, NEW e \in BOOLEAN, NEW s \in BOOLEAN, Near(e, s)
    PROVE  /\ ~ mwait /\ ~ stall_reg /\ ~ except /\ ~ branch_taken /\ ~ jump_taken
           /\ (irq_ack_s <=> irq = 1 /\ ~ bds) /\ (bubble <=> bds \/ irq_ack_s)
           /\ ~ mem_to_reg_r_dly' /\ ~ data_access_s_dly'
           /\ arch' = IF taken THEN Vector ELSE arch
           /\ registers' = registers
<1>1. (irq_ack_s <=> irq = 1 /\ ~ bds) /\ (bubble <=> bds \/ irq_ack_s)
  BY NoneSignals DEF irq_ack_s, bubble, CoreTypeOK
<1>2. ~ mem_to_reg_r_dly' /\ ~ data_access_s_dly'
  BY NoneSignals, MovingStep
<1>3. arch' = IF taken THEN Vector ELSE arch
  BY NoneSignals DEF Near, Cycle, Completed, completes
<1>4. registers' = registers
  BY NoneSignals DEF Near, Cycle, WriteBack, Put
<1> QED BY <1>1, <1>2, <1>3, <1>4, NoneSignals

LEMMA PulseStep ==
    ASSUME IInv, NEW e \in BOOLEAN, NEW s \in BOOLEAN, Near(e, s)
    PROVE  /\ PulseInv'
           /\ irq = 1 /\ ~ irq_ack_s_dly => irq' = 1
           /\ irq_ack_s_dly => irq' = 0
           /\ irq = 0 /\ pulse_state # "irq_int" => irq' = 0
<1>1. Pulse(e, irq_ack_s_dly, s)
  BY DEF Near, Cycle, ControllerClock
<1>2. irq_ack_s_dly => ~ s /\ ~ mwait
  <2>1. irq_ack_s_dly => ~ valid
    BY DEF IInv, Phases, first, Jumped, Answered, Entering, Entered, Bubble, Executing, Accessed
  <2> QED BY <2>1, IdleStep DEF IInv, Near, Cycle
<1>3. irq_ack_s_dly' => irq_ack_s_dly \/ (irq = 1 /\ ~ s)
  BY DEF Near, Cycle, Delays, irq_ack_s
<1>4. <<pulse_state, pulse_next_state>> \in PulsePairs
  BY DEF IInv, PulseInv
<1>5. irq = 1 => pulse_next_state = "irq_req" /\ pulse_state \in {"irq_int", "irq_req"}
  BY <1>4 DEF IInv, PulseInv, PulsePairs
<1>6. CASE s
  BY <1>1, <1>2, <1>3, <1>6 DEF Pulse, IInv, PulseInv
<1>7. CASE ~ s
  <2>1. /\ pulse_state' = pulse_next_state
        /\ pulse_next_state' =
               IF leaves(e, irq_ack_s_dly) THEN Following[pulse_state] ELSE pulse_next_state
        /\ irq' = IF pulse_state = "irq_int" THEN 1
                  ELSE IF pulse_state = "irq_req" /\ irq_ack_s_dly THEN 0 ELSE irq
    BY <1>1, <1>7 DEF Pulse
  <2>2. /\ Following["irq_idle"] = "irq_int" /\ Following["irq_int"] = "irq_req"
        /\ Following["irq_req"] = "irq_ackn" /\ Following["irq_ackn"] = "irq_done"
        /\ Following["irq_done"] = "irq_idle"
    BY DEF Following
  <2>3. <<pulse_state, pulse_next_state>>' \in PulsePairs
    BY <1>4, <2>1, <2>2 DEF PulsePairs, leaves
  <2>4. irq' = 1 => pulse_next_state' = "irq_req"
    BY <1>5, <2>1, <2>2 DEF leaves
  <2>5. irq_ack_s_dly => pulse_state = "irq_req"
    BY DEF IInv, PulseInv
  <2>6. irq_ack_s_dly' => pulse_state' = "irq_req"
    BY <1>2, <1>5, <2>1 DEF Near, Cycle, Delays, irq_ack_s
  <2> QED BY <1>5, <2>1, <2>3, <2>4, <2>5, <2>6 DEF PulseInv
<1> QED BY <1>6, <1>7

-----------------------------------------------------------------------------
(* What a cycle does to the machine of instructions. *)
Advance ==
    \/ Machine!Next
    \/ taken /\ Machine!Interrupt(Vector)
    \/ UNCHANGED Machine!vars

LEMMA JumpedStep ==
    ASSUME IInv, Jumped, NEW e \in BOOLEAN, NEW s \in BOOLEAN, Near(e, s)
    PROVE  Phases' /\ ExInv' /\ Advance
<1> USE DEF IInv
<1>1. ~ valid /\ ~ irq_ack_s /\ bubble /\ ~ taken
  BY IdleStep DEF Jumped, taken
<1>2. /\ ~ valid' /\ ~ bds' /\ ~ irq_ack_s_dly' /\ ex' = None
      /\ pc' = Plus(pc, 1) /\ pc_last' = pc /\ inst_in' = Code(prog, pc) /\ prog' = prog
      /\ arch' = pc /\ arch' = arch /\ registers' = registers /\ mem' = mem
  BY <1>1, IdleStep, MovingStep DEF Jumped
<1>3. Bubble'
  BY <1>2 DEF Bubble, first, ahead, fetched
<1>4. ExInv'
  BY <1>1, <1>2, IdleStep, MovingStep DEF ExInv
<1>5. Advance
  BY <1>2 DEF Advance, Machine!vars
<1> QED BY <1>3, <1>4, <1>5 DEF Phases

LEMMA AnsweredStep ==
    ASSUME IInv, Answered, NEW e \in BOOLEAN, NEW s \in BOOLEAN, Near(e, s)
    PROVE  Phases' /\ ExInv' /\ Advance
<1> USE DEF IInv
<1>1. ~ valid /\ irq_ack_s /\ bubble /\ ~ taken
  BY IdleStep DEF Answered, taken
<1>2. /\ ~ valid' /\ ~ bds' /\ irq_ack_s_dly' /\ ex' = None
      /\ pc' = Vector /\ pc_last' = Vector /\ inst_in' = Code(prog, Vector) /\ prog' = prog
      /\ irq_epc' = Plus(arch, 1) /\ arch' = arch /\ registers' = registers /\ mem' = mem
  BY <1>1, IdleStep, MovingStep DEF Answered
<1>3. irq' = 0 /\ pulse_state' # "irq_int"
  BY <1>2, PulseStep DEF Answered, PulseInv
<1>4. Entering'
  BY <1>2, <1>3 DEF Entering, fetched
<1>5. ExInv'
  BY <1>1, <1>2, IdleStep, MovingStep DEF ExInv
<1>6. Advance
  BY <1>2 DEF Advance, Machine!vars
<1> QED BY <1>4, <1>5, <1>6 DEF Phases

LEMMA EnteringStep ==
    ASSUME Software, IInv, Entering, NEW e \in BOOLEAN, NEW s \in BOOLEAN, Near(e, s)
    PROVE  Phases' /\ ExInv' /\ Advance
<1> USE DEF IInv
<1>1. ~ valid /\ ~ irq_ack_s /\ ~ bubble /\ (taken <=> irq_ack_s_dly)
  BY IdleStep DEF Entering, taken
<1>2. /\ valid' /\ ~ bds' /\ ~ irq_ack_s_dly' /\ ex' = Code(prog, pc)
      /\ pc' = Plus(pc, 1) /\ pc_last' = pc /\ pc_last2' = pc
      /\ inst_in' = Code(prog, pc) /\ prog' = prog
      /\ arch' = pc /\ registers' = registers /\ mem' = mem
  BY <1>1, IdleStep, MovingStep DEF Entering, fetched
<1>3. Repeatable(ex')
  BY <1>2 DEF Software, Entering, CoreTypeOK
<1>4. irq' = 0
  BY PulseStep DEF Entering
<1>5. Entered'
  BY <1>2, <1>3, <1>4 DEF Entered, first, ahead, fetched, Repeatable
<1>6. ExInv'
  BY <1>1, <1>2, IdleStep, MovingStep DEF ExInv
<1>7. Advance
  <2>1. CASE irq_ack_s_dly
    BY <1>1, <1>2, <2>1 DEF Advance, Machine!Interrupt, Entering
  <2>2. CASE ~ irq_ack_s_dly
    BY <1>2, <2>2 DEF Advance, Machine!vars, Entering
  <2> QED BY <2>1, <2>2
<1> QED BY <1>5, <1>6, <1>7 DEF Phases

(* From a bubble, and from any instruction that leaves pc_last the next to *)
(* execute: either that word is decoded or the interrupt drops it.         *)
LEMMA DecodeStep ==
    ASSUME IInv, NEW e \in BOOLEAN, NEW s \in BOOLEAN, Near(e, s),
           ~ mwait, ~ stall_reg, ~ except, ~ data_access_s, ~ branch_taken, ~ jump_taken,
           first, ahead, fetched, arch' = pc_last
    PROVE  Phases' /\ ExInv'
<1> USE DEF IInv
<1>1. (irq_ack_s <=> irq = 1) /\ (bubble <=> irq_ack_s)
  BY DEF irq_ack_s, bubble, first, data_access_s
<1>2. ~ bds' /\ pc_last' = pc /\ pc_last2' = pc_last /\ inst_in' = Code(prog, pc) /\ prog' = prog
  BY MovingStep
<1>3. CASE irq = 1
  <2>1. ~ valid' /\ irq_ack_s_dly' /\ ex' = None /\ pc' = Vector /\ irq_epc' = Plus(arch, 1)'
    BY <1>1, <1>3, MovingStep DEF first, ahead, Plus
  <2>2. irq' = 1
    BY <1>3, PulseStep DEF first
  <2>3. Answered'
    BY <1>2, <2>1, <2>2 DEF Answered, Plus
  <2>4. ExInv'
    BY <2>1, MovingStep DEF ExInv
  <2> QED BY <2>3, <2>4 DEF Phases
<1>4. CASE irq # 1
  <2>1. valid' /\ ~ irq_ack_s_dly' /\ ex' = Code(prog, pc_last) /\ pc' = Plus(pc, 1)
        /\ ~ data_access_s_dly' /\ ~ mem_to_reg_r_dly'
    BY <1>1, <1>4, MovingStep DEF fetched, data_access_s
  <2>2. pc_last' = Plus(pc_last2, 1)' /\ pc' = Plus(pc_last, 1)'
    BY <1>2, <2>1 DEF ahead, Plus
  <2>3. Executing'
    BY <1>2, <2>1, <2>2 DEF Executing, first, ahead, fetched
  <2>4. ExInv'
    BY <1>2, <2>1, MovingStep DEF ExInv
  <2> QED BY <2>3, <2>4 DEF Phases
<1> QED BY <1>3, <1>4

LEMMA BubbleStep ==
    ASSUME IInv, Bubble, NEW e \in BOOLEAN, NEW s \in BOOLEAN, Near(e, s)
    PROVE  Phases' /\ ExInv' /\ Advance
<1> USE DEF IInv
<1>1. ~ valid /\ ~ taken
  BY DEF Bubble, first, taken
<1>2. arch' = arch /\ registers' = registers /\ UNCHANGED <<prog, mem>>
  BY <1>1, IdleStep, MovingStep
<1>3. Phases' /\ ExInv'
  BY <1>1, <1>2, IdleStep, NoneSignals, DecodeStep DEF Bubble
<1>4. Advance
  BY <1>2 DEF Advance, Machine!vars
<1> QED BY <1>3, <1>4

-----------------------------------------------------------------------------
(* The signals of an instruction, by its class. *)
LEMMA ClassSignals ==
    /\ data_access_s <=> ex.class \in {"load", "store"}
    /\ mem_to_reg_r <=> ex.class = "load"
    /\ reg_to_mem_r <=> ex.class = "store"
    /\ branch_taken \/ jump_taken => ex.class \in {"branch", "jal", "jalr"}
    /\ RegWrite(ex) <=> ex.class \in {"computation", "auipc", "load", "jal", "jalr"}
    /\ mwait => data_access_s
BY DEF data_access_s, mem_to_reg_r, reg_to_mem_r, MemToReg, RegToMem, branch_taken, jump_taken,
       RegWrite, mwait

LEMMA ValidEx ==
    ASSUME Software, IInv, valid
    PROVE  /\ ex = Code(prog, pc_last2) /\ ex.class \in Classes \ {"system"} /\ ~ except
           /\ ~ mwait => ~ stall_reg
           /\ ~ data_access_s => ~ mem_to_reg_r_dly
           /\ first /\ ~ taken
<1>1. ex = Code(prog, pc_last2)
  BY DEF IInv, ExInv
<1>2. ex.class \in Classes \ {"system"} /\ ~ except
  BY <1>1 DEF IInv, CoreTypeOK, Software, Instruction, except
<1>3. first /\ ~ taken
  BY DEF IInv, Phases, first, Jumped, Answered, Entering, Entered, Bubble, Executing, Accessed, taken
<1>4. ~ data_access_s => ~ mem_to_reg_r_dly
  BY ClassSignals DEF IInv, ExInv
<1> QED BY <1>1, <1>2, <1>3, <1>4 DEF IInv, ExInv

(* An instruction that does not access data completes in one cycle. *)
LEMMA CompleteStep ==
    ASSUME Software, IInv, valid, ~ data_access_s, NEW e \in BOOLEAN, NEW s \in BOOLEAN, Near(e, s)
    PROVE  /\ ~ mwait /\ ~ stall_reg
           /\ arch' = IF branch_taken \/ jump_taken THEN branch ELSE Plus(pc_last2, 1)
           /\ registers' = IF RegWrite(ex)
                           THEN Put(registers, ex.rd, IF jump_taken THEN pc_last ELSE result)
                           ELSE registers
<1>1. ~ mwait /\ ~ stall_reg /\ ~ s /\ ~ reg_to_mem_r /\ ~ mem_to_reg_r
  BY ClassSignals, ValidEx DEF Near, Cycle
<1>2. arch' = IF branch_taken \/ jump_taken THEN branch ELSE Plus(pc_last2, 1)
  BY <1>1, ValidEx DEF Near, Cycle, Completed, completes
<1>3. registers' = IF RegWrite(ex)
                   THEN Put(registers, ex.rd, IF jump_taken THEN pc_last ELSE result)
                   ELSE registers
  BY <1>1, ValidEx DEF Near, Cycle, WriteBack, write_data
<1> QED BY <1>1, <1>2, <1>3

LEMMA CompleteAdvance ==
    ASSUME Software, IInv, valid, ~ data_access_s, NEW e \in BOOLEAN, NEW s \in BOOLEAN, Near(e, s),
           arch = pc_last2, jump_taken => pc_last = Plus(pc_last2, 1)
    PROVE  Machine!Next
<1>1. UNCHANGED <<prog, mem>> /\ ex = Code(prog, arch) /\ ex.class \in Classes \ {"system", "load", "store"}
  BY ValidEx, CompleteStep, MovingStep, ClassSignals DEF IInv
<1>2. registers \in [Registers -> Word] /\ pc_last \in Word
  BY DEF IInv, CoreTypeOK
<1>3. CASE ex.class = "none"
  <2>1. Machine!Idle(ex)
    BY <1>1, <1>3, CompleteStep, ClassSignals DEF Machine!Idle, Machine!Plus, Plus
  <2> QED BY <1>1, <2>1 DEF Machine!Next
<1>4. CASE ex.class \in {"computation", "auipc"}
  <2>1. ~ branch_taken /\ ~ jump_taken /\ RegWrite(ex)
    BY <1>4, ClassSignals
  <2>2. registers' = Put(registers, ex.rd, result) /\ arch' = Plus(pc_last2, 1)
    BY <2>1, CompleteStep
  <2>3. Machine!Set(ex.rd, result)
    BY <1>2, <2>2, SignalTypes, PutType DEF Machine!Set, IInv
  <2>4. Machine!Compute(ex)
    BY <1>1, <1>4, <2>2, <2>3 DEF Machine!Compute, Machine!Plus, Plus, result
  <2> QED BY <1>1, <2>4 DEF Machine!Next
<1>5. CASE ex.class = "branch"
  <2>1. registers' = registers /\ ~ jump_taken
    BY <1>5, CompleteStep, ClassSignals DEF jump_taken
  <2>2. Machine!Branch(ex)
    BY <1>1, <1>5, <2>1, CompleteStep DEF Machine!Branch, Machine!Plus, Plus, branch, branch_taken
  <2> QED BY <1>1, <2>2 DEF Machine!Next
<1>6. CASE ex.class \in {"jal", "jalr"}
  <2>1. jump_taken /\ RegWrite(ex)
    BY <1>6, ClassSignals DEF jump_taken
  <2>2. registers' = Put(registers, ex.rd, pc_last) /\ arch' = branch
    BY <2>1, CompleteStep
  <2>3. Machine!Set(ex.rd, pc_last)
    BY <1>2, <2>2, SignalTypes, PutType DEF Machine!Set, IInv
  <2>4. pc_last = Plus(arch, 1)
    BY <2>1
  <2>5. Machine!Jump(ex)
    BY <1>1, <1>6, <2>2, <2>3, <2>4 DEF Machine!Jump, Machine!Plus, Plus, branch
  <2> QED BY <1>1, <2>5 DEF Machine!Next
<1> QED BY <1>1, <1>3, <1>4, <1>5, <1>6 DEF Classes

LEMMA EnteredStep ==
    ASSUME Software, IInv, Entered, NEW e \in BOOLEAN, NEW s \in BOOLEAN, Near(e, s)
    PROVE  Phases' /\ ExInv' /\ Advance
<1>1. /\ valid /\ ~ data_access_s /\ ~ branch_taken /\ ~ jump_taken /\ RegWrite(ex)
      /\ ex.class \in {"computation", "auipc"}
  BY ClassSignals DEF Entered, Repeatable
<1>2. ~ irq_ack_s /\ ~ bubble
  BY <1>1, CompleteStep, ValidEx DEF irq_ack_s, bubble, Entered, first
<1>3. /\ arch' = Plus(pc_last2, 1) /\ registers' = Put(registers, ex.rd, result)
      /\ ~ mwait /\ ~ stall_reg
  BY <1>1, CompleteStep
<1>4. /\ valid' /\ ~ bds' /\ ~ irq_ack_s_dly' /\ ex' = ex
      /\ pc' = Plus(pc, 1) /\ pc_last' = pc /\ pc_last2' = pc_last2
      /\ inst_in' = Code(prog, pc) /\ prog' = prog
      /\ ~ stall_reg' /\ ~ mem_to_reg_r_dly' /\ ~ data_access_s'
  BY <1>1, <1>2, <1>3, MovingStep, ValidEx, ClassSignals DEF IInv, Entered, fetched, data_access_s, reg_to_mem_r, mem_to_reg_r
<1>5. again'
  <2>1. registers \in [Registers -> Word] /\ ex.rd \in Registers /\ result \in Word
    BY SignalTypes DEF IInv, CoreTypeOK
  <2>2. result' = result
    <3>1. ex.class = "auipc" \/ registers'[ex.rs1] = registers[ex.rs1]
      BY <1>1, <1>3, <2>1 DEF Entered, Repeatable, Put
    <3> QED BY <3>1, <1>4 DEF result, Plus
  <2>3. Put(registers', ex.rd, result) = registers'
    BY <1>3, <2>1 DEF Put
  <2>4. arch' = Plus(pc_last2', 1) /\ Repeatable(ex')
    BY <1>3, <1>4 DEF Entered
  <2>5. Put(registers', ex'.rd, result') = registers'
    BY <1>4, <2>2, <2>3
  <2> QED BY <2>4, <2>5 DEF again, Plus, Put, Repeatable
<1>6. pc_last' = Plus(pc_last2, 1)' /\ ahead'
  BY <1>4 DEF Entered, ahead, Plus
<1>7. Executing'
  BY <1>4, <1>5, <1>6 DEF Executing, first, fetched
<1>8. ExInv'
  BY <1>4, ValidEx, <1>1 DEF ExInv
<1>9. Machine!Next
  BY <1>1, CompleteAdvance DEF Entered
<1> QED BY <1>7, <1>8, <1>9 DEF Phases, Advance

(* The controller of the memory has not answered yet. *)
LEMMA StalledStep ==
    ASSUME Software, IInv, Executing, NEW e \in BOOLEAN, NEW s \in BOOLEAN, Near(e, s), s
    PROVE  Phases' /\ ExInv' /\ Advance
<1>1. mwait /\ data_access_s
  BY ClassSignals DEF Near, Cycle
<1>2. /\ UNCHANGED <<pc, pc_last, pc_last2, bds, irq_ack_s_dly, mem_to_reg_r_dly, data_access_s_dly>>
      /\ UNCHANGED <<ex, valid, arch, prog>>
  BY <1>1, ValidEx DEF Executing, Near, Cycle, ProgramCounter, Delays, Decode, Memory, Completed, completes
<1>3. UNCHANGED <<registers, mem>>
  BY <1>1 DEF Near, Cycle, WriteBack, Memory
<1>4. data_access_s' /\ mwait'
  BY <1>1, <1>2 DEF data_access_s, reg_to_mem_r, mem_to_reg_r, mwait
<1>5. ~ data_access_s_dly /\ arch = pc_last2
  BY <1>1 DEF Executing
<1>6. pc_last' = Plus(pc_last2, 1)' /\ ahead'
  BY <1>2 DEF Executing, ahead, Plus
<1>7. Executing'
  BY <1>2, <1>4, <1>5, <1>6 DEF Executing, first
<1>8. ExInv'
  BY <1>2, <1>4, ValidEx, <1>5 DEF ExInv, Executing, IInv
<1>9. Advance
  BY <1>2, <1>3 DEF Advance, Machine!vars
<1> QED BY <1>7, <1>8, <1>9 DEF Phases

(* The first cycle of an access: a store completes. *)
LEMMA AccessStep ==
    ASSUME Software, IInv, Executing, mwait, NEW e \in BOOLEAN, NEW s \in BOOLEAN, Near(e, s), ~ s
    PROVE  Phases' /\ ExInv' /\ Advance
<1>1. /\ valid /\ first /\ data_access_s /\ ~ data_access_s_dly /\ arch = pc_last2
      /\ ~ branch_taken /\ ~ jump_taken
  BY ClassSignals DEF Executing
<1>2. /\ pc' = pc_last /\ UNCHANGED <<pc_last, pc_last2, bds, irq_ack_s_dly, ex, valid, prog, registers>>
      /\ ~ stall_reg' /\ data_access_s_dly' /\ (mem_to_reg_r_dly' <=> mem_to_reg_r)
  BY <1>1 DEF first, Near, Cycle, ProgramCounter, Delays, Decode, Memory, Completed, WriteBack
<1>3. result' = result /\ (data_access_s' <=> data_access_s)
      /\ (reg_to_mem_r' <=> reg_to_mem_r) /\ (mem_to_reg_r' <=> mem_to_reg_r)
  BY <1>2 DEF result, Plus, data_access_s, reg_to_mem_r, mem_to_reg_r
<1>4. pc' = pc_last' /\ pc_last' = Plus(pc_last2, 1)'
  BY <1>2 DEF Executing, Plus
<1>5. valid' /\ first' /\ data_access_s' /\ data_access_s_dly'
  BY <1>1, <1>2, <1>3 DEF first
<1>6. ExInv'
  BY <1>2, <1>3, <1>5, ValidEx, <1>1 DEF ExInv, IInv
<1>7. CASE reg_to_mem_r
  <2>1. arch' = Plus(pc_last2, 1) /\ arch' = pc_last'
    BY <1>1, <1>2, <1>7, ValidEx DEF Near, Cycle, Completed, completes, Executing
  <2>2. mem' = IF result \in Cells THEN [mem EXCEPT ![result] = registers[ex.rs2]] ELSE mem
    BY <1>7 DEF Near, Cycle, Memory
  <2>3. mem' = [c \in DOMAIN mem |-> IF c = result THEN registers[ex.rs2] ELSE mem[c]]
    <3>1. mem \in [Cells -> Word]
      BY DEF IInv, CoreTypeOK
    <3>2. CASE result \in Cells
      BY <2>2, <3>1, <3>2
    <3>3. CASE result \notin Cells
      <4>1. mem = [c \in DOMAIN mem |-> IF c = result THEN registers[ex.rs2] ELSE mem[c]]
        BY <3>1, <3>3
      <4> QED BY <2>2, <3>3, <4>1
    <3> QED BY <3>2, <3>3
  <2>4. result = Plus(registers[ex.rs1], ex.imm) /\ ex.class = "store"
    BY <1>7, ClassSignals DEF result
  <2>5. Machine!Store(ex)
    BY <1>1, <1>2, <2>1, <2>3, <2>4 DEF Machine!Store, Machine!Plus, Plus
  <2>6. Machine!Next
    BY <1>1, <1>2, <2>5, ValidEx DEF Machine!Next
  <2>7. Accessed'
    BY <1>3, <1>4, <1>5, <1>7, <2>1 DEF Accessed
  <2> QED BY <1>6, <2>6, <2>7 DEF Phases, Advance
<1>8. CASE ~ reg_to_mem_r
  <2>1. arch' = arch /\ mem' = mem
    BY <1>1, <1>8, ValidEx DEF Near, Cycle, Completed, completes, Memory
  <2>2. result \in Cells => data_in' = mem[result]
    BY <1>1, <1>8, LayoutAssumption DEF Near, Cycle, Memory
  <2>3. Accessed'
    BY <1>1, <1>2, <1>3, <1>4, <1>5, <1>8, <2>1, <2>2 DEF Accessed
  <2>4. Advance
    BY <1>2, <2>1 DEF Advance, Machine!vars
  <2> QED BY <1>6, <2>3, <2>4 DEF Phases
<1> QED BY <1>7, <1>8

(* The second cycle: a load completes. *)
LEMMA AccessedStep ==
    ASSUME Software, IInv, Accessed, NEW e \in BOOLEAN, NEW s \in BOOLEAN, Near(e, s)
    PROVE  Phases' /\ ExInv' /\ Advance
<1>1. /\ valid /\ first /\ ~ mwait /\ ~ stall_reg /\ ~ branch_taken /\ ~ jump_taken /\ ~ except
      /\ ~ irq_ack_s /\ bubble /\ ex = Code(prog, pc_last2)
  BY ValidEx, ClassSignals DEF Accessed, mwait, irq_ack_s, bubble, data_access_s
<1>2. /\ ~ valid' /\ ~ bds' /\ ~ irq_ack_s_dly' /\ ex' = None
      /\ pc' = Plus(pc, 1) /\ pc_last' = pc /\ pc = pc_last
      /\ inst_in' = Code(prog, pc) /\ prog' = prog /\ mem' = mem /\ ~ stall_reg'
  BY <1>1, MovingStep DEF IInv, Accessed
<1>3. ~ s
  BY <1>1 DEF Near, Cycle
<1>4. ExInv'
  BY <1>2 DEF ExInv
<1>5. CASE reg_to_mem_r
  <2>1. arch' = arch /\ arch = pc_last
    BY <1>1, <1>5, ValidEx DEF Near, Cycle, Completed, completes, Accessed
  <2>2. registers' = registers
    BY <1>1, <1>5, ClassSignals DEF Near, Cycle, WriteBack, IInv, ExInv
  <2>3. Bubble'
    BY <1>2, <2>1 DEF Bubble, first, ahead, fetched, Plus
  <2>4. Advance
    BY <1>2, <2>1, <2>2 DEF Advance, Machine!vars
  <2> QED BY <1>4, <2>3, <2>4 DEF Phases
<1>6. CASE ~ reg_to_mem_r
  <2>1. ex.class = "load" /\ RegWrite(ex) /\ mem_to_reg_r
    BY <1>6, ClassSignals DEF Accessed
  <2>2. arch' = Plus(pc_last2, 1) /\ arch = pc_last2 /\ pc_last = Plus(pc_last2, 1)
    BY <1>1, <1>3, <1>6, ValidEx DEF Near, Cycle, Completed, completes, Accessed
  <2>3. registers' = Put(registers, ex.rd, data_in)
    BY <1>1, <2>1 DEF Near, Cycle, WriteBack, write_data
  <2>4. mem \in [Cells -> Word] /\ registers \in [Registers -> Word] /\ data_in \in Word
    BY DEF IInv, CoreTypeOK
  <2>5. data_in \in IF result \in DOMAIN mem THEN {mem[result]} ELSE Word
    BY <1>6, <2>4 DEF Accessed
  <2>6. Machine!Set(ex.rd, data_in)
    BY <2>3, <2>4, SignalTypes, PutType DEF Machine!Set, IInv
  <2>7. result = Machine!Plus(registers[ex.rs1], ex.imm)
    BY <2>1 DEF result, Plus, Machine!Plus
  <2>8. Machine!Load(ex)
    <3>1. \E value \in IF result \in DOMAIN mem THEN {mem[result]} ELSE Word : Machine!Set(ex.rd, value)
      BY <2>5, <2>6
    <3> QED BY <1>2, <2>1, <2>2, <2>7, <3>1 DEF Machine!Load, Machine!Plus, Plus, Machine!Word, Word
  <2>9. Machine!Next
    BY <1>1, <1>2, <2>2, <2>8 DEF Machine!Next
  <2>10. Bubble'
    BY <1>2, <2>2 DEF Bubble, first, ahead, fetched, Plus
  <2> QED BY <1>4, <2>9, <2>10 DEF Phases, Advance
<1> QED BY <1>5, <1>6

(* Any other instruction, once or again. *)
LEMMA ExecutedStep ==
    ASSUME Software, IInv, Executing, ~ data_access_s, NEW e \in BOOLEAN, NEW s \in BOOLEAN, Near(e, s)
    PROVE  Phases' /\ ExInv' /\ Advance
<1>1. valid /\ first /\ ahead /\ fetched /\ pc_last = Plus(pc_last2, 1) /\ ~ except /\ ~ taken
  BY ValidEx DEF Executing
<1>2. ~ mwait /\ ~ stall_reg /\ UNCHANGED <<prog, mem>>
  BY <1>1, CompleteStep, MovingStep DEF IInv
<1>3. CASE branch_taken \/ jump_taken
  <2>1. arch = pc_last2
    BY <1>3, ClassSignals DEF Executing, again, Repeatable
  <2>2. ~ irq_ack_s /\ bubble
    BY <1>3 DEF irq_ack_s, bubble
  <2>3. /\ ~ valid' /\ bds' /\ ~ irq_ack_s_dly' /\ ex' = None /\ pc' = branch /\ arch' = branch
        /\ ~ stall_reg' /\ ~ mem_to_reg_r_dly'
    BY <1>1, <1>2, <1>3, <2>2, MovingStep, CompleteStep, ClassSignals DEF IInv
  <2>4. Jumped' /\ ExInv'
    BY <2>3 DEF Jumped, ExInv
  <2> QED BY <1>1, <2>1, <2>4, CompleteAdvance DEF Phases, Advance
<1>4. CASE ~ branch_taken /\ ~ jump_taken
  <2>1. arch' = pc_last
    BY <1>1, <1>4, CompleteStep
  <2>2. Phases' /\ ExInv'
    BY <1>1, <1>2, <1>4, <2>1, DecodeStep
  <2>3. CASE arch = pc_last2
    BY <1>1, <2>2, <2>3, CompleteAdvance DEF Advance
  <2>4. CASE again
    <3>1. registers' = registers
      BY <1>1, <1>4, <2>4, CompleteStep, ClassSignals DEF again, Repeatable
    <3> QED BY <1>1, <1>2, <2>1, <2>2, <2>4, <3>1 DEF Advance, Machine!vars, again
  <2> QED BY <2>3, <2>4 DEF Executing
<1> QED BY <1>3, <1>4
-----------------------------------------------------------------------------
LEMMA InvInit == Software /\ Init => IInv
<1> SUFFICES ASSUME Software, Init PROVE IInv
  OBVIOUS
<1>1. PulseInv
  BY DEF Init, ControllerInit, PulseInv, PulsePairs
<1>2. ExInv
  BY DEF Init, ExInv
<1>3. Entering
  BY DEF Init, ControllerInit, Entering, fetched
<1> QED BY <1>1, <1>2, <1>3, InitTypes DEF IInv, Phases

LEMMA InvCycle ==
    ASSUME Software, IInv, NEW e \in BOOLEAN, NEW s \in BOOLEAN, Near(e, s)
    PROVE  IInv' /\ Advance
<1>1. PulseInv'
  BY PulseStep
<1>2. CoreTypeOK'
  BY TypeStep DEF Near, IInv, Next
<1>3. Phases' /\ ExInv' /\ Advance
  <2>1. CASE Jumped
    BY <2>1, JumpedStep
  <2>2. CASE Answered
    BY <2>2, AnsweredStep
  <2>3. CASE Entering
    BY <2>3, EnteringStep
  <2>4. CASE Entered
    BY <2>4, EnteredStep
  <2>5. CASE Bubble
    BY <2>5, BubbleStep
  <2>6. CASE Executing
    <3>1. CASE ~ data_access_s
      BY <2>6, <3>1, ExecutedStep
    <3>2. CASE data_access_s
      <4>1. mwait
        BY <2>6, <3>2 DEF Executing, mwait
      <4> QED BY <2>6, <4>1, StalledStep, AccessStep
    <3> QED BY <3>1, <3>2
  <2>7. CASE Accessed
    BY <2>7, AccessedStep
  <2> QED BY <2>1, <2>2, <2>3, <2>4, <2>5, <2>6, <2>7 DEF IInv, Phases
<1> QED BY <1>1, <1>2, <1>3 DEF IInv

(* Nothing is said of the pipeline once it fetched from External.          *)
CInv == CoreTypeOK /\ FetchInv /\ (inside => IInv)

LEMMA CInit == Software /\ Init => CInv
BY InitTypes, FetchInit, InvInit DEF CInv

LEMMA StutterInv ==
    ASSUME IInv, UNCHANGED vars
    PROVE  IInv'
<1>1. CoreTypeOK'
  BY TypeStep DEF IInv
<1>2. PulseInv' /\ ExInv'
  BY DEF IInv, vars, controller, fetch, memory, history, PulseInv, ExInv,
         mwait, data_access_s, reg_to_mem_r, mem_to_reg_r
<1>3. Phases'
  BY DEF IInv, vars, controller, fetch, memory, history, Phases, Jumped, Answered, Entering,
         Entered, Bubble, Executing, Accessed, first, ahead, fetched, again, Repeatable, result,
         Plus, Put, data_access_s, reg_to_mem_r, mem_to_reg_r
<1> QED BY <1>1, <1>2, <1>3 DEF IInv

LEMMA CStep == Software /\ CInv /\ [Next]_vars => CInv'
<1> SUFFICES ASSUME Software, CInv, [Next]_vars PROVE CInv'
  OBVIOUS
<1>1. CoreTypeOK' /\ FetchInv'
  BY TypeStep, FetchStep DEF CInv
<1>2. CASE Next
  <2>1. PICK e \in BOOLEAN, s \in BOOLEAN : Cycle(e, s)
    BY <1>2 DEF Next
  <2> QED BY <1>1, <2>1, InsideNear, InvCycle DEF CInv
<1>3. CASE UNCHANGED vars
  <2>1. inside' = inside
    BY <1>3 DEF vars, history
  <2> QED BY <1>1, <1>3, <2>1, StutterInv DEF CInv
<1> QED BY <1>2, <1>3

(* A step up to the first fetch from External.                             *)
LEMMA InsideStep ==
    ASSUME CInv, Next, stays
    PROVE  inside /\ IInv /\ (\E e, s \in BOOLEAN : Near(e, s))
<1>1. PICK e \in BOOLEAN, s \in BOOLEAN : Cycle(e, s)
  BY DEF Next
<1>2. inside'
  BY <1>1 DEF Cycle, Completed
<1> QED BY <1>1, <1>2, InsideNear DEF CInv

(* IRQ_EPC is exact, whatever instruction the request came upon: _isr can  *)
(* go back by subtracting one word.                                        *)
LEMMA InvEpc == IInv /\ taken => irq_epc = Plus(arch, 1)
BY DEF IInv, Phases, Jumped, Answered, Entering, Entered, Bubble, Executing, Accessed, first, taken

THEOREM EpcIsExact == Software => (Spec => []EpcExact)
<1> SUFFICES ASSUME Software PROVE Spec => []EpcExact
  OBVIOUS
<1>1. Init => CInv
  BY CInit
<1>2. CInv /\ [Next]_vars => CInv'
  BY CStep
<1>3. CInv => EpcExact
  BY InvEpc DEF CInv, EpcExact, stays
<1> QED BY <1>1, <1>2, <1>3, PTL DEF Spec

(* For every program of any instructions but system calls, every timing of *)
(* interrupts and every length of its accesses to External: until an       *)
(* instruction is fetched from there, the pipelined core is the machine    *)
(* that executes one instruction after the other.                          *)
THEOREM MachineImplemented == Software => (Spec => ImplementsMachine)
<1> SUFFICES ASSUME Software PROVE Spec => ImplementsMachine
  OBVIOUS
<1>1. Init => CInv
  BY CInit
<1>2. CInv /\ [Next]_vars => CInv'
  BY CStep
<1>3. CInv /\ [Next]_vars => [stays => Executes]_Machine!vars
  <2> SUFFICES ASSUME CInv, [Next]_vars
               PROVE  [stays => Executes]_Machine!vars
    OBVIOUS
  <2>1. CASE Next
    BY <2>1, InsideStep, InvCycle DEF Advance, Executes
  <2>2. CASE UNCHANGED vars
    BY <2>2 DEF vars, memory, history, Machine!vars
  <2> QED BY <2>1, <2>2
<1> QED BY <1>1, <1>2, <1>3, PTL DEF Spec, ImplementsMachine
-----------------------------------------------------------------------------
(* Software stores 1 in IRQ_STATUS, if anything. *)
KeepsEnabled == statusWrite => registers[ex.rs2] % 2 = 1

(* From the cycle in which the controller sees IRQ_STATUS set until it has *)
(* withdrawn the request, nothing but the acknowledgement clears it.       *)
Enabled == (irq = 1 \/ "irq_int" \in {pulse_state, pulse_next_state}) => irq_status = 1

LEMMA EnabledCycle ==
    ASSUME Software, IInv, Enabled, KeepsEnabled, NEW e \in BOOLEAN, NEW s \in BOOLEAN, Near(e, s)
    PROVE  Enabled'
<1>1. Pulse(e, irq_ack_s_dly, s) /\ StatusRegister(statusWrite, registers[ex.rs2] % 2, irq_ack_s_dly, except)
  BY DEF Near, Cycle, ControllerClock
<1>2. <<pulse_state, pulse_next_state>> \in PulsePairs
  BY DEF IInv, PulseInv
<1>3. Following["irq_idle"] = "irq_int" /\ Following["irq_int"] = "irq_req" /\ Following["irq_req"] = "irq_ackn"
      /\ Following["irq_ackn"] = "irq_done" /\ Following["irq_done"] = "irq_idle"
  BY DEF Following
<1>4. CASE irq_ack_s_dly
  <2>1. pulse_state = "irq_req" /\ pulse_next_state \in {"irq_req", "irq_ackn"}
    BY <1>2, <1>4 DEF IInv, PulseInv, PulsePairs
  <2>2. "irq_int" \notin {pulse_state, pulse_next_state}'
    BY <1>1, <1>3, <2>1 DEF Pulse
  <2>3. irq' = 0
    BY <1>4, PulseStep
  <2> QED BY <2>2, <2>3 DEF Enabled
<1>5. CASE ~ irq_ack_s_dly
  <2>1. ~ except
    BY ValidEx, NoneSignals DEF IInv
  <2>2. irq_status = 1 => irq_status' = 1
    BY <1>1, <1>5, <2>1 DEF StatusRegister, KeepsEnabled
  <2>3. irq' = 1 => irq = 1 \/ pulse_state = "irq_int"
    BY <1>1 DEF Pulse
  <2>4. "irq_int" \in {pulse_state, pulse_next_state}' =>
          "irq_int" \in {pulse_state, pulse_next_state} \/ irq_status = 1
    BY <1>1, <1>2, <1>3 DEF Pulse, leaves, PulsePairs
  <2> QED BY <2>2, <2>3, <2>4 DEF Enabled
<1> QED BY <1>4, <1>5

(* Software without system calls that never clears IRQ_STATUS is           *)
(* interrupted only while it is set: a request ends with the               *)
(* acknowledgement that clears it, and none is under way behind it.  Up to *)
(* a fetch from External, as above.                                        *)
THEOREM AcknowledgedEnabled == Software => (Spec /\ []KeepsEnabled => [](stays => AckWhileEnabled))
<1> SUFFICES ASSUME Software PROVE Spec /\ []KeepsEnabled => [](stays => AckWhileEnabled)
  OBVIOUS
<1>1. Init => CInv /\ (inside => Enabled)
  BY CInit DEF Init, ControllerInit, Enabled
<1>2. CInv /\ (inside => Enabled) /\ KeepsEnabled /\ [Next]_vars => (CInv /\ (inside => Enabled))'
  <2> SUFFICES ASSUME CInv, inside => Enabled, KeepsEnabled, [Next]_vars
               PROVE  CInv' /\ (inside' => Enabled')
    OBVIOUS
  <2>1. CInv'
    BY CStep
  <2>2. CASE Next
    <3> SUFFICES ASSUME inside' PROVE Enabled'
      BY <2>1
    <3>1. stays
      BY <2>2 DEF Next, Cycle, Completed
    <3> QED BY <2>2, <3>1, InsideStep, EnabledCycle
  <2>3. CASE UNCHANGED vars
    BY <2>1, <2>3 DEF vars, controller, history, Enabled
  <2> QED BY <2>2, <2>3
<1>3. (inside => Enabled) => (stays => AckWhileEnabled)
  BY DEF stays,  Enabled, AckWhileEnabled, irq_ack_s
<1> QED BY <1>1, <1>2, <1>3, PTL DEF Spec
-----------------------------------------------------------------------------
(* What is left to programs: one goes from one of its instructions to      *)
(* another and stores nothing in the frame of _isr; the start-up runs      *)
(* straight on, and only its last instruction writes IRQ_STATUS.           *)
following == IF branch_taken \/ jump_taken THEN branch ELSE Plus(pc_last2, 1)

Behaved ==
    /\ valid /\ pc_last2 \in Program =>
           following \in Program /\ (reg_to_mem_r => result # FRAME)
    /\ valid /\ pc_last2 < First =>
           following = pc_last2 + 1 /\ (reg_to_mem_r /\ result = STATUS => following = First)

(* The start-up changes nothing the program sees. *)
Unseen ==
    valid /\ pc_last2 < First =>
        ex.rd \notin Visible \ {"zero"} /\ (reg_to_mem_r => result \notin External)

(* Where a service comes back to, while its instructions complete.         *)
Returning ==
    /\ arch \in {Vector, Vector + 1} => irq_epc = Plus(next, 1)
    /\ arch = Vector + 1 /\ valid /\ data_access_s_dly => data_in = irq_epc
    /\ arch = Vector + 2 => registers["s10"] = Plus(next, 1)
    /\ arch \in {Vector + 3, Vector + 7} => registers["s10"] = next
    /\ arch \in Vector + 4 .. Vector + 6 => mem[FRAME] = next
    /\ arch = Vector + 5 => registers["s11"] = 1

Placed ==
    /\ arch \in 0 .. Vector + 7
    /\ bds => arch < Vector
    /\ irq_ack_s_dly => arch \in Program
    /\ IF arch < First THEN next = First ELSE next \in Program
    /\ arch \in Program => next = arch
    /\ registers["zero"] = 0

(* How many cycles the controller needs at least to raise a request.       *)
pulse == <<pulse_state, pulse_next_state>>
Far ==
    IF pulse_state = "irq_int" THEN 1
    ELSE IF pulse = <<"irq_idle", "irq_int">> THEN 2
    ELSE IF pulse = <<"irq_idle", "irq_idle">> THEN 3
    ELSE IF pulse = <<"irq_done", "irq_idle">> THEN 4
    ELSE IF pulse = <<"irq_done", "irq_done">> THEN 5 ELSE 6

(* How many it takes at most until jalr is in the execute stage.           *)
Window ==
    IF arch = Vector + 7 THEN 1
    ELSE IF ~ valid THEN 4
    ELSE IF pc_last2 = Vector + 5 THEN 5
    ELSE IF data_access_s_dly THEN 2 ELSE 3

Quiet == irq = 0 /\ irq_status = 0 /\ Far >= 5

Timed ==
    /\ arch < First => irq = 0 /\ irq_status = 0 /\ pulse = <<"irq_idle", "irq_idle">>
    /\ arch \in Vector .. Vector + 5 => Quiet
    /\ irq_ack_s_dly /\ irq = 0 => Quiet
    /\ arch = Vector + 6 \/ (arch = Vector + 7 /\ ~ valid) => irq = 0 /\ Far >= Window

UInv == Placed /\ Returning /\ Timed
-----------------------------------------------------------------------------
(* What completing an instruction does, and what a cycle does that         *)
(* completes none.                                                         *)
Effect ==
    /\ valid /\ ex = Code(prog, pc_last2)
    /\ arch' = following
    /\ next' = IF pc_last2 \in Program THEN following ELSE next
    /\ registers' = IF RegWrite(ex)
                    THEN Put(registers, ex.rd, IF mem_to_reg_r THEN data_in
                                               ELSE IF jump_taken THEN pc_last ELSE result)
                    ELSE registers
    /\ mem' = IF reg_to_mem_r /\ result \in Cells
              THEN [mem EXCEPT ![result] = registers[ex.rs2]] ELSE mem

LEMMA Completion ==
    ASSUME Software, IInv, NEW e \in BOOLEAN, NEW s \in BOOLEAN, Near(e, s), completes(s)
    PROVE  Effect /\ ~ s /\ (arch = pc_last2 \/ (again /\ ~ data_access_s))
<1>1. valid /\ ~ s /\ (mwait <=> reg_to_mem_r) /\ first /\ ~ taken /\ ~ except
  BY ValidEx DEF completes
<1>2. arch' = following /\ next' = IF pc_last2 \in Program THEN following ELSE next
  BY <1>1 DEF Near, Cycle, Completed, following
<1>3. mem' = IF reg_to_mem_r /\ result \in Cells
             THEN [mem EXCEPT ![result] = registers[ex.rs2]] ELSE mem
  BY <1>1 DEF Near, Cycle, Memory
<1>4. registers' = IF RegWrite(ex)
                   THEN Put(registers, ex.rd, IF mem_to_reg_r THEN data_in
                                              ELSE IF jump_taken THEN pc_last ELSE result)
                   ELSE registers
  <2>1. CASE reg_to_mem_r
    BY <1>1, <2>1, ClassSignals DEF Near, Cycle, WriteBack
  <2>2. CASE ~ reg_to_mem_r
    <3>1. ~ mwait /\ ~ stall_reg
      BY <1>1, <2>2, ValidEx
    <3>2. mem_to_reg_r_dly => RegWrite(ex)
      BY <1>1, ClassSignals DEF IInv, ExInv
    <3> QED BY <3>1, <3>2 DEF Near, Cycle, WriteBack, write_data
  <2> QED BY <2>1, <2>2
<1>5. arch = pc_last2 \/ (again /\ ~ data_access_s)
  <2>1. again => ~ data_access_s
    BY ClassSignals DEF again, Repeatable
  <2>2. CASE Executing
    BY <2>1, <2>2 DEF Executing
  <2>3. CASE Accessed
    BY <1>1, <2>3, ClassSignals DEF Accessed, mwait
  <2>4. CASE Entered
    BY <2>4 DEF Entered
  <2> QED BY <1>1, <2>2, <2>3, <2>4 DEF IInv, Phases, Jumped, Answered, Entering, Bubble
<1> QED BY <1>1, <1>2, <1>3, <1>4, <1>5, ValidEx DEF Effect

LEMMA NoCompletion ==
    ASSUME Software, IInv, NEW e \in BOOLEAN, NEW s \in BOOLEAN, Near(e, s), ~ completes(s)
    PROVE  /\ UNCHANGED <<registers, mem, next>> /\ arch' = IF taken THEN Vector ELSE arch
           /\ ~ statusWrite
<1>1. UNCHANGED next /\ arch' = IF taken THEN Vector ELSE arch
  BY DEF Near, Cycle, Completed
<1>2. CASE ~ valid
  BY <1>1, <1>2, IdleStep, NoneSignals, MovingStep DEF IInv, statusWrite
<1>3. CASE valid
  <2>1. s \/ ~ (mwait <=> reg_to_mem_r)
    BY <1>3 DEF completes
  <2>2. s => mwait /\ result \in External
    BY DEF Near, Cycle
  <2>3. registers' = registers
    <3>1. CASE mwait
      BY <3>1 DEF Near, Cycle, WriteBack
    <3>2. CASE ~ mwait
      BY <1>3, <2>1, <2>2, <3>2, ClassSignals DEF Near, Cycle, WriteBack, IInv, ExInv
    <3> QED BY <3>1, <3>2
  <2>4. mem' = mem
    BY <2>1, <2>2 DEF Near, Cycle, Memory
  <2>5. ~ statusWrite
    BY <2>1, <2>2, LayoutAssumption DEF statusWrite
  <2> QED BY <1>1, <2>3, <2>4, <2>5
<1> QED BY <1>2, <1>3
-----------------------------------------------------------------------------
LEMMA PlusWord ==
    ASSUME NEW a \in Word
    PROVE  /\ Plus(a, 0) = a /\ Plus(0, a) = a
           /\ a + 1 \in Word => Plus(a, 1) = a + 1
           /\ a + 1 \notin Word => a = Width - 1 /\ Plus(a, 1) = 0
           /\ Plus(Plus(a, 1), Width - 1) = a
<1> USE WidthAssumption
<1>1. Plus(a, 0) = a /\ Plus(0, a) = a
  BY DEF Word, Plus
<1>2. CASE a + 1 \in Word
  <2>1. Plus(a, 1) = a + 1
    BY <1>2 DEF Word, Plus
  <2>2. (a + 1 + (Width - 1)) % Width = a
    BY DEF Word
  <2> QED BY <1>1, <1>2, <2>1, <2>2 DEF Plus
<1>3. CASE a + 1 \notin Word
  <2>1. a = Width - 1 /\ Plus(a, 1) = 0
    BY <1>3 DEF Word, Plus
  <2>2. Plus(0, Width - 1) = a
    BY <2>1 DEF Word, Plus
  <2> QED BY <1>1, <1>3, <2>1, <2>2
<1> QED BY <1>2, <1>3

(* The instructions of _isr. *)
LEMMA Routine ==
    ASSUME Serves, NEW p \in Programs
    PROVE  /\ Code(p, Vector) = I("computation", "zero", "zero", "zero", 0)
           /\ Code(p, Vector + 1) = I("load", "s10", "zero", "zero", EPC)
           /\ Code(p, Vector + 2) = I("computation", "s10", "s10", "zero", Width - 1)
           /\ Code(p, Vector + 3) = I("store", "zero", "zero", "s10", FRAME)
           /\ Code(p, Vector + 4) = I("computation", "s11", "zero", "zero", 1)
           /\ Code(p, Vector + 5) = I("store", "zero", "zero", "s11", STATUS)
           /\ Code(p, Vector + 6) = I("load", "s10", "zero", "zero", FRAME)
           /\ Code(p, Vector + 7) = I("jalr", "zero", "s10", "zero", 0)
<1>1. \A k \in 1 .. 8 : Code(p, Vector + k - 1) = Isr[k]
  BY DEF Serves
<1>2. Vector \in Int
  BY LayoutAssumption DEF Word
<1>3. /\ Code(p, Vector) = Isr[1] /\ Code(p, Vector + 1) = Isr[2] /\ Code(p, Vector + 2) = Isr[3]
      /\ Code(p, Vector + 3) = Isr[4] /\ Code(p, Vector + 4) = Isr[5] /\ Code(p, Vector + 5) = Isr[6]
      /\ Code(p, Vector + 6) = Isr[7] /\ Code(p, Vector + 7) = Isr[8]
  <2>1. /\ Vector + 1 - 1 = Vector /\ Vector + 2 - 1 = Vector + 1 /\ Vector + 3 - 1 = Vector + 2
        /\ Vector + 4 - 1 = Vector + 3 /\ Vector + 5 - 1 = Vector + 4 /\ Vector + 6 - 1 = Vector + 5
        /\ Vector + 7 - 1 = Vector + 6 /\ Vector + 8 - 1 = Vector + 7
    BY <1>2
  <2>2. \A k \in {1, 2, 3, 4, 5, 6, 7, 8} : Code(p, Vector + k - 1) = Isr[k]
    BY <1>1
  <2> QED BY <2>1, <2>2
<1> QED BY <1>3 DEF Isr

(* The place of _isr in memory. *)
LEMMA Placement ==
    ASSUME Serves
    PROVE  /\ Vector \in Nat /\ First \in Nat /\ 0 < First /\ First < Vector /\ Vector + 7 < Width
           /\ Width \in Nat /\ Word = 0 .. Width - 1
           /\ FRAME \in Cells /\ FRAME \notin External /\ FRAME # STATUS /\ FRAME # EPC /\ STATUS # EPC
           /\ STATUS \notin Cells /\ EPC \notin Cells /\ FRAME \in Word /\ STATUS \in Word /\ EPC \in Word
           /\ External \subseteq Cells
BY LayoutAssumption, WidthAssumption DEF Serves, Word

LEMMA FarStep ==
    ASSUME IInv, NEW e \in BOOLEAN, NEW s \in BOOLEAN, Near(e, s), irq = 0
    PROVE  /\ Far \in 1 .. 6 /\ Far' \in 1 .. 6 /\ Far' >= Far - 1
           /\ Far > 1 => irq' = 0
           /\ irq_status = 0 /\ Far >= 5 => Far' >= 5
           /\ irq_status = 0 /\ pulse = <<"irq_idle", "irq_idle">> => pulse' = pulse
<1>1. Pulse(e, irq_ack_s_dly, s)
  BY DEF Near, Cycle, ControllerClock
<1>2. <<pulse_state, pulse_next_state>> \in PulsePairs
  BY DEF IInv, PulseInv
<1>3. Following["irq_idle"] = "irq_int" /\ Following["irq_int"] = "irq_req" /\ Following["irq_req"] = "irq_ackn"
      /\ Following["irq_ackn"] = "irq_done" /\ Following["irq_done"] = "irq_idle"
  BY DEF Following
<1>4. CASE s
  BY <1>1, <1>4 DEF Pulse, Far, pulse
<1>5. CASE ~ s
  <2>1. /\ pulse_state' = pulse_next_state
        /\ pulse_next_state' =
               IF leaves(e, irq_ack_s_dly) THEN Following[pulse_state] ELSE pulse_next_state
        /\ pulse_state # "irq_int" => irq' = 0
    BY <1>1, <1>5 DEF Pulse
  <2>2. Far' >= Far - 1
    BY <1>2, <1>3, <2>1 DEF PulsePairs, leaves, Far, pulse
  <2>3. irq_status = 0 /\ Far >= 5 => Far' >= 5
    BY <1>2, <1>3, <2>1 DEF PulsePairs, leaves, Far, pulse
  <2>4. irq_status = 0 /\ pulse = <<"irq_idle", "irq_idle">> => pulse' = pulse
    BY <1>3, <2>1 DEF leaves, pulse
  <2>5. Far \in 1 .. 6 /\ Far' \in 1 .. 6 /\ (Far > 1 => irq' = 0)
    BY <2>1 DEF Far
  <2> QED BY <2>2, <2>3, <2>4, <2>5
<1> QED BY <1>4, <1>5
-----------------------------------------------------------------------------
(* An interrupt is taken between two instructions of the program.          *)
LEMMA AckInProgram ==
    ASSUME Software, Serves, IInv, Behaved, Placed, Timed, irq_ack_s, ~ irq_ack_s_dly
    PROVE  /\ pc_last \in Program
           /\ \/ ~ valid /\ arch = pc_last
              \/ valid /\ ~ data_access_s /\ following = pc_last
<1>1. irq = 1 /\ ~ bds /\ ~ branch_taken /\ ~ jump_taken /\ ~ data_access_s
  BY DEF irq_ack_s
<1>2. arch \notin Vector .. Vector + 6 /\ ~ (arch = Vector + 7 /\ ~ valid) /\ ~ arch < First
  BY <1>1, Placement DEF Timed, Quiet
<1>3. CASE Bubble
  BY <1>2, <1>3, Placement DEF Bubble, Placed, Program
<1>4. CASE Executing
  <2>1. valid /\ pc_last = Plus(pc_last2, 1) /\ following = pc_last
    BY <1>1, <1>4 DEF Executing, following
  <2>2. CASE arch = pc_last2
    <3>1. arch # Vector + 7
      BY <1>1, <2>1, <2>2, ValidEx, Routine DEF IInv, CoreTypeOK, I, jump_taken
    <3>2. pc_last2 \in Program
      BY <1>2, <2>2, <3>1, Placement DEF Placed, Program
    <3> QED BY <1>1, <2>1, <3>2 DEF Behaved
  <2>3. CASE again
    <3>1. arch = pc_last /\ Repeatable(ex)
      BY <2>1, <2>3 DEF again
    <3>2. arch # Vector + 7
      <4> SUFFICES ASSUME arch = Vector + 7 PROVE FALSE
        OBVIOUS
      <4>1. pc_last2 \in Word /\ Plus(pc_last2, 1) = Vector + 7
        BY <2>1, <3>1 DEF IInv, CoreTypeOK
      <4>2. pc_last2 = Vector + 6
        BY <4>1, PlusWord, Placement
      <4> QED BY <2>1, <3>1, <4>2, ValidEx, Routine DEF IInv, CoreTypeOK, I, Repeatable
    <3> QED BY <1>1, <1>2, <2>1, <3>1, <3>2, Placement DEF Placed, Program
  <2> QED BY <1>4, <2>2, <2>3 DEF Executing
<1>5. ~ Jumped /\ ~ Answered /\ ~ Entering /\ ~ Entered /\ ~ Accessed
  BY <1>1 DEF Jumped, Answered, Entering, Entered, Accessed
<1> QED BY <1>3, <1>4, <1>5 DEF IInv, Phases

(* The word executed again changes nothing: a cycle executes the           *)
(* instruction to complete next, takes an interrupt or does neither.       *)
Step == Effect /\ arch = pc_last2
Take == taken /\ arch' = Vector /\ ~ statusWrite /\ UNCHANGED <<registers, mem, next>>
Rest == ~ taken /\ ~ statusWrite /\ UNCHANGED <<registers, mem, next, arch>>

LEMMA Moves ==
    ASSUME Software, Serves, IInv, Behaved, Placed, NEW e \in BOOLEAN, NEW s \in BOOLEAN, Near(e, s)
    PROVE  (Step /\ ~ s /\ completes(s) /\ ~ taken) \/ Take \/ (Rest /\ ~ (completes(s) /\ arch = pc_last2))
<1>1. CASE ~ completes(s)
  BY <1>1, NoCompletion DEF Take, Rest
<1>2. CASE completes(s) /\ arch = pc_last2
  BY <1>2, Completion, ValidEx DEF Step, Effect
<1>3. CASE completes(s) /\ arch # pc_last2
  <2>1. Effect /\ again /\ ~ data_access_s
    BY <1>3, Completion
  <2>2. ~ taken /\ ~ statusWrite /\ ~ mem_to_reg_r /\ ~ jump_taken /\ ~ branch_taken /\ ~ reg_to_mem_r
    BY <2>1, ValidEx, ClassSignals DEF Effect, again, Repeatable, statusWrite
  <2>3. RegWrite(ex) /\ following = arch
    BY <2>1, <2>2, ClassSignals DEF again, Repeatable, following
  <2>4. registers' = registers /\ mem' = mem /\ arch' = arch
    BY <2>1, <2>2, <2>3 DEF Effect, again
  <2>5. next' = next
    BY <2>1, <2>3 DEF Effect, Behaved, Placed
  <2> QED BY <1>3, <2>2, <2>4, <2>5 DEF Rest
<1> QED BY <1>1, <1>2, <1>3
-----------------------------------------------------------------------------
(* What becomes of where the program goes on: before it, in it, in _isr.   *)
LEMMA StartStep ==
    ASSUME Serves, IInv, Behaved, Placed, Step, arch < First
    PROVE  arch' = arch + 1 /\ arch' <= First /\ next' = First
<1>1. valid /\ pc_last2 < First /\ pc_last2 \notin Program /\ arch \in Int
  BY Placement DEF Step, Effect, Program, IInv, CoreTypeOK, Word
<1>2. arch' = arch + 1 /\ next' = First
  BY <1>1 DEF Step, Effect, Behaved, Placed
<1> QED BY <1>1, <1>2, Placement

LEMMA ProgramStep ==
    ASSUME Behaved, Step, arch \in Program
    PROVE  arch' \in Program /\ next' = arch'
BY DEF Step, Effect, Behaved

LEMMA ZeroStep ==
    ASSUME IInv, registers["zero"] = 0, Step
    PROVE  registers'["zero"] = 0
<1>1. registers \in [Registers -> Word] /\ "zero" \in Registers
  BY RegistersAssumption DEF IInv, CoreTypeOK
<1> QED BY <1>1 DEF Step, Effect, Put

LEMMA ServiceNames ==
    ASSUME Serves, IInv
    PROVE  /\ "s10" \in Registers /\ "s11" \in Registers /\ "zero" \in Registers
           /\ registers \in [Registers -> Word] /\ mem \in [Cells -> Word]
BY RegistersAssumption DEF Serves, IInv, CoreTypeOK

LEMMA ServiceStep ==
    ASSUME Software, Serves, IInv, Placed, Returning, Step,
           mwait <=> reg_to_mem_r, arch \in Vector .. Vector + 7
    PROVE  /\ next' = next
           /\ arch' = IF arch = Vector + 7 THEN next ELSE arch + 1
           /\ arch = Vector + 1 => registers'["s10"] = Plus(next, 1)
           /\ arch \in {Vector + 2, Vector + 6} => registers'["s10"] = next
           /\ arch \in {Vector + 3, Vector + 4, Vector + 5} => mem'[FRAME] = next
           /\ arch = Vector + 4 => registers'["s11"] = 1
           /\ branch_taken \/ jump_taken => arch = Vector + 7
           /\ statusWrite => arch = Vector + 5
<1> USE DEF Step
<1>1. /\ ex = Code(prog, arch) /\ prog \in Programs /\ arch \in Word /\ next \in Word /\ valid
      /\ pc_last2 \notin Program
  BY Placement DEF Effect, IInv, CoreTypeOK, Program
<1>2. next' = next
  BY <1>1 DEF Effect
<1>3. arch + 1 \in Word /\ ~ branch_taken /\ ~ jump_taken => arch' = arch + 1
  BY <1>1, PlusWord DEF Effect, following
<1>4. arch # Vector + 7 => arch + 1 \in Word
  BY <1>1, Placement
<1>14. Vector \in Int
  BY Placement
<1>5. CASE arch = Vector
  BY <1>1, <1>2, <1>3, <1>4, <1>5, Routine, Placement DEF I, branch_taken, jump_taken, statusWrite, reg_to_mem_r, RegToMem
<1>6. CASE arch = Vector + 1
  <2>1. ex = I("load", "s10", "zero", "zero", EPC)
    BY <1>1, <1>6, Routine
  <2>2. ~ branch_taken /\ ~ jump_taken /\ ~ reg_to_mem_r /\ mem_to_reg_r /\ RegWrite(ex) /\ data_access_s
    BY <2>1 DEF I, branch_taken, jump_taken, reg_to_mem_r, RegToMem, mem_to_reg_r, MemToReg, RegWrite, data_access_s
  <2>3. data_in = Plus(next, 1)
    BY <1>1, <1>6, <2>2, Placement DEF mwait, Returning
  <2>4. registers'["s10"] = Plus(next, 1)
    BY <2>1, <2>2, <2>3, ServiceNames DEF Effect, Put, I
  <2>5. ~ statusWrite
    BY <2>2 DEF statusWrite
  <2>6. arch' = arch + 1
    BY <1>3, <1>4, <1>6, <1>14, <2>2
  <2> QED BY ONLY <1>2, <1>6, <1>14, <2>2, <2>4, <2>5, <2>6
<1>7. CASE arch = Vector + 2
  <2>1. ex = I("computation", "s10", "s10", "zero", Width - 1)
    BY <1>1, <1>7, Routine
  <2>2. ~ branch_taken /\ ~ jump_taken /\ ~ reg_to_mem_r /\ ~ mem_to_reg_r /\ RegWrite(ex)
    BY <2>1 DEF I, branch_taken, jump_taken, reg_to_mem_r, RegToMem, mem_to_reg_r, MemToReg, RegWrite
  <2>3. result = Plus(registers["s10"], Width - 1)
    BY <2>1 DEF I, result
  <2>4. result = next
    BY <1>1, <1>7, <2>3, PlusWord, Placement DEF Returning
  <2>5. registers'["s10"] = next
    BY <2>1, <2>2, <2>4, ServiceNames DEF Effect, Put, I
  <2>6. ~ statusWrite
    BY <2>2 DEF statusWrite
  <2>7. arch' = arch + 1
    BY <1>3, <1>4, <1>7, <1>14, <2>2
  <2> QED BY ONLY <1>2, <1>7, <1>14, <2>2, <2>5, <2>6, <2>7
<1>8. CASE arch = Vector + 3
  <2>1. ex = I("store", "zero", "zero", "s10", FRAME)
    BY <1>1, <1>8, Routine
  <2>2. ~ branch_taken /\ ~ jump_taken /\ reg_to_mem_r
    BY <2>1 DEF I, branch_taken, jump_taken, reg_to_mem_r, RegToMem
  <2>3. result = FRAME /\ registers[ex.rs2] = next
    BY <1>8, <2>1, PlusWord, Placement DEF I, result, Placed, Returning
  <2>4. mem'[FRAME] = next
    BY <2>2, <2>3, Placement, ServiceNames DEF Effect
  <2>5. ~ statusWrite
    BY <2>2, <2>3, Placement DEF statusWrite
  <2>6. arch' = arch + 1
    BY <1>3, <1>4, <1>8, <1>14, <2>2
  <2> QED BY ONLY <1>2, <1>8, <1>14, <2>2, <2>4, <2>5, <2>6
<1>9. CASE arch = Vector + 4
  <2>1. ex = I("computation", "s11", "zero", "zero", 1)
    BY <1>1, <1>9, Routine
  <2>2. ~ branch_taken /\ ~ jump_taken /\ ~ reg_to_mem_r /\ ~ mem_to_reg_r /\ RegWrite(ex)
    BY <2>1 DEF I, branch_taken, jump_taken, reg_to_mem_r, RegToMem, mem_to_reg_r, MemToReg, RegWrite
  <2>3. result = 1
    BY <2>1, PlusWord, Words DEF I, result, Placed
  <2>4. registers'["s11"] = 1 /\ mem'[FRAME] = next
    BY <1>9, <2>1, <2>2, <2>3, ServiceNames, Placement DEF Effect, Put, I, Returning
  <2>5. ~ statusWrite
    BY <2>2 DEF statusWrite
  <2>6. arch' = arch + 1
    BY <1>3, <1>4, <1>9, <1>14, <2>2
  <2> QED BY ONLY <1>2, <1>9, <1>14, <2>2, <2>4, <2>5, <2>6
<1>10. CASE arch = Vector + 5
  <2>1. ex = I("store", "zero", "zero", "s11", STATUS)
    BY <1>1, <1>10, Routine
  <2>2. ~ branch_taken /\ ~ jump_taken
    BY <2>1 DEF I, branch_taken, jump_taken
  <2>3. result = STATUS
    BY <2>1, PlusWord, Placement DEF I, result, Placed
  <2>4. mem'[FRAME] = next
    BY <1>10, <2>3, Placement DEF Effect, Returning
  <2>5. arch' = arch + 1
    BY <1>3, <1>4, <1>10, <1>14, <2>2
  <2> QED BY ONLY <1>2, <1>10, <1>14, <2>2, <2>4, <2>5
<1>11. CASE arch = Vector + 6
  <2>1. ex = I("load", "s10", "zero", "zero", FRAME)
    BY <1>1, <1>11, Routine
  <2>2. ~ branch_taken /\ ~ jump_taken /\ ~ reg_to_mem_r /\ mem_to_reg_r /\ RegWrite(ex) /\ data_access_s
    BY <2>1 DEF I, branch_taken, jump_taken, reg_to_mem_r, RegToMem, mem_to_reg_r, MemToReg, RegWrite, data_access_s
  <2>3. result = FRAME
    BY <2>1, PlusWord, Placement DEF I, result, Placed
  <2>4. Accessed
    BY <1>1, <2>2, ClassSignals DEF mwait, IInv, Phases, Jumped, Answered, Entering, Entered, Bubble, Executing, Repeatable
  <2>5. data_in = next
    BY <1>11, <2>2, <2>3, <2>4, Placement DEF Accessed, Returning
  <2>6. registers'["s10"] = next
    BY <2>1, <2>2, <2>5, ServiceNames DEF Effect, Put, I
  <2>7. ~ statusWrite
    BY <2>2 DEF statusWrite
  <2>8. arch' = arch + 1
    BY <1>3, <1>4, <1>11, <1>14, <2>2
  <2> QED BY ONLY <1>2, <1>11, <1>14, <2>2, <2>6, <2>7, <2>8
<1>12. CASE arch = Vector + 7
  <2>1. ex = I("jalr", "zero", "s10", "zero", 0)
    BY <1>1, <1>12, Routine
  <2>2. jump_taken /\ ~ reg_to_mem_r /\ branch = Plus(next, 0)
    BY <1>12, <2>1, Placement DEF I, branch, jump_taken, reg_to_mem_r, RegToMem, Returning
  <2>3. arch' = next
    BY <1>1, <2>2, PlusWord DEF Effect, following
  <2>4. ~ statusWrite
    BY <2>2 DEF statusWrite
  <2> QED BY ONLY <1>2, <1>12, <1>14, <2>2, <2>3, <2>4
<1>13. \/ arch = Vector \/ arch = Vector + 1 \/ arch = Vector + 2 \/ arch = Vector + 3
       \/ arch = Vector + 4 \/ arch = Vector + 5 \/ arch = Vector + 6 \/ arch = Vector + 7
  <2>1. Vector \in Int /\ arch \in Int /\ Vector <= arch /\ arch <= Vector + 7
    BY Placement
  <2> QED BY ONLY <2>1
<1> QED BY <1>5, <1>6, <1>7, <1>8, <1>9, <1>10, <1>11, <1>12, <1>13
-----------------------------------------------------------------------------
(* Where the delays of a jump and of an acknowledgement come from.         *)
LEMMA DelaysStep ==
    ASSUME Software, IInv, NEW e \in BOOLEAN, NEW s \in BOOLEAN, Near(e, s)
    PROVE  /\ bds' => valid /\ completes(s) /\ (branch_taken \/ jump_taken)
           /\ irq_ack_s_dly' => ~ mwait /\ ~ s /\ irq_ack_s
           /\ valid' /\ data_access_s_dly' => valid /\ mwait /\ ~ s
<1>1. valid => first /\ ~ except
  BY ValidEx
<1>2. CASE ~ valid
  BY <1>2, IdleStep, MovingStep DEF IInv
<1>3. CASE valid /\ (s \/ mwait)
  <2>1. mwait /\ (s => ~ data_access_s_dly)
    BY <1>3 DEF Near, Cycle, mwait
  <2>2. UNCHANGED <<bds, irq_ack_s_dly>> /\ (s => data_access_s_dly' = data_access_s_dly)
    BY <1>3, <2>1 DEF Near, Cycle, Delays
  <2> QED BY <1>1, <1>3, <2>1, <2>2 DEF first
<1>4. CASE valid /\ ~ s /\ ~ mwait
  <2>1. bds' = (branch_taken \/ jump_taken) /\ irq_ack_s_dly' = irq_ack_s
        /\ valid' = ~ bubble /\ data_access_s_dly' = data_access_s
    BY <1>1, <1>4, ValidEx, MovingStep DEF IInv
  <2>2. branch_taken \/ jump_taken => completes(s)
    BY <1>4, ClassSignals DEF completes
  <2>3. data_access_s => bubble
    BY DEF bubble
  <2> QED BY <1>4, <2>1, <2>2, <2>3
<1> QED BY <1>2, <1>3, <1>4

LEMMA AckPlaced ==
    ASSUME Software, Serves, IInv, Behaved, Placed, Timed,
           NEW e \in BOOLEAN, NEW s \in BOOLEAN, Near(e, s), irq_ack_s_dly'
    PROVE  arch' \in Program
<1>1. irq_ack_s /\ irq = 1 /\ ~ taken
  BY DelaysStep DEF irq_ack_s, taken
<1>2. CASE irq_ack_s_dly
  <2>1. ~ valid
    BY <1>2, ValidEx DEF first
  <2> QED BY <1>1, <1>2, <2>1, IdleStep DEF Placed, IInv
<1>3. CASE ~ irq_ack_s_dly /\ ~ valid
  BY <1>1, <1>3, AckInProgram, IdleStep DEF IInv
<1>4. CASE ~ irq_ack_s_dly /\ valid
  BY <1>1, <1>4, AckInProgram, CompleteStep DEF following
<1> QED BY <1>2, <1>3, <1>4

LEMMA PlacedStep ==
    ASSUME Software, Serves, IInv, Behaved, Placed, Returning, Timed,
           NEW e \in BOOLEAN, NEW s \in BOOLEAN, Near(e, s)
    PROVE  Placed'
<1>1. irq_ack_s_dly' => (arch \in Program)'
  BY AckPlaced DEF Program
<1>2. arch \in Int /\ next \in Int /\ arch' \in Int /\ next' \in Int
  BY HistoryTypeStep DEF Near, IInv, CoreTypeOK, Word
<1>3. CASE Step /\ completes(s)
  <2>1. registers'["zero"] = 0
    BY <1>3, ZeroStep DEF Placed
  <2>2. CASE arch < First
    BY <1>1, <1>2, <1>3, <2>1, <2>2, StartStep, Placement DEF Placed, Program
  <2>3. CASE arch \in Program
    BY <1>1, <1>2, <1>3, <2>1, <2>3, ProgramStep, Placement DEF Placed, Program
  <2>4. CASE arch \in Vector .. Vector + 7
    <3>1. next \in Program
      BY <2>4, Placement DEF Placed
    <3>2. mwait <=> reg_to_mem_r
      BY <1>3 DEF completes
    <3>3. next' = next /\ (arch' = IF arch = Vector + 7 THEN next ELSE arch + 1)
          /\ (branch_taken \/ jump_taken => arch = Vector + 7)
      BY <1>3, <2>4, <3>2, ServiceStep
    <3>4. bds' => arch = Vector + 7
      BY <3>3, DelaysStep
    <3> QED BY <1>1, <1>2, <2>1, <2>4, <3>1, <3>3, <3>4, Placement DEF Placed, Program
  <2> QED BY <1>2, <2>2, <2>3, <2>4, Placement DEF Placed, Program
<1>4. CASE Take
  <2>1. arch \in Program /\ ~ completes(s)
    BY <1>4, ValidEx DEF Take, taken, Placed, completes, first
  <2>2. ~ bds'
    BY <2>1, DelaysStep
  <2> QED BY <1>1, <1>2, <1>4, <2>1, <2>2, Placement DEF Take, Placed, Program
<1>5. CASE Rest /\ ~ (completes(s) /\ arch = pc_last2)
  <2>1. ~ bds'
    <3>1. branch_taken \/ jump_taken => ~ Repeatable(ex)
      BY ClassSignals DEF Repeatable
    <3> QED BY <1>5, <3>1, DelaysStep, Completion DEF again
  <2> QED BY <1>1, <1>5, <2>1 DEF Rest, Placed, Program
<1> QED BY <1>3, <1>4, <1>5, Moves

LEMMA EpcStep ==
    ASSUME Software, IInv, NEW e \in BOOLEAN, NEW s \in BOOLEAN, Near(e, s), irq = 0
    PROVE  irq_epc' = irq_epc
<1>1. ~ except
  BY ValidEx, NoneSignals DEF IInv
<1> QED BY <1>1 DEF Near, Cycle, ControllerClock, EpcRegister

(* _isr reads IRQ_EPC in the first of the two cycles of its load.          *)
LEMMA EpcRead ==
    ASSUME Software, Serves, IInv, Placed, NEW e \in BOOLEAN, NEW s \in BOOLEAN, Near(e, s),
           arch = Vector + 1, valid, mwait
    PROVE  data_in' = irq_epc /\ ~ completes(s)
<1>1. data_access_s /\ ~ data_access_s_dly
  BY DEF mwait
<1>2. arch = pc_last2
  BY <1>1, ClassSignals DEF IInv, Phases, Jumped, Answered, Entering, Entered, Bubble, Executing, Accessed, Repeatable
<1>3. ex = I("load", "s10", "zero", "zero", EPC)
  BY <1>2, Routine, ValidEx DEF IInv, CoreTypeOK
<1>4. result = EPC /\ ~ reg_to_mem_r
  BY <1>3, PlusWord, Placement DEF I, result, Placed, reg_to_mem_r, RegToMem
<1> QED BY <1>4 DEF Near, Cycle, Memory, completes

LEMMA NotServing ==
    ASSUME Serves, arch' \in Int, arch' < Vector
    PROVE  Returning'
<1>1. /\ arch' \notin {Vector, Vector + 1} /\ arch' # Vector + 1 /\ arch' # Vector + 2
      /\ arch' \notin {Vector + 3, Vector + 7} /\ arch' \notin Vector + 4 .. Vector + 6
      /\ arch' # Vector + 5
  BY Placement
<1> QED BY <1>1 DEF Returning

LEMMA ReturningStep ==
    ASSUME Software, Serves, IInv, Behaved, Placed, Returning, Timed,
           NEW e \in BOOLEAN, NEW s \in BOOLEAN, Near(e, s)
    PROVE  Returning'
<1>1. arch \in Int /\ next \in Int /\ arch' \in Int /\ next' \in Int
  BY HistoryTypeStep DEF Near, IInv, CoreTypeOK, Word
<1>2. CASE Step /\ completes(s)
  <2>1. CASE arch < First
    BY <1>1, <1>2, <2>1, StartStep, NotServing, Placement
  <2>2. CASE arch \in Program
    <3>1. arch' < Vector
      <4>1. arch' \in Program
        BY <1>2, <2>2, ProgramStep
      <4> QED BY <4>1, Placement DEF Program
    <3> QED BY <1>1, <3>1, NotServing
  <2>3. CASE arch \in Vector .. Vector + 7
    <3>1. mwait <=> reg_to_mem_r
      BY <1>2 DEF completes
    <3>2. /\ next' = next /\ next \in Program
          /\ arch' = IF arch = Vector + 7 THEN next ELSE arch + 1
          /\ arch = Vector + 1 => registers'["s10"] = Plus(next, 1)
          /\ arch \in {Vector + 2, Vector + 6} => registers'["s10"] = next
          /\ arch \in {Vector + 3, Vector + 4, Vector + 5} => mem'[FRAME] = next
          /\ arch = Vector + 4 => registers'["s11"] = 1
      BY <1>2, <2>3, <3>1, ServiceStep, Placement DEF Placed
    <3>3. arch = Vector => irq_epc' = Plus(next, 1)
      BY <2>3, EpcStep, Placement DEF Timed, Quiet, Returning
    <3>4. arch = Vector => ~ (valid' /\ data_access_s_dly')
      <4>1. arch = Vector => ~ mwait
        BY <1>2, Routine, ClassSignals DEF Step, Effect, IInv, CoreTypeOK, I
      <4> QED BY <4>1, DelaysStep
    <3>5. Plus(next, 1)' = Plus(next, 1)
      BY <3>2 DEF Plus
    <3>6. arch = Vector + 7 => arch' < Vector
      BY <3>2, Placement DEF Program
    <3>7. /\ arch' \in {Vector, Vector + 1} => arch = Vector
          /\ arch' = Vector + 2 => arch = Vector + 1
          /\ arch' = Vector + 3 => arch = Vector + 2
          /\ arch' = Vector + 7 => arch = Vector + 6
          /\ arch' \in Vector + 4 .. Vector + 6 => arch \in {Vector + 3, Vector + 4, Vector + 5}
          /\ arch' = Vector + 5 => arch = Vector + 4
      <4>1. Vector \in Int /\ arch \in Int
        BY <1>1, Placement
      <4>2. IF arch = Vector + 7 THEN arch' < Vector ELSE arch' = arch + 1
        BY <3>2, <3>6
      <4>3. CASE arch = Vector + 7
        BY <1>1, <4>1, <4>2, <4>3
      <4>4. CASE arch # Vector + 7
        <5>1. arch' = arch + 1 /\ arch >= Vector
          BY <2>3, <4>1, <4>2, <4>4
        <5> QED BY ONLY <4>1, <5>1
      <4> QED BY <4>3, <4>4
    <3>8. arch' \in {Vector, Vector + 1} => irq_epc' = Plus(next, 1)'
      BY <3>3, <3>5, <3>7
    <3>9. ~ (arch' = Vector + 1 /\ valid' /\ data_access_s_dly')
      BY <1>1, <3>4, <3>7, Placement
    <3>10. arch' = Vector + 2 => registers'["s10"] = Plus(next, 1)'
      BY <3>2, <3>5, <3>7
    <3>11. arch' \in {Vector + 3, Vector + 7} => registers'["s10"] = next'
      BY <3>2, <3>7
    <3>12. arch' \in Vector + 4 .. Vector + 6 => mem'[FRAME] = next'
      BY <3>2, <3>7
    <3>13. arch' = Vector + 5 => registers'["s11"] = 1
      BY <3>2, <3>7
    <3> QED BY <3>8, <3>9, <3>10, <3>11, <3>12, <3>13 DEF Returning
  <2> QED BY <1>1, <2>1, <2>2, <2>3, Placement DEF Placed, Program
<1>3. CASE Take
  <2>1. irq = 0 /\ arch \in Program /\ next = arch /\ irq_epc = Plus(arch, 1)
    BY <1>3, InvEpc DEF Take, taken, Placed
  <2>2. arch' = Vector /\ next' = next /\ irq_epc' = Plus(next, 1)
    BY <1>3, <2>1, EpcStep DEF Take
  <2>3. Plus(next, 1)' = Plus(next, 1)
    BY <2>2 DEF Plus
  <2>4. Vector \in Int
    BY Placement
  <2>5. /\ arch' # Vector + 1 /\ arch' # Vector + 2 /\ arch' \notin {Vector + 3, Vector + 7}
        /\ arch' \notin Vector + 4 .. Vector + 6 /\ arch' # Vector + 5
    BY ONLY <2>2, <2>4
  <2> QED BY <2>2, <2>3, <2>5 DEF Returning
<1>4. CASE Rest
  <2>1. arch' = arch /\ next' = next /\ registers' = registers /\ mem' = mem
    BY <1>4 DEF Rest
  <2>2. arch \in {Vector, Vector + 1} => irq_epc' = irq_epc
    BY EpcStep, Placement DEF Timed, Quiet
  <2>3. arch = Vector + 1 /\ valid' /\ data_access_s_dly' => data_in' = irq_epc'
    BY <2>2, EpcRead, DelaysStep
  <2>4. Plus(next, 1)' = Plus(next, 1)
    BY <2>1 DEF Plus
  <2> QED BY <2>1, <2>2, <2>3, <2>4 DEF Returning
<1> QED BY <1>2, <1>3, <1>4, Moves
-----------------------------------------------------------------------------
(* While IRQ_STATUS is 0 the controller comes no nearer to a request.      *)
LEMMA StatusStep ==
    ASSUME Software, IInv, NEW e \in BOOLEAN, NEW s \in BOOLEAN, Near(e, s)
    PROVE  /\ irq_ack_s_dly => irq_status' = 0
           /\ irq_status = 0 /\ ~ statusWrite => irq_status' = 0
<1>1. ~ except
  BY ValidEx, NoneSignals DEF IInv
<1> QED BY <1>1 DEF Near, Cycle, ControllerClock, StatusRegister

LEMMA QuietStep ==
    ASSUME Software, IInv, NEW e \in BOOLEAN, NEW s \in BOOLEAN, Near(e, s), Quiet, ~ statusWrite
    PROVE  Quiet'
BY StatusStep, FarStep DEF Quiet

(* The acknowledgement sends the controller all the way round.             *)
LEMMA AckQuiet ==
    ASSUME Software, IInv, NEW e \in BOOLEAN, NEW s \in BOOLEAN, Near(e, s), irq_ack_s_dly', irq' = 0
    PROVE  Quiet'
<1>1. irq = 1 /\ ~ s
  BY DelaysStep DEF irq_ack_s
<1>2. irq_ack_s_dly
  BY <1>1, PulseStep
<1>3. pulse_state = "irq_req" /\ pulse_next_state = "irq_req"
  BY <1>1, <1>2 DEF IInv, PulseInv
<1>4. leaves(e, irq_ack_s_dly) /\ Following["irq_req"] = "irq_ackn"
  BY <1>2, <1>3 DEF leaves, Following
<1>5. pulse_state' = "irq_req" /\ pulse_next_state' = "irq_ackn"
  BY <1>1, <1>3, <1>4 DEF Near, Cycle, ControllerClock, Pulse
<1> QED BY <1>2, <1>5, StatusStep DEF Quiet, Far, pulse

LEMMA WindowRange == Window \in 1 .. 5 /\ (Serves /\ arch = Vector + 6 => Window > 1)
BY Placement DEF Window

(* A word of _isr before arch that is still in the execute stage.          *)
LEMMA Before ==
    ASSUME Serves, IInv, NEW k \in 0 .. 6, Plus(pc_last2, 1) = Vector + k + 1
    PROVE  pc_last2 = Vector + k
<1>1. pc_last2 \in Word
  BY DEF IInv, CoreTypeOK
<1>2. pc_last2 + 1 \in Word /\ pc_last2 + 1 = Vector + k + 1
  BY <1>1, PlusWord, Placement
<1> QED BY <1>1, <1>2, Placement

(* Between the store that enables interrupts and the jump back.            *)
LEMMA WindowStep ==
    ASSUME Software, Serves, IInv, Placed, NEW e \in BOOLEAN, NEW s \in BOOLEAN, Near(e, s),
           Rest, ~ (completes(s) /\ arch = pc_last2), irq = 0, arch = Vector + 6
    PROVE  Window' <= Window - 1
<1>1. ~ bds /\ ~ irq_ack_s_dly /\ arch' = arch /\ arch # Vector + 7 /\ prog \in Programs
  <2>1. Vector \in Int /\ arch # Vector + 7 /\ ~ (arch < Vector) /\ arch \notin Program
    BY Placement DEF Program
  <2> QED BY <2>1 DEF Placed, Rest, IInv, CoreTypeOK
<1>2. CASE Bubble
  <2>1. ~ valid /\ ~ irq_ack_s /\ ~ bubble /\ ~ data_access_s
    BY <1>2, IdleStep, NoneSignals DEF Bubble, first, IInv
  <2>2. valid' /\ pc_last2' = Vector + 6 /\ ~ data_access_s_dly'
    BY <1>2, <2>1, IdleStep, MovingStep DEF Bubble, IInv
  <2>3. Window = 4 /\ Window' = 3
    BY <1>1, <2>1, <2>2, Placement DEF Window
  <2> QED BY <2>3
<1>3. CASE Executing
  <2>1. arch = pc_last2
    <3>1. again => pc_last2 = Vector + 5
      BY <1>1, Before, Placement DEF again
    <3>2. again => ex = I("store", "zero", "zero", "s11", STATUS)
      BY <1>1, <1>3, <3>1, ValidEx, Routine DEF Executing
    <3> QED BY <1>3, <3>2 DEF Executing, again, Repeatable, I
  <2>2. ex = I("load", "s10", "zero", "zero", FRAME) /\ valid
    BY <1>1, <1>3, <2>1, ValidEx, Routine DEF Executing
  <2>3. data_access_s /\ mwait /\ result = FRAME
    BY <1>3, <2>2, PlusWord, Placement, ClassSignals DEF I, result, Placed, Executing, mwait
  <2>4. ~ s /\ ~ data_access_s_dly
    BY <2>3, Placement DEF Near, Cycle, mwait
  <2>5. valid' /\ pc_last2' = pc_last2 /\ data_access_s_dly'
    BY <2>2, <2>3, <2>4 DEF Near, Cycle, ProgramCounter, Delays, Completed
  <2>6. Window = 3 /\ Window' = 2
    BY <1>1, <2>1, <2>2, <2>4, <2>5, Placement DEF Window
  <2> QED BY <2>6
<1>4. CASE Accessed
  <2>1. valid /\ ~ mwait /\ ~ s
    BY <1>4 DEF Accessed, mwait, Near, Cycle
  <2>2. reg_to_mem_r
    BY <1>4, <2>1 DEF Accessed, completes
  <2>3. pc_last2 = Vector + 5
    BY <1>4, <2>2, Before, Placement DEF Accessed
  <2>4. ~ valid'
    BY <1>4, <2>1, ValidEx, MovingStep DEF Accessed, bubble, IInv
  <2>5. Window = 5 /\ Window' = 4
    BY <1>1, <2>1, <2>3, <2>4, Placement DEF Window
  <2> QED BY <2>5
<1>5. ~ Jumped /\ ~ Answered /\ ~ Entering
  BY <1>1, Placement DEF Jumped, Answered, Entering
<1>6. ~ Entered
  <2>1. Entered => ex = I("load", "s10", "zero", "zero", FRAME)
    BY <1>1, ValidEx, Routine DEF Entered
  <2> QED BY <2>1 DEF Entered, Repeatable, I
<1> QED BY <1>2, <1>3, <1>4, <1>5, <1>6 DEF IInv, Phases

(* The jump back is decoded in the cycle after the load of its target.     *)
LEMMA LeaveStep ==
    ASSUME Software, Serves, IInv, Placed, Timed, NEW e \in BOOLEAN, NEW s \in BOOLEAN, Near(e, s),
           Rest, ~ (completes(s) /\ arch = pc_last2), arch = Vector + 7
    PROVE  valid'
<1>1. ~ bds /\ ~ irq_ack_s_dly /\ prog \in Programs
  BY Placement DEF Placed, Program, IInv, CoreTypeOK
<1>2. CASE Bubble
  <2>1. ~ valid /\ irq = 0
    BY <1>2 DEF Bubble, Timed
  <2>2. ~ bubble /\ ~ mwait /\ ~ stall_reg /\ ~ except
    BY <1>1, <2>1, IdleStep DEF IInv
  <2> QED BY <2>2, MovingStep DEF IInv
<1>3. ~ (valid /\ arch = pc_last2)
  <2> SUFFICES ASSUME valid, arch = pc_last2 PROVE FALSE
    OBVIOUS
  <2>1. ex = I("jalr", "zero", "s10", "zero", 0)
    BY <1>1, ValidEx, Routine
  <2>2. ~ mwait /\ ~ reg_to_mem_r
    BY <2>1, ClassSignals DEF I
  <2> QED BY <2>2 DEF completes, Near, Cycle
<1>4. ~ (valid /\ Plus(pc_last2, 1) = Vector + 7 /\ (Repeatable(ex) \/ reg_to_mem_r))
  <2> SUFFICES ASSUME valid, Plus(pc_last2, 1) = Vector + 7 PROVE ~ Repeatable(ex) /\ ~ reg_to_mem_r
    OBVIOUS
  <2>1. pc_last2 = Vector + 6
    BY Before, Placement
  <2>2. ex = I("load", "s10", "zero", "zero", FRAME)
    BY <1>1, <2>1, ValidEx, Routine
  <2> QED BY <2>2, ClassSignals DEF I, Repeatable
<1>5. ~ Executing /\ ~ Accessed /\ ~ Entered
  BY <1>3, <1>4 DEF Executing, Accessed, Entered, again
<1>6. ~ Jumped /\ ~ Answered /\ ~ Entering
  BY <1>1, Placement DEF Jumped, Answered, Entering
<1> QED BY <1>2, <1>5, <1>6 DEF IInv, Phases

LEMMA TimedStep ==
    ASSUME Software, Serves, IInv, Behaved, Placed, Returning, Timed,
           NEW e \in BOOLEAN, NEW s \in BOOLEAN, Near(e, s)
    PROVE  Timed'
<1>1. arch \in Int /\ arch' \in Int
  BY HistoryTypeStep DEF Near, IInv, CoreTypeOK, Word
<1>2. (irq_ack_s_dly /\ irq = 0 => Quiet)'
  BY AckQuiet
<1>3. Far \in 1 .. 6 /\ Far' \in 1 .. 6 /\ Window' \in 1 .. 5
  <2>1. Window' \in 1 .. 5
    BY Placement DEF Window
  <2> QED BY <2>1 DEF Far
<1>4. CASE Step /\ completes(s)
  <2>1. CASE arch < First
    <3>1. arch' = arch + 1 /\ arch' <= First
      BY <1>4, <2>1, StartStep
    <3>2. arch' < First => ~ statusWrite
      <4>1. valid /\ pc_last2 < First /\ arch' = following
        BY <1>4, <2>1 DEF Step, Effect
      <4> QED BY <4>1, Placement DEF Behaved, statusWrite
    <3>3. irq = 0 /\ irq_status = 0 /\ pulse = <<"irq_idle", "irq_idle">> /\ Far > 1
      BY <2>1 DEF Timed, Far, pulse
    <3>4. arch' < First => irq' = 0 /\ irq_status' = 0 /\ pulse' = <<"irq_idle", "irq_idle">>
      BY <3>2, <3>3, FarStep, StatusStep
    <3>5. arch' < Vector
      BY <1>1, <3>1, Placement
    <3> QED BY <1>1, <1>2, <3>4, <3>5, Placement DEF Timed, pulse
  <2>2. CASE arch \in Program
    <3>1. First <= arch' /\ arch' < Vector
      <4>1. arch' \in Program
        BY <1>4, <2>2, ProgramStep
      <4> QED BY <4>1, Placement DEF Program
    <3> QED BY <1>1, <1>2, <3>1, Placement DEF Timed
  <2>3. CASE arch \in Vector .. Vector + 7
    <3>1. mwait <=> reg_to_mem_r
      BY <1>4 DEF completes
    <3>2. /\ arch' = IF arch = Vector + 7 THEN next ELSE arch + 1
          /\ next \in Program /\ (statusWrite => arch = Vector + 5)
      BY <1>4, <2>3, <3>1, ServiceStep, Placement DEF Placed
    <3>3. CASE arch \in Vector .. Vector + 4
      <4>1. Quiet'
        BY <3>2, <3>3, QuietStep, Placement DEF Timed
      <4>2. arch' \in Vector + 1 .. Vector + 5
        BY <1>1, <3>2, <3>3, Placement
      <4> QED BY <1>1, <1>2, <4>1, <4>2, Placement DEF Timed
    <3>4. CASE arch = Vector + 5
      <4>1. irq' = 0 /\ Far' >= 5
        BY <3>4, FarStep, Placement DEF Timed, Quiet
      <4>2. arch' = Vector + 6
        BY <3>2, <3>4, Placement
      <4> QED BY <1>1, <1>2, <1>3, <4>1, <4>2, Placement DEF Timed
    <3>5. CASE arch = Vector + 6
      <4>1. irq = 0 /\ Far >= Window /\ Window > 1 /\ Window \in 1 .. 5
        BY <3>5, WindowRange DEF Timed
      <4>2. irq' = 0
        BY <1>3, <4>1, FarStep
      <4>3. arch' = Vector + 7 /\ (~ valid' => Window' = 1)
        BY <3>2, <3>5, Placement DEF Window
      <4>4. ~ valid' => Far' >= Window'
        BY <1>3, <4>3
      <4>5. arch' # Vector + 6 /\ arch' \notin Vector .. Vector + 5 /\ ~ (arch' < First)
        BY <4>3, Placement
      <4> QED BY <1>2, <4>2, <4>3, <4>4, <4>5 DEF Timed
    <3>6. CASE arch = Vector + 7
      <4>1. First <= arch' /\ arch' < Vector
        BY <3>2, <3>6, Placement DEF Program
      <4> QED BY <1>1, <1>2, <4>1, Placement DEF Timed
    <3> QED BY <2>3, <3>3, <3>4, <3>5, <3>6, <1>1, Placement
  <2> QED BY <1>1, <2>1, <2>2, <2>3, Placement DEF Placed, Program
<1>5. CASE Take
  <2>1. Quiet'
    BY <1>5, QuietStep DEF Take, taken, Timed
  <2> QED BY <1>2, <1>5, <2>1, Placement DEF Take, Timed
<1>6. CASE Rest /\ ~ (completes(s) /\ arch = pc_last2)
  <2>1. arch' = arch /\ ~ statusWrite
    BY <1>6 DEF Rest
  <2>2. CASE arch < First
    <3>1. irq = 0 /\ irq_status = 0 /\ pulse = <<"irq_idle", "irq_idle">> /\ Far > 1
      BY <2>2 DEF Timed, Far, pulse
    <3>2. irq' = 0 /\ irq_status' = 0 /\ pulse' = <<"irq_idle", "irq_idle">>
      BY <2>1, <3>1, FarStep, StatusStep
    <3> QED BY <1>1, <1>2, <2>1, <2>2, <3>2, Placement DEF Timed, pulse
  <2>3. CASE arch \in Program
    <3>1. First <= arch' /\ arch' < Vector
      BY <2>1, <2>3, Placement DEF Program
    <3> QED BY <1>1, <1>2, <3>1, Placement DEF Timed
  <2>4. CASE arch \in Vector .. Vector + 5
    <3>1. Quiet'
      BY <2>1, <2>4, QuietStep DEF Timed
    <3> QED BY <1>1, <1>2, <2>1, <2>4, <3>1, Placement DEF Timed
  <2>5. CASE arch = Vector + 6
    <3>1. irq = 0 /\ Far >= Window /\ Window > 1 /\ Window \in 1 .. 5
      BY <2>5, WindowRange DEF Timed
    <3>2. Window' <= Window - 1
      BY <1>6, <2>5, <3>1, WindowStep
    <3>3. irq' = 0 /\ Far' >= Far - 1
      BY <1>3, <3>1, FarStep
    <3>4. Far' >= Window'
      <4>1. PICK w \in 1 .. 5 : w = Window'
        BY <1>3
      <4>2. PICK f \in 1 .. 6 : f = Far'
        BY <1>3
      <4>3. w <= Window - 1 /\ f >= Far - 1
        BY <3>2, <3>3, <4>1, <4>2
      <4>4. f >= w
        BY <1>3, <3>1, <4>3
      <4> QED BY <4>1, <4>2, <4>4
    <3> QED BY <1>1, <1>2, <2>1, <2>5, <3>3, <3>4, Placement DEF Timed
  <2>6. CASE arch = Vector + 7
    <3>1. valid'
      BY <1>6, <2>6, LeaveStep
    <3> QED BY <1>1, <1>2, <2>1, <2>6, <3>1, Placement DEF Timed
  <2>7. arch < First \/ arch \in Program \/ arch \in Vector .. Vector + 5 \/ arch = Vector + 6 \/ arch = Vector + 7
    BY <1>1, Placement DEF Placed, Program
  <2> QED BY <2>2, <2>3, <2>4, <2>5, <2>6, <2>7
<1> QED BY <1>4, <1>5, <1>6, Moves

LEMMA UInit == Serves /\ Init => UInv
<1> SUFFICES ASSUME Serves, Init PROVE UInv
  OBVIOUS
<1>1. Placed
  BY Placement, RegistersAssumption DEF Init, Placed, Program
<1>2. Returning
  BY Placement DEF Init, Returning
<1>3. Timed
  BY Placement DEF Init, ControllerInit, Timed, pulse
<1> QED BY <1>1, <1>2, <1>3 DEF UInv

LEMMA UStutter ==
    ASSUME UInv, UNCHANGED vars
    PROVE  UInv'
<1> USE DEF vars, controller, fetch, memory, history
<1>1. Placed'
  BY DEF UInv, Placed, Program
<1>2. Returning'
  <2>1. Plus(next, 1)' = Plus(next, 1)
    BY DEF Plus
  <2> QED BY <2>1 DEF UInv, Returning
<1>3. Timed'
  <2>1. Far' = Far /\ Window' = Window
    BY DEF Far, pulse, Window
  <2> QED BY <2>1 DEF UInv, Timed, Quiet, pulse
<1> QED BY <1>1, <1>2, <1>3 DEF UInv

LEMMA UStep ==
    Software /\ Serves /\ CInv /\ (inside => UInv) /\ Behaved /\ [Next]_vars => (inside' => UInv')
<1> SUFFICES ASSUME Software, Serves, CInv, inside => UInv, Behaved, [Next]_vars, inside'
             PROVE  UInv'
  OBVIOUS
<1>1. CASE Next
  <2>1. inside /\ IInv /\ (\E e, s \in BOOLEAN : Near(e, s))
    <3>1. stays
      BY <1>1 DEF Next, Cycle, Completed
    <3> QED BY <1>1, <3>1, InsideStep
  <2>2. PICK e \in BOOLEAN, s \in BOOLEAN : Near(e, s)
    BY <2>1
  <2> QED BY <2>1, <2>2, PlacedStep, ReturningStep, TimedStep DEF UInv
<1>2. CASE UNCHANGED vars
  BY <1>2, UStutter DEF vars, history
<1> QED BY <1>1, <1>2

LEMMA UAck == Software /\ Serves /\ IInv /\ UInv /\ Behaved => ServiceUninterrupted
BY AckInProgram DEF UInv, ServiceUninterrupted

(* _isr is never interrupted, not even in the instructions between the     *)
(* store that enables interrupts and the jump back: the controller needs   *)
(* five cycles from irq_done to a request, and _isr is gone after four.    *)
(* It needs its frame in memory without wait states for that, and a        *)
(* program that is not fetched from External.                              *)
THEOREM ServicesUninterrupted == Software /\ Serves => (Spec /\ []Behaved => []ServiceUninterrupted)
<1> SUFFICES ASSUME Software, Serves PROVE Spec /\ []Behaved => []ServiceUninterrupted
  OBVIOUS
<1>1. Init => CInv /\ (inside => UInv)
  BY CInit, UInit
<1>2. CInv /\ (inside => UInv) /\ Behaved /\ [Next]_vars => (CInv /\ (inside => UInv))'
  BY CStep, UStep
<1>3. CInv /\ (inside => UInv) /\ Behaved => ServiceUninterrupted
  BY UAck DEF CInv, ServiceUninterrupted, stays
<1> QED BY <1>1, <1>2, <1>3, PTL DEF Spec
-----------------------------------------------------------------------------
(* What the program sees of a cycle. *)
userRegs == [r \in Visible |-> registers[r]]
userMem == [c \in External |-> mem[c]]

LEMMA Seen ==
    ASSUME IInv, Serves, Step
    PROVE  /\ userRegs' = [r \in Visible |->
                  IF RegWrite(ex) /\ r = ex.rd /\ r # "zero"
                  THEN IF mem_to_reg_r THEN data_in ELSE IF jump_taken THEN pc_last ELSE result
                  ELSE registers[r]]
           /\ userMem' = [c \in External |->
                  IF reg_to_mem_r /\ c = result THEN registers[ex.rs2] ELSE mem[c]]
<1>1. registers \in [Registers -> Word] /\ mem \in [Cells -> Word] /\ Visible \subseteq Registers
      /\ External \subseteq Cells /\ "zero" \in Registers /\ ex.rd \in Registers
  BY LayoutAssumption, ServiceNames, SignalTypes DEF IInv
<1>2. ASSUME NEW r \in Visible
      PROVE  registers'[r] = IF RegWrite(ex) /\ r = ex.rd /\ r # "zero"
                             THEN IF mem_to_reg_r THEN data_in ELSE IF jump_taken THEN pc_last ELSE result
                             ELSE registers[r]
  BY <1>1 DEF Step, Effect, Put
<1>3. ASSUME NEW c \in External
      PROVE  mem'[c] = IF reg_to_mem_r /\ c = result THEN registers[ex.rs2] ELSE mem[c]
  BY <1>1 DEF Step, Effect
<1> QED BY <1>2, <1>3 DEF userRegs, userMem

(* What no instruction of the program does, the program does not see.      *)
LEMMA HiddenStep ==
    ASSUME IInv, Serves, Step, ex.rd \notin Visible \ {"zero"}, reg_to_mem_r => result \notin External
    PROVE  userRegs' = userRegs /\ userMem' = userMem
<1>1. \A r \in Visible : ~ (r = ex.rd /\ r # "zero")
  OBVIOUS
<1>2. \A c \in External : ~ (reg_to_mem_r /\ c = result)
  OBVIOUS
<1> QED BY <1>1, <1>2, Seen DEF userRegs, userMem

LEMMA ServiceHidden ==
    ASSUME Serves, IInv, Placed, Step, arch \in Vector .. Vector + 7
    PROVE  ex.rd \notin Visible \ {"zero"} /\ (reg_to_mem_r => result \notin External)
<1>1. ex = Code(prog, arch) /\ prog \in Programs
  BY DEF Step, Effect, IInv, CoreTypeOK
<1>2. \/ arch = Vector \/ arch = Vector + 1 \/ arch = Vector + 2 \/ arch = Vector + 3
      \/ arch = Vector + 4 \/ arch = Vector + 5 \/ arch = Vector + 6 \/ arch = Vector + 7
  <2>1. Vector \in Int /\ arch \in Int /\ Vector <= arch /\ arch <= Vector + 7
    BY Placement DEF IInv, CoreTypeOK, Word
  <2> QED BY ONLY <2>1
<1>3. ex.rd \in {"zero", "s10", "s11"} /\ (ex.class = "store" => ex.rs1 = "zero" /\ ex.imm \in {FRAME, STATUS})
  BY <1>1, <1>2, Routine DEF I
<1>4. ex.rd \notin Visible \ {"zero"}
  BY <1>3 DEF Serves
<1>5. reg_to_mem_r => result \in {FRAME, STATUS}
  BY <1>3, ClassSignals, PlusWord, Placement DEF result, Placed
<1> QED BY <1>4, <1>5, Placement

(* An instruction of the program is one for the program too.               *)
LEMMA ProgramAdvance ==
    ASSUME Software, Serves, IInv, Placed, Behaved, Step, arch \in Program,
           mwait <=> reg_to_mem_r, jump_taken => pc_last = Plus(pc_last2, 1), prog' = prog
    PROVE  User!Next
<1> USE DEF Step
<1>1. /\ ex = Code(prog, next) /\ prog \in Programs /\ arch = next /\ pc_last2 = next /\ valid
      /\ ex \in Instruction /\ next' = following
  BY DEF Effect, Placed, IInv, CoreTypeOK
<1>2. ex.rd \in Visible /\ ex.rs1 \in Visible /\ ex.rs2 \in Visible
  BY <1>1 DEF Serves
<1>3. [r \in Visible |-> registers[r]][ex.rs1] = registers[ex.rs1]
      /\ [r \in Visible |-> registers[r]][ex.rs2] = registers[ex.rs2]
  BY <1>2
<1>4. ex.class \in Classes \ {"system"}
  BY <1>1, ValidEx
<1>5. ~ RegWrite(ex) => [r \in Visible |-> registers[r]]' = [r \in Visible |-> registers[r]]
  BY Seen DEF userRegs
<1>6. ~ reg_to_mem_r => [c \in External |-> mem[c]]' = [c \in External |-> mem[c]]
  BY Seen DEF userMem
<1>7. ASSUME NEW value, RegWrite(ex),
             value = IF mem_to_reg_r THEN data_in ELSE IF jump_taken THEN pc_last ELSE result
      PROVE  [r \in Visible |-> registers[r]]' =
                 [r \in DOMAIN [r \in Visible |-> registers[r]] |->
                     IF r = ex.rd /\ r # "zero" THEN value ELSE [q \in Visible |-> registers[q]][r]]
  BY <1>7, Seen DEF userRegs
<1>8. ~ branch_taken /\ ~ jump_taken => next' = Plus(next, 1)
  BY <1>1 DEF following
<1>9. CASE ex.class = "none"
  <2>1. User!Idle(ex)
    BY <1>1, <1>5, <1>6, <1>8, <1>9, ClassSignals DEF User!Idle, User!Plus, Plus
  <2> QED BY <1>1, <2>1 DEF User!Next
<1>10. CASE ex.class \in {"computation", "auipc"}
  <2>1. ~ branch_taken /\ ~ jump_taken /\ RegWrite(ex) /\ ~ reg_to_mem_r /\ ~ mem_to_reg_r
    BY <1>10, ClassSignals
  <2>2. User!Set(ex.rd, result)
    BY <1>7, <2>1 DEF User!Set
  <2>3. result = Plus(IF ex.class = "auipc" THEN next ELSE [r \in Visible |-> registers[r]][ex.rs1], ex.imm)
    BY <1>1, <1>3 DEF result
  <2>4. User!Compute(ex)
    BY <1>6, <1>8, <1>10, <2>1, <2>2, <2>3 DEF User!Compute, User!Set, User!Plus, Plus
  <2> QED BY <1>1, <2>4 DEF User!Next, User!Compute, User!Set
<1>11. CASE ex.class = "load"
  <2>1. ~ branch_taken /\ ~ jump_taken /\ RegWrite(ex) /\ ~ reg_to_mem_r /\ mem_to_reg_r
    BY <1>11, ClassSignals
  <2>2. User!Set(ex.rd, data_in) /\ data_in \in Word
    BY <1>7, <2>1 DEF IInv, CoreTypeOK, User!Set
  <2>3. result = Plus([r \in Visible |-> registers[r]][ex.rs1], ex.imm)
    BY <1>3, <1>11 DEF result
  <2>4. result \in External => data_in = [c \in External |-> mem[c]][result]
    <3>1. Accessed
      BY <1>1, <1>11, <2>1, ClassSignals DEF mwait, IInv, Phases, Jumped, Answered, Entering, Entered, Bubble, Executing, Repeatable
    <3>2. result \in Cells => data_in = mem[result]
      BY <2>1, <3>1, <1>11, ClassSignals DEF Accessed
    <3> QED BY <3>2, LayoutAssumption
  <2>5. \E value \in IF result \in DOMAIN [c \in External |-> mem[c]]
                     THEN {[c \in External |-> mem[c]][result]} ELSE Word : User!Set(ex.rd, value)
    BY <2>2, <2>4 DEF User!Set
  <2>6. User!Load(ex)
    BY <1>6, <1>8, <1>11, <2>1, <2>3, <2>5 DEF User!Load, User!Plus, Plus, User!Word, Word
  <2> QED BY <1>1, <2>6 DEF User!Next
<1>12. CASE ex.class = "store"
  <2>1. ~ branch_taken /\ ~ jump_taken /\ ~ RegWrite(ex) /\ reg_to_mem_r
    BY <1>12, ClassSignals DEF RegWrite
  <2>2. result = Plus([r \in Visible |-> registers[r]][ex.rs1], ex.imm)
    BY <1>3, <1>12 DEF result
  <2>3. [c \in External |-> mem[c]]' =
           [c \in External |-> IF c = result THEN [r \in Visible |-> registers[r]][ex.rs2]
                               ELSE [d \in External |-> mem[d]][c]]
    BY <1>3, <2>1, Seen DEF userMem
  <2>4. User!Store(ex)
    BY <1>5, <1>8, <1>12, <2>1, <2>2, <2>3 DEF User!Store, User!Plus, Plus
  <2> QED BY <1>1, <2>4 DEF User!Next, User!Store
<1>13. CASE ex.class = "branch"
  <2>1. ~ jump_taken /\ ~ RegWrite(ex) /\ ~ reg_to_mem_r
    BY <1>13, ClassSignals DEF jump_taken, RegWrite
  <2>2. next' = Plus(next, IF registers[ex.rs1] = registers[ex.rs2] THEN ex.imm ELSE 1)
    BY <1>1, <1>13, <2>1 DEF following, branch, branch_taken
  <2>3. User!Branch(ex)
    BY <1>3, <1>5, <1>6, <1>13, <2>1, <2>2 DEF User!Branch, User!Plus, Plus
  <2> QED BY <1>1, <2>3 DEF User!Next
<1>14. CASE ex.class \in {"jal", "jalr"}
  <2>1. jump_taken /\ RegWrite(ex) /\ ~ reg_to_mem_r /\ ~ mem_to_reg_r
    BY <1>14, ClassSignals DEF jump_taken
  <2>2. User!Set(ex.rd, pc_last) /\ pc_last = Plus(next, 1)
    BY <1>1, <1>7, <2>1 DEF User!Set
  <2>3. next' = Plus(IF ex.class = "jal" THEN next ELSE registers[ex.rs1], ex.imm)
    BY <1>1, <1>14, <2>1 DEF following, branch
  <2>4. User!Jump(ex)
    BY <1>3, <1>6, <1>14, <2>1, <2>2, <2>3 DEF User!Jump, User!Set, User!Plus, Plus
  <2> QED BY <1>1, <2>4 DEF User!Next, User!Jump, User!Set
<1> QED BY <1>4, <1>9, <1>10, <1>11, <1>12, <1>13, <1>14 DEF Classes

LEMMA UserAdvance ==
    ASSUME Software, Serves, IInv, UInv, Behaved, Unseen, NEW e \in BOOLEAN, NEW s \in BOOLEAN, Near(e, s)
    PROVE  User!Next \/ UNCHANGED User!vars
<1> USE DEF UInv
<1>1. prog' = prog
  BY DEF Near, Cycle, Memory
<1>2. next' = next /\ userRegs' = userRegs /\ userMem' = userMem => UNCHANGED User!vars
  BY <1>1 DEF userRegs, userMem, User!vars
<1>3. CASE Step /\ completes(s)
  <2>1. mwait <=> reg_to_mem_r
    BY <1>3 DEF completes
  <2>2. CASE arch < First
    <3>1. valid /\ pc_last2 < First
      BY <1>3, <2>2 DEF Step, Effect
    <3>2. ex.rd \notin Visible \ {"zero"} /\ (reg_to_mem_r => result \notin External)
      BY <3>1 DEF Unseen
    <3>3. next' = next
      BY <1>3, <2>2, StartStep DEF Placed
    <3> QED BY <1>2, <1>3, <3>2, <3>3, HiddenStep
  <2>3. CASE arch \in Program
    <3>1. jump_taken => pc_last = Plus(pc_last2, 1)
      <4>1. jump_taken => ~ Entered
        BY ClassSignals DEF Entered, Repeatable
      <4> QED BY <1>3, <4>1 DEF Step, Effect, IInv, Phases, Jumped, Answered, Entering, Bubble, Executing, Accessed
    <3> QED BY <1>1, <1>3, <2>1, <2>3, <3>1, ProgramAdvance
  <2>4. CASE arch \in Vector .. Vector + 7
    BY <1>2, <1>3, <2>1, <2>4, ServiceStep, ServiceHidden, HiddenStep
  <2>5. arch \in Int
    BY DEF IInv, CoreTypeOK, Word
  <2> QED BY <2>2, <2>3, <2>4, <2>5, Placement DEF Placed, Program
<1>4. CASE Take \/ Rest
  BY <1>2, <1>4 DEF Take, Rest, userRegs, userMem
<1> QED BY <1>3, <1>4, Moves

(* A program does not notice _isr: its instructions are executed one after *)
(* the other, each with the registers and the memory the one before it     *)
(* left, wherever the interrupts come between them.  It may have its data  *)
(* in External, but is not fetched from there.                             *)
THEOREM UserImplemented ==
    Software /\ Serves => (Spec /\ []Behaved /\ []Unseen => ImplementsUser)
<1> SUFFICES ASSUME Software, Serves PROVE Spec /\ []Behaved /\ []Unseen => ImplementsUser
  OBVIOUS
<1>1. Init => CInv /\ (inside => UInv)
  BY CInit, UInit
<1>2. CInv /\ (inside => UInv) /\ Behaved /\ [Next]_vars => (CInv /\ (inside => UInv))'
  BY CStep, UStep
<1>3. CInv /\ (inside => UInv) /\ Behaved /\ Unseen /\ [Next]_vars => [stays => User!Next]_User!vars
  <2> SUFFICES ASSUME CInv, inside => UInv, Behaved, Unseen, [Next]_vars
               PROVE  [stays => User!Next]_User!vars
    OBVIOUS
  <2>1. CASE Next
    BY <2>1, InsideStep, UserAdvance
  <2>2. CASE UNCHANGED vars
    BY <2>2 DEF vars, memory, history, User!vars
  <2> QED BY <2>1, <2>2
<1> QED BY <1>1, <1>2, <1>3, PTL DEF Spec, ImplementsUser
=============================================================================
