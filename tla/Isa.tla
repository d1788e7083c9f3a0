-------------------------------- MODULE Isa ---------------------------------
(***************************************************************************)
(* What the processor promises to software without system calls: its       *)
(* instructions are executed one after the other, as by cycle() of the     *)
(* simulator.  The pipeline and its wait states do not show.               *)
(***************************************************************************)
EXTENDS Rv32i

CONSTANT Code(_, _)     \* the instruction of a program at an address

VARIABLES
    prog,       \* the program
    pc,         \* the next instruction
    regs,       \* the registers
    mem         \* the cells of memory; a load from elsewhere reads a device

vars == <<prog, pc, regs, mem>>

Set(rd, value) == regs' = [r \in DOMAIN regs |-> IF r = rd /\ r # "zero" THEN value ELSE regs[r]]

Idle(i) ==
    /\ i.class = "none"
    /\ pc' = Plus(pc, 1)
    /\ UNCHANGED <<regs, mem>>

Compute(i) ==
    /\ i.class \in {"computation", "auipc"}
    /\ Set(i.rd, Plus(IF i.class = "auipc" THEN pc ELSE regs[i.rs1], i.imm))
    /\ pc' = Plus(pc, 1)
    /\ UNCHANGED mem

Load(i) ==
    /\ i.class = "load"
    /\ LET address == Plus(regs[i.rs1], i.imm)
       IN  \E value \in IF address \in DOMAIN mem THEN {mem[address]} ELSE Word : Set(i.rd, value)
    /\ pc' = Plus(pc, 1)
    /\ UNCHANGED mem

Store(i) ==
    /\ i.class = "store"
    /\ mem' = [c \in DOMAIN mem |-> IF c = Plus(regs[i.rs1], i.imm) THEN regs[i.rs2] ELSE mem[c]]
    /\ pc' = Plus(pc, 1)
    /\ UNCHANGED regs

Branch(i) ==
    /\ i.class = "branch"
    /\ pc' = Plus(pc, IF regs[i.rs1] = regs[i.rs2] THEN i.imm ELSE 1)
    /\ UNCHANGED <<regs, mem>>

Jump(i) ==
    /\ i.class \in {"jal", "jalr"}
    /\ Set(i.rd, Plus(pc, 1))
    /\ pc' = Plus(IF i.class = "jal" THEN pc ELSE regs[i.rs1], i.imm)
    /\ UNCHANGED mem

Next ==
    /\ LET i == Code(prog, pc) IN Idle(i) \/ Compute(i) \/ Load(i) \/ Store(i) \/ Branch(i) \/ Jump(i)
    /\ UNCHANGED prog

(* An interrupt is taken between two instructions. *)
Interrupt(vector) ==
    /\ pc' = vector
    /\ UNCHANGED <<prog, regs, mem>>
=============================================================================
