------------------------------- MODULE Rv32i --------------------------------
(***************************************************************************)
(* Instructions as the processor tells them apart: a class of opcodes, two *)
(* sources, a destination and an immediate operand.  Addresses count       *)
(* words; words wrap at Width.                                             *)
(***************************************************************************)
EXTENDS Integers

CONSTANTS
    Width,          \* number of words, 2^30 in the code
    Registers       \* names of registers, "zero" among them

ASSUME WidthAssumption == Width \in Nat \ {0, 1}
ASSUME RegistersAssumption == "zero" \in Registers

Word == 0 .. Width - 1
BadPlus(a, b) == a + b
Plus(a, b) == (a + b) % Width

(* The outputs of control.vhd by opcode; its cases differ otherwise in the *)
(* operation of the ALU only.  An opcode it does not know is "none".       *)
Classes == {"none", "computation", "auipc", "load", "store", "branch", "jal", "jalr", "system"}
Instruction == [class : Classes, rd : Registers, rs1 : Registers, rs2 : Registers, imm : Word]

RegWrite(i) == i.class \in {"computation", "auipc", "load", "jal", "jalr"}
RegToMem(i) == i.class = "store"
MemToReg(i) == i.class = "load"

I(class, rd, rs1, rs2, imm) == [class |-> class, rd |-> rd, rs1 |-> rs1, rs2 |-> rs2, imm |-> imm]

None == [class |-> "none", rd |-> "zero", rs1 |-> "zero", rs2 |-> "zero", imm |-> 0]

(* The register file: zero is never written. *)
Put(registers, rd, value) == IF rd = "zero" THEN registers ELSE [registers EXCEPT ![rd] = value]
=============================================================================
