------------------------------- MODULE MCCore -------------------------------
(***************************************************************************)
(* Programs for Core: every sequence of three instructions of a menu, then *)
(* an addition and a jump back; before it the store that enables           *)
(* interrupts, behind it _isr.  Two words elsewhere have an addition, too. *)
(***************************************************************************)
EXTENDS Core, Sequences

CONSTANT Menu       \* names of the instructions the program may have

Last == Vector - 1
DATA == 29
FAR == 30
EDGE == 28          \* the word before External

Instructions ==
    [inc    |-> I("computation", "a0", "a0", "zero", 16),
     load   |-> I("load", "a0", "zero", "zero", DATA),
     store  |-> I("store", "zero", "zero", "a0", DATA),
     branch |-> I("branch", "zero", "a0", "zero", 2),
     jal    |-> I("jal", "zero", "zero", "zero", 2),
     jalr   |-> I("jalr", "a0", "zero", "zero", Last - 1),
     far    |-> I("jalr", "zero", "zero", "zero", FAR),
     edge   |-> I("jalr", "zero", "zero", "zero", EDGE),
     auipc  |-> I("auipc", "a0", "zero", "zero", 16),
     ecall  |-> I("system", "zero", "zero", "zero", 0),
     di     |-> I("store", "zero", "zero", "zero", STATUS)]

StartUp ==
    <<I("computation", "s11", "zero", "zero", 1),
      I("store", "zero", "zero", "s11", STATUS)>>

MCPrograms == [First .. Last - 2 -> Menu]

Back == I("jal", "zero", "zero", "zero", Width - (Last - First))

MCCode(p, a) ==
    CASE a < First -> StartUp[a + 1]
      [] a \in First .. Last - 2 -> Instructions[p[a]]
      [] a = Last - 1 -> Instructions["inc"]
      [] a = Last -> Back
      [] a \in {EDGE, FAR} -> Instructions["inc"]
      [] a \in Vector .. Vector + Len(Isr) - 1 -> Isr[a - Vector + 1]
      [] OTHER -> None

(* What the theorems ask of software, but for the system calls of one run. *)
ASSUME SoftwareAssumption == ("ecall" \notin Menu => Software) /\ Serves
=============================================================================
