\* Programs of three instructions without system calls, interrupts at any time;
\* "far" jumps into the external memory, "edge" to the word before it.
SPECIFICATION FairSpec
CONSTANTS
  Width = 32
  Registers = {"zero", "a0", "s10", "s11"}
  Visible = {"zero", "a0"}
  Programs <- MCPrograms
  Code <- MCCode
  First = 2
  Vector = 7
  STATUS = 27
  EPC = 26
  FRAME = 25
  External = {29, 30}
  Cells = {25, 29, 30}
  Menu = {"inc", "load", "store", "branch", "jal", "jalr", "far", "edge", "auipc"}
INVARIANTS
  CoreTypeOK
  InstructionAddressed
  ServiceUninterrupted
  EpcExact
PROPERTIES
  ImplementsMachine
  ImplementsUser
  RequestTaken
