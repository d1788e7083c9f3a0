\* Programs with system calls: _isr is interrupted before it has left.
SPECIFICATION Spec
CONSTANTS
  Width = 32
  Registers = {"zero", "a0", "s10", "s11"}
  Visible = {"zero", "a0"}
  Programs <- MCPrograms
  Code <- MCCode
  First = 2
  Vector = 7
  STATUS = 27
  EPC = 26
  FRAME = 25
  External = {29, 30}
  Cells = {25, 29, 30}
  Menu = {"inc", "ecall"}
INVARIANT
  ServiceUninterrupted
