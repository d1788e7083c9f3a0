\* Handlers longer than a period, that switch tasks or return: interrupts
\* within longjmp, until MaxDepth.
SPECIFICATION Spec
CONSTANTS
  CTC = 9
  Prescale = 2
  Length <- MCLength
  HandlerLengths = {4, 10, 11, 12, 13, 14, 22}
  Switches = {TRUE, FALSE}
  Syscalls = TRUE
  Bits = 4
  MaxDepth = 3
  Cap = 4
CHECK_DEADLOCK FALSE
INVARIANTS
  TickParity
PROPERTIES
  LeaveAtomic
