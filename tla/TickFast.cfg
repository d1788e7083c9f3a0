\* Handlers shorter than a period, with system calls.
SPECIFICATION FairSpec
CONSTANTS
  CTC = 27
  Prescale = 2
  Length <- MCLength
  HandlerLengths = {3, 8, 14}
  Switches = {TRUE}
  Syscalls = TRUE
  Bits = 4
  MaxDepth = 3
  Cap = 4
INVARIANTS
  IrqTypeOK
  NoTickLost
  ExceptionIsEcall
PROPERTIES
  InterruptsTasks
  TicksHandled
