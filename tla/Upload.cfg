\* Three bytes of two bits; a bit of the host lasts 8, 9 or 10 cycles, one of the SoC 9.
SPECIFICATION FairSpec
CONSTANTS
  Bits = 2
  Filter = 3
  Divisor = 8
  HostDivisors = {7, 8, 9}
  Latency = 3
  MaxGap = 2
  Timeout = 24
  Echo = 2
  Total = 3
INVARIANTS
  UploadTypeOK
  PutcharAccepted
  GetcharFinds
PROPERTIES
  ImplementsLink
  UploadComplete
