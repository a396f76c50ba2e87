CONSTANTS
  MaxRead = 8
  LenSpan = 8
  CarrierSpan = 16
  LowSpan = 8
  ToWbFull = 2
  ToWbSize = 4
  WrCntSpan = 8
  RdyLag = 1
  WriteDepth = 2
  ReadJobs <- LongRead
  MaxReadJobs = 2
  HostEnv = {}
SPECIFICATION Spec
INVARIANT CarrierExact
