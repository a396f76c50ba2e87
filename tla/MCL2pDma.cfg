CONSTANTS
  MaxPayload = 3
  HdrSpan = 8
  LowSpan = 8
  AddrSpan = 8
  AddrFull = 2
  DataFull = 2
  CntSpan = 8
  AddrSize = 4
  DataSize = 6
  SlaveDepth = 2
  Jobs <- MixedJobs
  MaxJobs = 2
  Env = {}
SPECIFICATION FairSpec
INVARIANTS
  HostExact
  WellFormed
  DoneComplete
PROPERTY JobEnds
