CONSTANTS
  MaxPayload = 2
  HdrSpan = 8
  LowSpan = 8
  AddrSpan = 8
  AddrFull = 2
  DataFull = 2
  CntSpan = 8
  AddrSize = 4
  DataSize = 5
  SlaveDepth = 1
  Jobs <- HardJobs
  MaxJobs = 2
  Env = {"throttle", "throttle_last", "dry", "stall", "abort"}
SPECIFICATION Spec
INVARIANTS
  NoOverflow
  BusHeld
