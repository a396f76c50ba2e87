CONSTANTS
  MaxRead = 8
  LenSpan = 8
  CarrierSpan = 16
  LowSpan = 8
  ToWbFull = 2
  ToWbSize = 4
  WrCntSpan = 8
  RdyLag = 1
  WriteDepth = 2
  ReadJobs <- MixedReads
  MaxReadJobs = 2
  HostEnv = {"cpln", "abort"}
SPECIFICATION FairSpec
INVARIANTS
  CarrierExact
  DoneComplete
  ItemExact
  NoOverflow
  BusHeld
PROPERTIES
  JobEnds
  Landed
