SPECIFICATION FairSpec
CONSTANTS
  dmatest = dmatest
  rrcmd = rrcmd
  rrself = rrself
  Procs <- MCProcs
  Cards <- MCCards
  NoCard = NoCard
  Unused = Unused
  Default = "gn4124"
  MaxDepth = 2
  BufPages = 3
  PlistLen = 3
  DmaTest = dmatest
  RrCmd = rrcmd
  RrSelf = rrself
  Addresses <- MCAddresses
  MaxRuns = 1
  MaxForeign = 1
INVARIANTS DmaTestSound LineRecoverable
PROPERTIES DmaTestEnds CardKept
CHECK_DEADLOCK FALSE
