CONSTANTS
  MaxPayload = 2
  HdrSpan = 4
  LowSpan = 16
  AddrSpan = 4
  AddrFull = 2
  DataFull = 2
  CntSpan = 8
  MaxRead = 8
  LenSpan = 8
  CarrierSpan = 4
  ToWbFull = 2
  WrCntSpan = 8
  Programs <- MixedLists
  Listing <- MixedListing
  MaxPrograms = 2
  BusDepth = 2
  Env = {"abort", "refuse"}
  NoItem = NoItem
SPECIFICATION FairSpec
INVARIANTS
  ChainExact
  ListExact
  OwnEnd
PROPERTIES
  ListEnds
