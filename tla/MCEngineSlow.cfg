CONSTANTS
  MaxPayload = 2
  HdrSpan = 4
  LowSpan = 16
  AddrSpan = 4
  AddrFull = 2
  DataFull = 2
  CntSpan = 8
  MaxRead = 8
  LenSpan = 8
  CarrierSpan = 4
  ToWbFull = 2
  WrCntSpan = 8
  Programs <- ApartLists
  Listing <- ApartListing
  MaxPrograms = 1
  BusDepth = 2
  Env = {"slow"}
  NoItem = NoItem
SPECIFICATION Spec
INVARIANTS
  ListExact
