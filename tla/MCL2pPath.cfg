CONSTANTS
  MaxPayload = 2
  HdrSpan = 4
  LowSpan = 4
  MaxRead = 1
  LenSpan = 4
  CarrierSpan = 1
  WriteLens = {3}
  ReadLens = {2}
  FifoBound = 1
  Env = {"dry", "abort"}
SPECIFICATION FairSpec
INVARIANTS
  WordsGranted
  PacketsWhole
PROPERTY WbmServed
