CONSTANTS
  BarSpan = 2
  WbmFull = 2
  WbmSize = 5
  WbmRdyLag = 1
  MaxPackets = 3
  MaxReads = 2
  Packets <- MCPackets
SPECIFICATION FairSpec
INVARIANTS
  TypeOK
  NoOverflow
PROPERTIES
  AnswersExact
  ReadsAnswered
  WritesLand
