SPECIFICATION FairSpec
CONSTANTS
  Base = 16
  RomSize = 16
  PageSize = 8
  FifoSize = 8
  PollMax = 2
  Burst = 6
  Junk = 9
  MaxCommands = 3
  MaxFaults = 1
  ScreenRecs = 2
  FileRecs = 4
  RomInits <- MCRomInits
  UserFiles <- MCUserFiles
INVARIANTS ReadExact WriteExact WriteSpaced DumpRestores CompareTruth
PROPERTY CommandsEnd
CHECK_DEADLOCK FALSE
