CONSTANTS
  a0 = a0
  a1 = a1
  Addr = {a0, a1}
  NullAddr = a0
  Lens = {0, 2}
  ItemLen = 7
  Items <- MCItems
  NoItem = NoItem
SPECIFICATION Spec
INVARIANTS
  TypeOK
  StatusTruthful
  StartDiscipline
PROPERTIES
  PulsesOneTick
  JobRefined
