\* One tab, three changes, pages of two, two faults.
SPECIFICATION FairSpec
CONSTANTS
  Tabs = {t1}
  NoCursor = nocursor
  PageLimit = 2
  MaxSeq = 3
  MaxFaults = 2
INVARIANTS
  NoLostWakeup
  PipeIsExact
  ResyncOnlyWhenPruned
PROPERTIES
  ImplementsReplay
  EventuallyTold
\* Changes are bounded, and the model stops when all of them are told.
CHECK_DEADLOCK FALSE
