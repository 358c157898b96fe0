CONSTANTS
  c1 = c1
  c2 = c2
  i1 = i1
  Conn = {c1, c2}
  Inv = {i1, i2}
  Callers <- Pairs
  Executor <- ToSecond
  Engine = Engine
  Cap = 1
SPECIFICATION FairSpec
INVARIANTS NoOrphan CallerGone TrackedIsOwed PendingIsOpen
PROPERTY EveryCallEnds
CHECK_DEADLOCK FALSE
