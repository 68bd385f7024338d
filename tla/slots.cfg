SPECIFICATION Spec
CONSTANTS
  Tasks = {t1, t2}
  NoTask = NoTask
  MaxAttempts = 1
  MaxConcurrent = 1
  ReworkCap = 1
  InfraCap = 1
  FreeConflicts = 0
  PushAttempts = 1
  CounterTop = 3
  MaxOps = 3
SYMMETRY Symmetry
INVARIANT TypeOK
INVARIANT SlotBound
INVARIANT SlotsReserved
PROPERTY ClosedStays
