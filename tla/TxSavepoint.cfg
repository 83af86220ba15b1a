SPECIFICATION Spec
CONSTANTS
  t1 = t1
  t2 = t2
  r1 = r1
  r2 = r2
  Tasks <- TwoTasks
  Rows <- TwoRows
  MaxSavepoints = 3
  Modes <- AllModes
CHECK_DEADLOCK FALSE
INVARIANTS SavepointsHold
PROPERTIES ImplementsNestedTx
