SPECIFICATION MCSpec
CONSTANTS
  p1 = p1
  p2 = p2
  None = None
  Procs <- TwoProcs
  N = 2
  Stmts = 2
  MaxVersion = 1
  Backfill = {2}
  Destructive = {2}
  Modes <- Sound
  Tables = {a}
  MaxFiles = 3
  Broken = Broken
INVARIANTS TrackingTrue InOrder HistoryReplays SnapshotTells
PROPERTIES MismatchIsEdit CommandsEnd
