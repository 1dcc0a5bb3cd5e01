SPECIFICATION MCSpec
CONSTANTS
  r1 = r1
  r2 = r2
  Resources = {r1, r2}
  NoResource = NoResource
  SnapshotIsolation = TRUE
  MaxTasks = 3
  FewTasks = 2
  MaxSequence = 1
SYMMETRY Symmetry
INVARIANT OrderFollowsItsTasks
INVARIANT OwnerOfOpenWork
INVARIANT CompletedIsFinished
PROPERTY ReleasedInSequence
PROPERTY FinishedStays
PROPERTY PauseIsDeliberate
CHECK_DEADLOCK FALSE
