SPECIFICATION FairSpec
CONSTANTS
  one = one
  other = other
  MaxRuns = 2
  LastSecond = 2
  Edits = {one}
  TargetEdits = {other}
  NoTable = NoTable
  NoFile = NoFile
INVARIANTS LaunchedAsEdited TrainedOnWhole RowsOfLiveRun
PROPERTIES CollectedDataKept StoppedRunFlushes
CHECK_DEADLOCK FALSE
