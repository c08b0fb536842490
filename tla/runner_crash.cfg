SPECIFICATION Spec
CONSTANTS
  one = one
  other = other
  MaxRuns = 2
  LastSecond = 2
  Edits = {one}
  TargetEdits = {other}
  NoTable = NoTable
  NoFile = NoFile
INVARIANTS CheckpointSurvivesCrash
CHECK_DEADLOCK FALSE
