SPECIFICATION FairSpec
CONSTANTS
  x = x
  p = p
  m = m
  n = n
  c = c
  NoPid = NoPid
  Blank = Blank
  Instances = {x}
  Procs = {p}
  Args <- AnyArgs
  Models = {m, n}
  Configs = {c}
  Usable = {m, c}
  Sets <- OneModel
  Presses = 2
INVARIANT StartupTargetKept
PROPERTIES FreshStart DisturbedOnlyByTee ScannerLeavesZero SetFollowsFiles TargetFollowsScanner
CHECK_DEADLOCK FALSE
