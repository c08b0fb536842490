SPECIFICATION SessionSpec
CONSTANTS
  m1 = m1
  m2 = m2
  file1 = file1
  None = None
  Garbage = Garbage
  Cpus = {0, 1, 2}
  Byte = 256
  MaxCpu = 512
  Sessions <- SomeSessions
  Models <- TwoModels
  Files <- OneFile
  MaxClusters = 2
  OldConfigs <- SomeConfigs
  Edits <- SomeEdits
  Floor = 1
  LowestPrio = 11
  CpuCount = 2
  Tids = {1, 2}
  Worlds <- ThreeWorlds
INVARIANTS InForceAsShown TwoScansAgree
PROPERTIES EditsKept SavedIsShown RowsTrue BarsTrue ImplementsEnforcement
CHECK_DEADLOCK FALSE
