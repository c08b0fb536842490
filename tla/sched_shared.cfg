SPECIFICATION FairSpec
CONSTANTS
  t1 = t1
  t2 = t2
  c1 = c1
  c2 = c2
  None = None
  Tasks <- TwoTasks
  Cpus <- TwoCpus
  PriorityNum = 2
  CriticalPrio = 1
  KindNum = 1
  KindOf <- Uniform
  FastToSlow <- FastFirst
  DefaultSlice = 1
  Settings <- SharedSettings
  Affinities <- AnywhereOrSlow
  StorageFails = TRUE
INVARIANT NoStallWithoutHog
PROPERTY TopPrioRuns
