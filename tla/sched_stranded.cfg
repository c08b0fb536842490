SPECIFICATION StaticSpec
CONSTANTS
  t1 = t1
  t2 = t2
  c1 = c1
  c2 = c2
  None = None
  Tasks <- TwoTasks
  Cpus <- TwoCpus
  PriorityNum = 2
  CriticalPrio = 1
  KindNum = 2
  KindOf <- Hybrid
  FastToSlow <- FastFirst
  DefaultSlice = 1
  Settings <- KindSettings
  Affinities <- Anywhere
  StorageFails = FALSE
INVARIANT NoStallWithoutHog
