SPECIFICATION OrderSpec
CONSTANTS
  t1 = t1
  t2 = t2
  c1 = c1
  c2 = c2
  None = None
  Tasks <- TwoTasks
  Cpus <- TwoCpus
  PriorityNum = 2
  CriticalPrio = 1
  KindNum = 2
  KindOf <- Hybrid
  FastToSlow <- FastFirst
  DefaultSlice = 1
  Settings <- CriticalSettings
  Affinities <- AnywhereOrSlow
  StorageFails = FALSE
SYMMETRY TaskSymmetry
INVARIANTS PlacedOnce ClaimedCpuGetsTask SharedTaskAttended
PROPERTIES PlacementFits PrioritiesRespected StrandedByAffinityOnly
