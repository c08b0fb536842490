SPECIFICATION Spec
CONSTANTS
  p1 = p1
  own = own
  s1 = s1
  s2 = s2
  Own = own
  Seed = Seed
  None = None
  Default = Default
  Tids <- TwoTids
  Settings <- OneSetting
  RingSize = 1
  MinEvents = 1
  MaxEvents <- OneEvent
  MaxGen = 1
INVARIANT TargetDeathSignalled
