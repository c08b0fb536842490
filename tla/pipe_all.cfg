SPECIFICATION FairSpec
CONSTANTS
  p1 = p1
  own = own
  s1 = s1
  s2 = s2
  Own = own
  Seed = Seed
  None = None
  Default = Default
  Tids <- TwoTids
  Settings <- TwoSettings
  RingSize = 2
  MinEvents = 2
  MaxEvents <- ThreeAndTwo
  MaxGen = 2
INVARIANTS EventsConserved SettingEarned
PROPERTIES ImplementsLog CycleClassifiesAll EveryResultUsed ExitClearsTarget
