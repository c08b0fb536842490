SPECIFICATION FairSpec
CONSTANTS
  i = i
  a = a
  b = b
  c = c
  InitPid = i
  None = None
  Pids <- ThreePids
  Worlds <- PlainOnly
  MaxSteps = 2
PROPERTY FamilySpecialized
