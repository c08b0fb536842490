SPECIFICATION Spec
CONSTANTS
  i = i
  a = a
  b = b
  c = c
  InitPid = i
  None = None
  Pids <- FourPids
  Worlds <- SafetyWorlds
  MaxSteps = 3
INVARIANTS FamilySound FamilyComplete PanicsOnReuse
PROPERTIES ClimbAdvances FamilyKept CollectedUnderTarget
SYMMETRY PidSymmetry
CHECK_DEADLOCK FALSE
