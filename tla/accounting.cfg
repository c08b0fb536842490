\* The times of one thread, from the callbacks to the statistics.
SPECIFICATION Spec
CONSTANTS
  Boot = 2
  MaxClock = 8
  Steps = {1, 3}
  Grain = 2
  MaxSleep = 1
  Cores = {"fast", "slow"}
  Freq <- TwoFreqs
  RUNTIME_MAX_TIME = 2
  MIN_SEND_INTERVAL = 2
  RingSize = 2
  MaxFutex = 1
INVARIANT TimesConserved
CHECK_DEADLOCK FALSE
