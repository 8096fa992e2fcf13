SPECIFICATION FairSpec
CONSTANTS
  Second = 2
  Units = {1, 2}
  Jobs = {j1, j2}
  Executors = {e1}
  NoOne = NoOne
  MaxAttempts = 2
  LeaseTicks = 4
  BackoffTicks = 1
  MaxBackoff = 2
  Batch = 1
  MaxClaimDelay = 1
  MaxStall = 2
  MaxFaults = 2
PROPERTY EveryJobSettles
