SPECIFICATION Spec
CONSTANTS
  Second = 2
  Units = {1, 2}
  Jobs = {j1}
  Executors = {e1, e2}
  NoOne = NoOne
  MaxAttempts = 2
  LeaseTicks = 4
  BackoffTicks = 1
  MaxBackoff = 2
  Batch = 1
  MaxClaimDelay = 1
  MaxStall = 5
  MaxFaults = 2
INVARIANTS TypeOK LeaseExclusive OneRunAtATime VerdictFromDevice
PROPERTIES KeepsLedger NeverEarly
