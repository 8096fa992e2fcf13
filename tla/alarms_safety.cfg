SPECIFICATION Spec
CONSTANTS
  Clusters = {c1}
  Users = {u1, u2}
  Requests = {r1, r2}
  NoUser = NoUser
  LowSOC = 10
  HighSOC = 95
  HighTemperature = 50
  CriticalTemperature = 60
  Readings <- MCReadings
  MaxSequence = 3
SYMMETRY Symmetric
INVARIANTS TypeOK OneActiveAlarm NewestReadingCounts RecoveryObserved OneHandlerEach BatchTellsTruth
PROPERTIES ReadingsRaiseAlarms
CHECK_DEADLOCK FALSE
