SPECIFICATION Spec
CONSTANTS
  Clusters = {c1}
  Users = {u1}
  Requests = {r1}
  NoUser = NoUser
  LowSOC = 10
  HighSOC = 95
  HighTemperature = 50
  CriticalTemperature = 60
  Readings <- MCHotReadings
  MaxSequence = 2
PROPERTIES ResolvedWhenRecovered
CHECK_DEADLOCK FALSE
