SPECIFICATION Spec
CONSTANTS
  Second = 2
  Units = {1, 2}
  a1 = a1
  a2 = a2
  p1 = p1
  p2 = p2
  Plans = {a1, a2}
  Periods = {p1, p2}
  PlanWindow <- MCPlans
  PeriodWindow <- MCPeriods
  Users = {u1, u2}
  Requests = {r1, r2}
  NoUser = NoUser
  Deltas <- MCDeltas
  MaxEnergy = 1
  MaxTime = 9
SYMMETRY Symmetric
INVARIANTS ClosedOnce EntriesBelong
PROPERTIES SettledIsFinal NobodyForgotten
