SPECIFICATION Spec
CONSTANTS
  Second = 2
  Units = {1, 2}
  s1 = s1
  c1 = c1
  c2 = c2
  Sites = {s1}
  Clusters = {c1, c2}
  Plans = {p1}
  Users = {u1, u2}
  Requests = {r1}
  NoUser = NoUser
  NoSite = NoSite
  Home <- MCHome
  Rated <- MCRated
  GridLimit <- MCGridLimit
  Inputs <- MCInputs
  Socs = {"low", "within", "high"}
  MaxSiteVersion = 2
PROPERTIES EligibleWhenReserved
