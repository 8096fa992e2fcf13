SPECIFICATION FairSpec
CONSTANTS
  Second = 2
  Units = {1, 2}
  Emails = {e1}
  Tokens = {t1}
  Requests = {r1, r2}
  NoTime = NoTime
  TTL = 3
  TouchInterval = 2
  KeepRevoked = 2
  MaxTime = 6
INVARIANTS LogoutIsEffective SeenWhileValid SessionsAudited
PROPERTIES RevocationIsFinal CleanupSparesLive SessionsGoAway
