SPECIFICATION FairSpec
CONSTANTS
  Second = 2
  Units = {1, 2}
  Scopes <- MCScopes
  Spelling <- MCSpelling
  Bodies = {b1, b2}
  Responses = {x1, x2}
  Records = {k1, k2}
  Requests = {r1, r2}
  TTL = 2
  MaxTime = 4
INVARIANTS ReplaysAreAnswers
PROPERTIES OneExecutionPerKey BeginDecides
