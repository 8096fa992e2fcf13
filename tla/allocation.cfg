SPECIFICATION Spec
CONSTANTS
  N = 3
  MaxRating = 6
INVARIANTS NothingLeftOver SharesAddUp ProportionsKept
CHECK_DEADLOCK FALSE
