CONSTANTS
  Fixtures = {f1, f2}
  Starts <- MCStarts
  Boots <- MCBoots
  Horizon = 104
  MaxGoals = 2
  MaxFailures = 1
  MaxCrossings = 1
SPECIFICATION SportsSpec
SYMMETRY MCSymmetry
CHECK_DEADLOCK FALSE
INVARIANTS ShownIsToday StartNoticedInTime NextIsWholeDay FinalEvents
