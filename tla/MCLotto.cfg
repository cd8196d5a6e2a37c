\* The rooms are interchangeable and all properties are safety.
CONSTANTS
  c1 = c1
  c2 = c2
  u1 = u1
  Rooms = {c1, c2}
  Users = {u1}
  RecommendLines = 2
  ManualSets = {0, 1}
  MaxPhase = 2
  MaxRequests = 3
SPECIFICATION Spec
INVARIANTS AnswersAreTrue
PROPERTIES DrawnRoundsAreClosed RecommendedOnce
SYMMETRY MCSymmetry
