CONSTANTS
  m1 = m1
  m2 = m2
  Messages = {m1, m2}
  Matches <- MCMatches
  Barred <- MCBarred
  Burst = 1
SPECIFICATION Spec
CHECK_DEADLOCK FALSE
INVARIANTS OutcomePerCommand AnsweredOnce VerdictOfAllParts
