CONSTANTS
  Threads = {t1, t2}
  Headers = {a, b}
  Null = Null
SPECIFICATION Spec
INVARIANT
  ConstructedSurvives
CHECK_DEADLOCK FALSE
