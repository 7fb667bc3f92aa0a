SPECIFICATION Spec
CONSTANTS
  a1 = a1  a2 = a2  c1 = c1  c2 = c2
  Articles = {a1, a2}
  Chunks <- TwoAndOne
  Flaws <- Mixed
  MaxRounds = 1
  MaxReviewRounds = 1
  MaxRuns = 2
  Missing = Missing
  Torn = Torn
INVARIANT FixesAlwaysRun
CHECK_DEADLOCK FALSE
