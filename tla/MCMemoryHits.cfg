SPECIFICATION Spec
CONSTANTS
  NumChunks = 2
  Titles = {t1}
  Links <- NoLinks
  Renderings = {r1}
  Complex = {}
  Workers = 1
  Defects <- AnyDefect
  MaxRepairs = 0
  MaxRounds = 1
  ReviewModel = "none"
  MaxReviews = 1
  MaxRuns = 2
  NoRendering = NoRendering
  t1 = t1
  t2 = t2
  r1 = r1  r2 = r2
INVARIANTS
  HitsAreValid
\* A run may end, and no run follows the last one.
CHECK_DEADLOCK FALSE
