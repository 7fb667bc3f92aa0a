SPECIFICATION Spec
CONSTANTS
  NumChunks = 3
  Titles = {t1}
  Links <- LastPlain
  Renderings = {r1, r2}
  Complex <- LastChunk
  Workers = 2
  Defects <- Mixed
  MaxRepairs = 1
  MaxRounds = 1
  ReviewModel = "main"
  MaxReviews = 1
  MaxRuns = 2
  NoRendering = NoRendering
  t1 = t1
  t2 = t2
  r1 = r1  r2 = r2
SYMMETRY RenderingSymmetry
INVARIANTS
  TypeOK
  LaterChunksAreTold
  FactsStayTrue
  EstablishedIsAccepted
  ProgressPersisted
  TranslationsCachedValid
  ReplayIsFree
\* A run may end, and no run follows the last one.
CHECK_DEADLOCK FALSE
