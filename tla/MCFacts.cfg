SPECIFICATION Spec
CONSTANTS
  a1 = a1  a2 = a2  low = low  t = t  box = box
  Articles = {a1, a2}
  Links <- LinksOf
  Templates <- TemplatesOf
  Infoboxes = {box}
  Canonical <- CanonicalOf
  Unanswered <- Redirects
  Wikis <- FirstWikis
  BatchSize = 1
  Fetches = 2
  MaxEdits = 1
  MaxRuns = 2
INVARIANTS
  ConfirmedExists
  DeliveredIsWhole
CHECK_DEADLOCK FALSE
