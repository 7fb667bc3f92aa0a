SPECIFICATION QueueSpec
CONSTANTS
  Machines = {m1, m2}
  Lines = {l1, l2}
  MaxArticles = 2
  MaxSpend = 1
SYMMETRY Alike
INVARIANTS
  DoneMeansSaved
  SpendAccounted
CHECK_DEADLOCK FALSE
