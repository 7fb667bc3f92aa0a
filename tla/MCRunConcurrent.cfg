SPECIFICATION Spec
CONSTANTS
  c1 = c1  c2 = c2  c3 = c3  s1 = s1  s2 = s2
  NumArticles = 2
  Chunks = {c1, c2, c3}
  ArticleOf <- TwoOne
  ComplexChunks = {c2}
  ComplexEngine = "complex"
  Slots = {s1, s2}
  NoSlot = NoSlot
  NoTask = NoTask
  Sequential = FALSE
  Interactive = FALSE
  HasTarget = TRUE
  Usage <- NormalAndRunaway
  MaxRatio = 2
  MaxTokens = 4
SYMMETRY SlotSymmetry
INVARIANTS
  TypeOK
  SlotsConserved
  OneSwitch
  AssembledIsComplete
  TimedOutIsQuiet
  WithinLimits
  CreditsExcuse
PROPERTIES
  OutcomesFinal
  Implements
CHECK_DEADLOCK FALSE
