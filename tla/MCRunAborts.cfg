SPECIFICATION Spec
CONSTANTS
  c1 = c1  c2 = c2  c3 = c3  s1 = s1  s2 = s2
  NumArticles = 2
  Chunks = {c1, c2}
  ArticleOf <- OneOne
  ComplexChunks = {}
  ComplexEngine = "primary"
  Slots = {s1}
  NoSlot = NoSlot
  NoTask = NoTask
  Sequential = TRUE
  Interactive = TRUE
  HasTarget = TRUE
  Usage <- Normal
  MaxRatio = 0
  MaxTokens = 0
INVARIANT OthersUnaffected
CHECK_DEADLOCK FALSE
