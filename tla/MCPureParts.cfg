SPECIFICATION Spec
CONSTANTS
  MaxLen <- Lengths
  ChunkMin = 3
  ChunkMax = 5
  MinTableRows = 2
  RefDensity = 1
  TemplateDensity = 1
  PerTokens = 2
  MaxUrlFetches = 1
  Shows <- TitleShows
  Declares <- PageDeclares
  Unset = Unset
  TruncationMin = 3
  DefaultModel = "auto"
INVARIANTS
  ChunkingIsLossless
  JoiningIsFaithful
  FindingsAreRouted
  CitationsAreFixed
  TablesJudgedRight
  TiersHaveEngines
  RepliesAreJudged
CHECK_DEADLOCK FALSE
