SPECIFICATION SearchSpec
CONSTANTS
  Lengths <- MCLengths
  Sizes <- MCSizes
  Overlaps <- MCOverlaps
  ChunkLimits <- MCChunkLimits
  OutputLimits <- MCOutputLimits
  TermLengths <- MCTermLengths
  Options <- MCOptions
  Permissions <- MCPermissions
  Scores <- MCScores
  MaxVersion = 2
CHECK_DEADLOCK FALSE
INVARIANTS
  LimitsAreExact
  ChunksTile
  SearchIsExact
  TermIsFound
