SPECIFICATION GroupSpec
CONSTANTS
  WarpSize = 2
  NumThreads = 8
  HasElect = TRUE
  MaxNamed = 2
  GroupSizes = {1, 2, 3, 4, 6, 8}
  GroupBegins = {0, 1, 2, 4, 6}
  Straddles = TRUE
  ElectsWarps = FALSE
  ElectsOffWarp = FALSE
  MaxDepth = 3
  MaxRanges = 1
INVARIANT FixedInPlace
