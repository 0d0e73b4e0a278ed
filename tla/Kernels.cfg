SPECIFICATION KernelSpec
CONSTANTS
  WarpSize = 4
  NumThreads = 16
  HasElect = TRUE
  MaxNamed = 2
  GroupSizes = {1, 2, 4, 8, 12}
  GroupBegins = {0, 2, 8}
  Straddles = FALSE
  ElectsWarps = FALSE
  ElectsOffWarp = FALSE
  MaxDepth = 3
  MaxRanges = 3
  Grids <- MCGrids
  TileThreads = {0, 1}
  Slots = 3
  Align = 2
  MaxTiles = 3
  MaxLaunches = 2
  NoGrid = NoGrid
  Groups = {1}
  Warps = 4
  Lanes = 2
  Programs <- MCPrograms
  WorkspaceSize = 32
  p1 = p1
  p2 = p2
  c1 = c1
  c2 = c2
  Producers = {p1, p2}
  Consumers = {c1, c2}
  NumStages = 3
  NumTiles = 7
  Nothing = Nothing
INVARIANTS
  ExactlyItsThreads WholeWarpsShuffle SyncComplete BarriersSeparate
  TilesComplete WorkspaceRestored ResultsRight
  ReadsItsTile StageExclusive PhaseNotAliased DrainComplete
PROPERTIES SplitEnds ImplementsRing PipelineEnds
CHECK_DEADLOCK FALSE
