SPECIFICATION CompilerSpec
CONSTANTS
  Extent = 8
  Literals <- MCLiterals
  Multiples <- MCMultiples
  Swizzles <- MCSwizzles
  MaxVisits = 5
  MaxDepth = 2
  MaxValue = 64
  NoValue = NoValue
  BitXor <- MCBitXor
  Functions <- MCFunctions
  Parameters <- MCParameters
  UPDATE_COUNT_LIMIT = 2
  MaxBound = 20000
  MaxScalar = 5
  NoBound = NoBound
  Shapes <- MCShapes
  Workers = {2}
  MaxSize = 8
  MaxThreads = 4
  MaxRank = 2
  MaxModes = 3
  SharedShapes <- MCSharedShapes
  Swizzled <- MCSwizzled
  MaxElements = 12
  MaxDims = 2
  MaxStorage = 16
  VariableNames <- MCVariableNames
  TensorNames <- MCTensorNames
  Sources <- MCSources
  Params <- MCParams
  LoadOut = FALSE
  Nil = Nil
  t1 = t1
  t2 = t2
  t3 = t3
  Tensors = {t1, t2, t3}
  BarrierTensor = BarrierTensor
  Sizes = {1, 2, 3}
  Alignments = {2, 4}
  MinAlign = 2
  Top = 10
  BarrierBytes = 1
  MaxBarriers = 1
  Limit = 10
  MayBridge = FALSE
  None = None
INVARIANTS
  ClaimsHold ValuesInSets LayoutIsRight LayoutOperationsRight PassesKeepEffects
  TypeOK LiveApart FreeListExact FreeNeverFails ArenaHolds
PROPERTIES ImplementsArena ScalarAnalysisEnds
CHECK_DEADLOCK FALSE
