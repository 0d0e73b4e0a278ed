SPECIFICATION CollectiveSpec
CONSTANTS
  Groups = {1, 2}
  Warps = 2
  Lanes = 2
  Programs <- AcrossWarps
  WorkspaceSize = 2
INVARIANT ResultsRight
CHECK_DEADLOCK FALSE
