SPECIFICATION FairSpec
CONSTANTS
  p1 = p1
  p2 = p2
  p3 = p3
  prog1 = prog1
  prog2 = prog2
  sm90 = sm90
  sm100 = sm100
  dir1 = dir1
  dir2 = dir2
  Procs = {p1, p2, p3}
  Progs = {prog1}
  Targets = {sm90, sm100}
  Dirs = {dir1, dir2}
  Digest <- KeyedDigest
  TargetsOf <- SplitTargets
  NoFile = NoFile
  Empty = Empty
  Torn = Torn
  None = None
  MaxCalls = 1
  MaxCrashes = 1
INVARIANTS TypeOK BuildExclusion OwnLibrary
PROPERTIES LibraryStable WarmHit CallsReturn
CHECK_DEADLOCK FALSE
