SPECIFICATION Spec
CONSTANTS
  p1 = p1
  p2 = p2
  p3 = p3
  prog1 = prog1
  prog2 = prog2
  sm90 = sm90
  sm100 = sm100
  dir1 = dir1
  dir2 = dir2
  Procs = {p1, p2}
  Progs = {prog1}
  Targets = {sm90, sm100}
  Dirs = {dir1, dir2}
  Digest <- KeyedDigest
  TargetsOf <- SameTarget
  NoFile = NoFile
  Empty = Empty
  Torn = Torn
  None = None
  MaxCalls = 1
  MaxCrashes = 1
INVARIANT CompilersExclude
CHECK_DEADLOCK FALSE
