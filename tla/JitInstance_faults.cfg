SPECIFICATION FairSpec
CONSTANTS
  p1 = p1
  p2 = p2
  p3 = p3
  b200 = b200
  b300 = b300
  Procs = {p1, p2}
  NumScheds = 2
  TuningKeys = {16, 32}
  Envs = {b200, b300}
  EnvsOf <- Switching
  CannotBuild = {}
  MayFail = {1}
  MayAbort = {2}
  MayRelabel = FALSE
  None = None
  Absent = Absent
  TornFile = TornFile
  MaxCalls = 2
  MaxCrashes = 1
INVARIANT EnvHonest
PROPERTY CallsEnd
CHECK_DEADLOCK FALSE
