SPECIFICATION Spec
CONSTANTS
  p1 = p1
  p2 = p2
  p3 = p3
  b200 = b200
  b300 = b300
  Procs = {p1, p2, p3}
  NumScheds = 3
  TuningKeys = {16, 32}
  Envs = {b200, b300}
  EnvsOf <- OneEnv
  CannotBuild = {1}
  MayFail = {}
  MayAbort = {}
  MayRelabel = FALSE
  None = None
  Absent = Absent
  TornFile = TornFile
  MaxCalls = 2
  MaxCrashes = 1
INVARIANTS TypeOK TuningExclusive ServedAgree IndexMeansSchedule NothingForgotten
PROPERTY ImplementsChoice
SYMMETRY Interchangeable
CHECK_DEADLOCK FALSE
