SPECIFICATION Spec
CONSTANTS
  p1 = p1
  p2 = p2
  c1 = c1
  c2 = c2
  Producers = {p1, p2}
  Consumers = {c1, c2}
  NumStages = 3
  NumTiles = 2
  Nothing = Nothing
INVARIANT DrainComplete
CHECK_DEADLOCK FALSE
