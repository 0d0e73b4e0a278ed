SPECIFICATION Spec
CONSTANTS
  t1 = t1
  t2 = t2
  t3 = t3
  Tensors = {t1, t2, t3}
  BarrierTensor = BarrierTensor
  Sizes = {1, 2, 3}
  Alignments = {2, 4}
  MinAlign = 2
  Top = 12
  BarrierBytes = 1
  MaxBarriers = 3
  Limit = 10
  MayBridge = TRUE
  None = None
INVARIANT LiveApart
CHECK_DEADLOCK FALSE
