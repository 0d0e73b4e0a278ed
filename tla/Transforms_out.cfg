SPECIFICATION TransformSpec
CONSTANTS
  VariableNames <- MCVariableNames
  TensorNames <- MCTensorNames
  Sources <- MCSources
  Params <- MCParams
  LoadOut = TRUE
  Nil = Nil
INVARIANT PassesKeepEffects
CHECK_DEADLOCK FALSE
