SPECIFICATION Spec
CONSTANTS
  Puts = {w1, w2}
  Old = Old
  NoFile = NoFile
  AtOnce = 2
INVARIANT TargetWhole
CHECK_DEADLOCK FALSE
