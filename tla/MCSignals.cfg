SPECIFICATION FairSpec
CONSTANTS
  Thread = {main, t1}
  MAIN = main
  NONE = NONE
  PANIC = PANIC
  KillArg = {9, 33, 18, 19, 32}
  ActionArg = {1, 33}
  ActionGiven <- MainActions
  ProcMask <- MainMasks
  MaxSent <- TwiceAtMost
CHECK_DEADLOCK FALSE
INVARIANT SignalsConserved
INVARIANT SigreturnRestores
PROPERTY KilledLeaves
PROPERTY StoppedStays
PROPERTY KillEndsUnlessShadowed
PROPERTY ContinueUnlessShadowed
