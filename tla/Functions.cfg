CONSTANTS
  M = 6
  W = 8
  B = 3
  MaxLen = 4
  None <- NoValue
  MaxNumber = 25
  MaxDrift = 30
SPECIFICATION MCSpec
INVARIANTS
  DifferencesMeasure
  SortsInWindow
  WidthIsModulus
  AcceptsWhatWasSent
  DetectsLoss
  SortsBlocks
  FollowsSender
  UnwrappersAgree
