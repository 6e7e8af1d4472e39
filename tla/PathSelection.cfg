SPECIFICATION Spec
CONSTANTS
  Paths = {"bb", "mpls"}
  PathOrder <- MCPathOrder
  BadSamples = 2
  GoodSamples = 2
  HoldDownTime = 1
  MinImprovement = 15
  Scores = {0, 10}
  FailClosed = FALSE
  RealTime = TRUE
  StaticPath = "mpls"
INVARIANT PathInv
PROPERTIES
  SwitchesForCause
  SelectionConverges
  FileFollowsDecision
