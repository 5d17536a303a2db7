CONSTANTS
  p1 = p1
  p2 = p2
  p3 = p3
  None = none
  Proc = {p1, p2, p3}
  Plans <- MixedPlans
SPECIFICATION FairSpec
CHECK_DEADLOCK FALSE
PROPERTIES
  CallsReturn
