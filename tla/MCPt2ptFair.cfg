SPECIFICATION FairSpec
CONSTANTS
  p1 = p1
  p2 = p2
  Proc = {p1, p2}
  Tag = {"a"}
  UserTag = {"a"}
  Wildcard = "any"
  None = "none"
  Handle = {h1, h2, h3}
  Mode = {"SSEND"}
  Size = {"eager", "rndv"}
  Route <- OneWay
  Filters <- AnyFilter
  Probing = FALSE
  Cancelling = TRUE
  FreeActive = FALSE
  MultiThreaded = FALSE
  MaxSend <- TwoByP1
  MaxRecv <- OneByP2
  MaxGen = 1
  MaxWire = 1
PROPERTIES
  MatchCompletes
  MatchDelivers
  CancelSettles
CHECK_DEADLOCK FALSE
