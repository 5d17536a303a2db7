SPECIFICATION Spec
CONSTANTS
  p1 = p1
  p2 = p2
  Proc = {p1, p2}
  Tag = {"a"}
  UserTag = {"a"}
  Wildcard = "any"
  None = "none"
  Handle = {h1, h2}
  Mode = {"SEND"}
  Size = {"eager"}
  Route <- OneWay
  Filters <- AnyFilter
  Probing = FALSE
  Cancelling = TRUE
  FreeActive = FALSE
  MultiThreaded = FALSE
  MaxSend <- TwoByP1
  MaxRecv <- OneByP2
  MaxGen = 2
  MaxWire = 1
SYMMETRY HandlesAlike
INVARIANTS
  CancelAgreed
CHECK_DEADLOCK FALSE
