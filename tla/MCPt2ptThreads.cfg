SPECIFICATION Spec
CONSTANTS
  p1 = p1
  p2 = p2
  Proc = {p1, p2}
  Tag = {"a"}
  UserTag = {"a"}
  Wildcard = "any"
  None = "none"
  Handle = {h1}
  Mode = {"SSEND"}
  Size = {"eager"}
  Route <- OneWay
  Filters <- AnyFilter
  Probing = FALSE
  Cancelling = FALSE
  FreeActive = FALSE
  MultiThreaded = TRUE
  MaxSend <- OneByP1
  MaxRecv <- OneByP2
  MaxGen = 1
  MaxWire = 1
SYMMETRY HandlesAlike
INVARIANTS
  NothingDangles
CHECK_DEADLOCK FALSE
