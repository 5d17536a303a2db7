SPECIFICATION Spec
CONSTANTS
  p1 = p1
  p2 = p2
  Proc = {p1, p2}
  Tag = {"a"}
  UserTag = {"a"}
  Wildcard = "any"
  None = "none"
  Handle = {h1, h2}
  Mode = {"SEND"}
  Size = {"eager"}
  Route <- ToSelf
  Filters <- AnyFilter
  Probing = FALSE
  Cancelling = FALSE
  FreeActive = TRUE
  MultiThreaded = FALSE
  MaxSend <- OneByP2
  MaxRecv <- OneByP2
  MaxGen = 1
  MaxWire = 1
SYMMETRY HandlesAlike
INVARIANTS
  PartnerAlive
CHECK_DEADLOCK FALSE
