SPECIFICATION Spec
CONSTANTS
  p1 = p1
  p2 = p2
  Proc = {p1, p2}
  Tag = {"a", "b"}
  UserTag = {"a"}
  Wildcard = "any"
  None = "none"
  Handle = {h1, h2}
  Mode = {"SEND"}
  Size = {"eager", "rndv"}
  Route <- OneWay
  Filters <- MixedFilters
  Probing = TRUE
  Cancelling = FALSE
  FreeActive = TRUE
  MultiThreaded = FALSE
  MaxSend <- TwoByP1
  MaxRecv <- TwoByP2
  MaxGen = 2
  MaxWire = 1
SYMMETRY HandlesAlike
INVARIANTS
  TypeOK
  NoMissedMatch
  RefInv
  SyncSendMatched
  RecvHasPayload
PROPERTIES
  MatchingSpec
CHECK_DEADLOCK FALSE
