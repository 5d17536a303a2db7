SPECIFICATION Spec
CONSTANTS
  p1 = p1
  p2 = p2
  Proc = {p1, p2}
  Tag = {"a"}
  UserTag = {"a"}
  Wildcard = "any"
  None = "none"
  Handle = {h1, h2, h3, h4}
  Mode = {"SEND", "SSEND", "RSEND"}
  Size = {"zero", "eager", "rndv"}
  Route <- WithSelf
  Filters <- AnyFilter
  Probing = TRUE
  Cancelling = TRUE
  FreeActive = FALSE
  MultiThreaded = FALSE
  MaxSend <- OneEach
  MaxRecv <- OneByP2
  MaxGen = 1
  MaxWire = 1
SYMMETRY HandlesAlike
INVARIANTS
  MatchingInv
  NothingDangles
  NothingLeaks
  CancelAgreed
  PartnerAlive
  RefInv
  SyncSendMatched
  RecvHasPayload
PROPERTIES
  CompletionIsFinal
CHECK_DEADLOCK FALSE
