CONSTANTS
  Plans <- SafePlans
  None = none
SPECIFICATION Spec
CHECK_DEADLOCK FALSE
INVARIANTS
  Inv
  OneWriter
  OneConnection
  CloseInOrder
PROPERTIES
  ChannelSpec
  FinalizeReturns
