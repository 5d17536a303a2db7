CONSTANT
  Calls <- MCCalls
SPECIFICATION Spec
CHECK_DEADLOCK FALSE
INVARIANTS
  TypeOK
  RightResult
  SendsIntact
  ListsFit
  NeverStuck
