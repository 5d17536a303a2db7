CONSTANTS
  p1 = p1
  p2 = p2
  p3 = p3
  None = none
  Proc = {p1, p2, p3}
  Plans <- SafePlans
SPECIFICATION Spec
CHECK_DEADLOCK FALSE
INVARIANTS
  TypeOK
  HoldersExclude
  InvOps
  BelieverHolds
  CompletedApplied
  CountsAgree
  NobodyStuck
PROPERTIES
  NoConflictingAccess

