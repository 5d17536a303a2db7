CONSTANTS
  Header = 2
  Word = 2
  MinBlock = 2
  Overhead = 3
  Attachable <- MCBuffers
  Sizes = {1, 5}
  Packed = {FALSE}
  MayFail = FALSE
  MaxSends = 5
  MaxAttach = 2
SPECIFICATION Spec
CHECK_DEADLOCK FALSE
INVARIANTS
  Segments
  SendsWhole
