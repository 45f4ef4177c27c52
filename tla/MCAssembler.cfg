CONSTANTS
  U32 = 64
  Names <- MCNames
  Longer <- MCLonger
  Sizes = {0, 3}
  Header = 10
  MaxPos = 26
SPECIFICATION FairSpec
CHECK_DEADLOCK FALSE
INVARIANTS
  TypeOK
  Resolved
  LeftOpen
  Boundaries
PROPERTIES
  WrittenOnce
  Finishes
