CONSTANTS
  U32 = 64
  Names <- MCNames
  Longer <- MCLonger
  Sizes = {0, 3}
  Header = 10
  MaxPos = 26
SPECIFICATION Spec
CHECK_DEADLOCK FALSE
INVARIANT AllResolved
