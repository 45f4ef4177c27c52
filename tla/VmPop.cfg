CONSTANTS
  Bits = 1
  MemSize = 16
  Code <- PopCode
  MaxSteps = 2
  HostPointers <- NoPointers
  FloatValues = {200}
  InitRegs <- DocRegs
  InitMems <- StackMems
SPECIFICATION FairSpec
CHECK_DEADLOCK FALSE
PROPERTIES
  PopCompletes
