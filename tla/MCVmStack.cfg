CONSTANTS
  Bits = 1
  MemSize = 16
  Code <- StackCode
  MaxSteps = 6
  HostPointers <- NoPointers
  FloatValues = {200}
  InitRegs <- StackRegs
  InitMems <- StackMems
SPECIFICATION Spec
CHECK_DEADLOCK FALSE
PROPERTIES
  StackSpec
