CONSTANTS
  Bits = 1
  MemSize = 16
  Code <- SubCode
  MaxSteps = 2
  HostPointers <- NoPointers
  FloatValues = {200}
  InitRegs <- DocRegs
  InitMems <- StackMems
SPECIFICATION Spec
CHECK_DEADLOCK FALSE
PROPERTIES
  SubtractsFirst
