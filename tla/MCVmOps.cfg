CONSTANTS
  Bits = 1
  MemSize = 16
  Code <- OpsCode
  MaxSteps = 3
  HostPointers <- NoPointers
  FloatValues = {200}
  InitRegs <- OpsRegs
  InitMems <- OpsMems
SPECIFICATION Spec
CHECK_DEADLOCK FALSE
INVARIANTS
  TypeOK
  ZeroFlag
PROPERTIES
  Frame
  NarrowExact
  CompareThenBranch
