CONSTANTS
  StackStart = 8192
  ControlStackSize = 40
  WalkerSP = 8196
  StartFP = 8200
  RetAddrs = {4124, 4136, 9000}
  Garbage = {0, 5000}
  MaxFrames = 4
  NFrames = 2
  FreeBSD = FALSE
  CodeAddr = 4096
  HeaderWords = 6
  CodeSize = 24
  MaxFunctions = 2
  Offsets = {0, 4}
  ElsewhereOffsets = {12, 16}
  NULL = NULL
SPECIFICATION Spec
CHECK_DEADLOCK FALSE
INVARIANTS TypeOK BacktraceFindsCallChain
