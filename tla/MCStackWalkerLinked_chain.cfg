CONSTANTS
  StackStart = 8192
  CSP = 8328
  FrameAddrs = {8200, 8232, 8264, 8296}
  NULL = 0
  NIL = 11
  Headers <- MC_Headers
  CodeObjs <- MC_CodeObjs
  ReturnPcs <- MC_ReturnPcs
  Pcs <- MC_Pcs
  MAX_INTERRUPTS = 2
  NFrames = 2
SPECIFICATION Spec
CHECK_DEADLOCK FALSE
INVARIANTS TypeOK PrintsCallChain
