\* Linux build (SC_EFLAGS): a signal handler that reaches a second
\* breakpoint while the first one's instruction is being single-stepped.
CONSTANTS
  MaxAddr = 31
  InsnLen <- MC_InsnLen
  MainEntry = 16
  MainEnd = 20
  HandlerEntry = 24
  HandlerEnd = 27
  BpPcs = {16, 24}
  SC_EFLAGS = TRUE
  MaxSignals = 2
  MaxDepth = 2
SPECIFICATION Spec
INVARIANT TrapCodeNeverExecuted
