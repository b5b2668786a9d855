\* Non-x86 build: a signal deferred while interrupts are disabled is
\* handled at the end of a pseudo-atomic region the GC trigger interrupted.
CONSTANTS
  s1 = s1  s2 = s2  c1 = c1  c2 = c2  h1 = h1  dfl = dfl  ign = ign  none = none
  Signals <- MC_Signals
  Codes <- MC_OneCode
  LispHandlers <- MC_LispHandlers
  SIG_DFL <- dfl
  SIG_IGN <- ign
  None <- none
  X86 = FALSE
  MAX_INTERRUPTS = 2
  InstallChoices <- MC_InstallHandler
  MaxSignals = 2
  MaxGCTriggers = 1
  MaxInstalls = 1
SPECIFICATION Spec
INVARIANTS HandlersRunWhenInterruptible
