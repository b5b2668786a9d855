\* i386 build: fake/undo_fake_foreign_function_call under nested handlers.
CONSTANTS
  s1 = s1  s2 = s2  c1 = c1  c2 = c2  h1 = h1  dfl = dfl  ign = ign  none = none
  Signals <- MC_Signals
  Codes <- MC_OneCode
  LispHandlers <- MC_LispHandlers
  SIG_DFL <- dfl
  SIG_IGN <- ign
  None <- none
  X86 = TRUE
  MAX_INTERRUPTS = 2
  InstallChoices <- MC_InstallHandler
  MaxSignals = 2
  MaxGCTriggers = 0
  MaxInstalls = 3
SPECIFICATION Spec
INVARIANTS OutsideFlagTracksNesting
