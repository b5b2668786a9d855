\* Non-x86, non-GENCGC build: GC-trigger faults deferred inside
\* pseudo-atomic, foreign calls, and signals taken in C code.
CONSTANTS
  s1 = s1  s2 = s2  c1 = c1  c2 = c2  h1 = h1  dfl = dfl  ign = ign  none = none
  Signals <- MC_Signals
  Codes <- MC_OneCode
  LispHandlers <- MC_LispHandlers
  SIG_DFL <- dfl
  SIG_IGN <- ign
  None <- none
  X86 = FALSE
  MAX_INTERRUPTS = 2
  InstallChoices <- MC_InstallHandler
  MaxSignals = 3
  MaxGCTriggers = 2
  MaxInstalls = 2
SPECIFICATION Spec
INVARIANTS TypeOK OutsideFlagAccurate
PROPERTIES GCBeforeSignal PendingEventuallyDelivered GCRequestServiced BlockedSignalEventuallyDelivered
