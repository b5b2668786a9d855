\* i386 build, signals only (no interrupt_maybe_gc): deferral, redelivery,
\* handler table changes, nesting up to a full context array.
CONSTANTS
  s1 = s1  s2 = s2  c1 = c1  c2 = c2  h1 = h1  dfl = dfl  ign = ign  none = none
  Signals <- MC_Signals
  Codes <- MC_Codes
  LispHandlers <- MC_LispHandlers
  SIG_DFL <- dfl
  SIG_IGN <- ign
  None <- none
  X86 = TRUE
  MAX_INTERRUPTS = 2
  InstallChoices <- MC_InstallHandlerOrIgnore
  MaxSignals = 3
  MaxGCTriggers = 0
  MaxInstalls = 3
SPECIFICATION Spec
INVARIANTS TypeOK SignalMaskConsistent HandlersRunWhenInterruptible
PROPERTIES PendingDispatchedAsCaptured PendingEventuallyDelivered BlockedSignalEventuallyDelivered
