CONSTANTS
  ByteBits <- MCByteBits
  FOREIGN_LINKAGE_SPACE_START <- MCStart
  LinkageData <- MCLinkageData
  Names <- MCNames
  SymbolAddr <- MCSymbolAddr
  NIL = "NIL"
SPECIFICATION Spec
CHECK_DEADLOCK FALSE
INVARIANTS
  CallReachesSymbol
  DataResolvedWhenRunning
PROPERTIES
  ImplementsAbstractTable
