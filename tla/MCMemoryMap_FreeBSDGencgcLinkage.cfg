\* One family of builds, to show where its address map is inconsistent.
CONSTANTS
  SIGSTKSZ <- MC_SIGSTKSZ
  Builds <- MC_FreeBSDGencgcLinkage
  DynamicSpaceSizes <- MC_DynamicSpaceSizes
SPECIFICATION Spec
INVARIANTS SpacesDisjoint
CHECK_DEADLOCK FALSE
