\* The address map of every build on which it is consistent, at every
\* heap size startup accepts.  After startup the map is fixed, and a build
\* without GENCGC accepts no heap size, so a run may stop.
CONSTANTS
  SIGSTKSZ <- MC_SIGSTKSZ
  Builds <- MC_ConsistentBuilds
  DynamicSpaceSizes <- MC_DynamicSpaceSizes
SPECIFICATION Spec
INVARIANTS TypeOK SpacesDisjoint
CHECK_DEADLOCK FALSE
