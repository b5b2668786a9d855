------------------------------ MODULE MemoryMap ------------------------------
(***************************************************************************)
(* The address spaces a started runtime occupies: the fixed spaces of the  *)
(* header for its build, and the dynamic space sized at startup.           *)
(*                                                                         *)
(* A GENCGC build uses dynamic space 0 only, sized by dynamic_space_size,  *)
(* which starts at DEFAULT_DYNAMIC_SPACE_SIZE and may be set at startup to *)
(* any size up to DYNAMIC_SPACE_SIZE (the cap the spec's Memory Space Map  *)
(* describes).  A build without GENCGC has two semispaces of               *)
(* DYNAMIC_SPACE_SIZE at DYNAMIC_0_SPACE_START and DYNAMIC_1_SPACE_START.  *)
(***************************************************************************)
EXTENDS X86Validate

CONSTANTS
  Builds,            \* the builds checked, a subset of AllBuilds
  DynamicSpaceSizes  \* the heap sizes a user may request, in KiB

ASSUME Builds \subseteq AllBuilds
ASSUME DynamicSpaceSizes \subseteq Nat \ {0}

VARIABLES
  build,              \* the build the running program was compiled as
  dynamic_space_size  \* the runtime's dynamic space size

vars == <<build, dynamic_space_size>>

Header == Validate(build)

\* The dynamic space(s) of the running program (line 260: GENCGC only uses
\* dynamic space 0).
DynamicSpaces ==
  IF build.GENCGC
  THEN [dynamic0 |-> Space(Header.DYNAMIC_0_SPACE_START, dynamic_space_size)]
  ELSE [dynamic0 |-> Space(Header.DYNAMIC_0_SPACE_START, Header.DYNAMIC_SPACE_SIZE),
        dynamic1 |-> Space(DYNAMIC_1_SPACE_START(Header), Header.DYNAMIC_SPACE_SIZE)]

\* Every region of the address space the running program depends on.
OccupiedRegions == FixedSpaces(Header) @@ DynamicSpaces @@ ForeignRegions(build.os)

Init ==
  /\ build \in Builds
  /\ dynamic_space_size = Validate(build).DEFAULT_DYNAMIC_SPACE_SIZE

\* A plausible slip in SetDynamicSpaceSize, to show TypeOK catches it.
\* Startup that scales the requested size twice (a MB/KiB unit slip).
SetDynamicSpaceSizeUnitSlip(n) ==
  /\ build.GENCGC
  /\ n <= Header.DYNAMIC_SPACE_SIZE
  /\ dynamic_space_size' = n * MB
  /\ UNCHANGED build

\* Startup accepts a requested dynamic space size no larger than the cap.
SetDynamicSpaceSize(n) ==
  /\ build.GENCGC
  /\ n <= Header.DYNAMIC_SPACE_SIZE
  /\ dynamic_space_size' = n
  /\ UNCHANGED build

\* The sizes a user may request, and always the largest one startup accepts,
\* the build's own cap.
Next == \E n \in DynamicSpaceSizes \cup {Header.DYNAMIC_SPACE_SIZE} :
          SetDynamicSpaceSize(n)

Spec == Init /\ [][Next]_vars

-----------------------------------------------------------------------------
\* Type invariant: the build is one the header supports and the dynamic
\* space size is a positive size within the 32-bit address space.
TypeOK ==
  /\ build \in AllBuilds
  /\ dynamic_space_size \in 1..AddressSpace

Overlap(r, s) == r.start < s.start + s.size /\ s.start < r.start + r.size

(***************************************************************************)
(* Every space the running program uses, whatever heap size startup        *)
(* accepted, lies inside the 32-bit address space without wrapping and     *)
(* overlaps no other space and no region the address-map comments name as *)
(* taken (C stack, dyld, the unknown Linux mapping, Solaris anon memory).  *)
(* This is what the header's per-OS constants and the startup size cap     *)
(* together must guarantee.                                                *)
(***************************************************************************)
SpacesDisjoint ==
  LET R == OccupiedRegions
  IN  /\ \A n \in DOMAIN R : SpaceEnd(R[n]) > R[n].start
      /\ \A n, m \in DOMAIN R : n # m => ~Overlap(R[n], R[m])

=============================================================================
