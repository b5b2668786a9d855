----------------------------- MODULE X86Validate -----------------------------
(***************************************************************************)
(* The x86 address map of the runtime, src/lisp/x86-validate.h.            *)
(*                                                                         *)
(* Every address and size is in KiB.  Each constant of the header is a     *)
(* multiple of 1 KiB, so the scaling is exact, and the largest address,    *)
(* 0xE0000000, is 3670016 KiB, well inside TLC's integers.  The header     *)
(* targets 32-bit x86, so address arithmetic wraps at 2^32 bytes.          *)
(*                                                                         *)
(* A space start the header takes from a symbol defined elsewhere          *)
(* (SpaceStart_TargetReadOnly, SpaceStart_TargetStatic,                    *)
(* SpaceStart_TargetDynamic, LinkageSpaceStart) or leaves to another file  *)
(* (#if 0) is taken from the address-map comment of the same header.       *)
(***************************************************************************)
EXTENDS Integers, FiniteSets, Functions, TLC

CONSTANT
  SIGSTKSZ   \* [OSes -> Nat]: the platform's SIGSTKSZ from <signal.h>, in KiB

MB   == 1024
PAGE == 4                 \* one x86 page
AddressSpace == 4096 * MB \* 2^32 bytes

OSes == {"FreeBSD", "OpenBSD", "NetBSD", "Darwin", "Linux", "Solaris"}

ASSUME SIGSTKSZ \in [OSes -> Nat \ {0}]

Space(start, size) == [start |-> start, size |-> size]

(***************************************************************************)
(* The address-map comments: the starts the code does not define itself,  *)
(* and the regions of the process the runtime's spaces must stay out of.   *)
(***************************************************************************)
FreeBSDAddressMap ==
  [BINDING_STACK_START         |-> 896 * MB,     \* 0x38000000
   CONTROL_STACK_START         |-> 1024 * MB,    \* 0x40000000
   FOREIGN_LINKAGE_SPACE_START |-> 2816 * MB,    \* 0xB0000000
   cStack                      |-> Space(3584 * MB, 256 * MB)]

OpenBSDAddressMap ==
  [cStack |-> Space(3584 * MB, 256 * MB)]        \* 0xE0000000, 256M

NetBSDAddressMap ==
  [READ_ONLY_SPACE_START       |-> 256 * MB,     \* 0x10000000
   STATIC_SPACE_START          |-> 640 * MB,     \* 0x28000000
   DYNAMIC_0_SPACE_START       |-> 1160 * MB,    \* 0x48800000
   FOREIGN_LINKAGE_SPACE_START |-> 2816 * MB,    \* 0xB0000000
   cStack                      |-> Space(3584 * MB, 256 * MB)]

LinuxAddressMap ==
  [READ_ONLY_SPACE_START       |-> 256 * MB,     \* 0x10000000
   BINDING_STACK_START         |-> 512 * MB,     \* 0x20000000
   STATIC_SPACE_START          |-> 640 * MB,     \* 0x28000000
   CONTROL_STACK_START         |-> 896 * MB,     \* 0x38000000
   FOREIGN_LINKAGE_SPACE_START |-> 1408 * MB,    \* 0x58000000
   DYNAMIC_0_SPACE_START       |-> 1409 * MB,    \* 0x58100000
   unknownMapping              |-> Space(3072 * MB - 64, 64)]  \* 0xBFFF0000

\* Darwin has no address-map comment; the dyld note fixes the dynamic space
\* start: 0x8fe2e000 - 1206050816 = 0x48000000.
DarwinAddressMap ==
  [DYNAMIC_0_SPACE_START |-> 1152 * MB,
   dyld                  |-> Space(2302 * MB + 184, PAGE)]  \* 0x8fe2e000

SolarisAddressMap ==
  [READ_ONLY_SPACE_START       |-> 256 * MB,     \* 0x10000000
   STATIC_SPACE_START          |-> 640 * MB,     \* 0x28000000
   FOREIGN_LINKAGE_SPACE_START |-> 768 * MB,     \* 0x30000000
   DYNAMIC_0_SPACE_START       |-> 1024 * MB,    \* 0x40000000
   anonMapping                 |-> Space(3340 * MB + 896, 3192)] \* 0xd0ce0000-0xd0ffe000

(***************************************************************************)
(* CONTROL_STACK_END: the control stack's end from the runtime's           *)
(* control_stack_size, not from the CONTROL_STACK_SIZE macro.              *)
(***************************************************************************)
CONTROL_STACK_END(CONTROL_STACK_START, control_stack_size) ==
  CONTROL_STACK_START + control_stack_size

(***************************************************************************)
(* The macros of each #ifdef block, as a record keyed by macro name.       *)
(***************************************************************************)
FreeBSDValidate(GENCGC) ==
  [READ_ONLY_SPACE_START       |-> 256 * MB,
   READ_ONLY_SPACE_SIZE        |-> 256 * MB - PAGE,
   STATIC_SPACE_START          |-> 655 * MB,               \* 0x28f00000
   STATIC_SPACE_SIZE           |-> 241 * MB - PAGE,
   BINDING_STACK_START         |-> FreeBSDAddressMap.BINDING_STACK_START,
   BINDING_STACK_SIZE          |-> 128 * MB - PAGE,
   CONTROL_STACK_START         |-> FreeBSDAddressMap.CONTROL_STACK_START,
   CONTROL_STACK_SIZE          |-> 128 * MB - 160,         \* 0x07fd8000
   SIGNAL_STACK_START          |-> 1152 * MB - 160,        \* 0x47fd8000
   SIGNAL_STACK_SIZE           |-> SIGSTKSZ["FreeBSD"],
   DYNAMIC_0_SPACE_START       |-> 1152 * MB,
   DYNAMIC_SPACE_SIZE          |-> IF GENCGC THEN 1920 * MB ELSE 64 * MB,
   DEFAULT_DYNAMIC_SPACE_SIZE  |-> 512 * MB,
   FOREIGN_LINKAGE_SPACE_START |-> FreeBSDAddressMap.FOREIGN_LINKAGE_SPACE_START,
   FOREIGN_LINKAGE_SPACE_SIZE  |-> 1 * MB]

\* No FOREIGN_LINKAGE_SPACE_* here: OpenBSD builds have no linkage table.
OpenBSDValidate(GENCGC) ==
  [READ_ONLY_SPACE_START       |-> 256 * MB,
   READ_ONLY_SPACE_SIZE        |-> 256 * MB - PAGE,
   STATIC_SPACE_START          |-> 640 * MB,
   STATIC_SPACE_SIZE           |-> 256 * MB - PAGE,
   BINDING_STACK_START         |-> 896 * MB,
   BINDING_STACK_SIZE          |-> 128 * MB - PAGE,
   CONTROL_STACK_START         |-> 1024 * MB,
   CONTROL_STACK_SIZE          |-> 128 * MB - 160,
   SIGNAL_STACK_START          |-> 1152 * MB - 160,
   SIGNAL_STACK_SIZE           |-> SIGSTKSZ["OpenBSD"],
   DYNAMIC_0_SPACE_START       |-> 1152 * MB,
   DYNAMIC_SPACE_SIZE          |-> IF GENCGC THEN 1664 * MB ELSE 64 * MB,
   DEFAULT_DYNAMIC_SPACE_SIZE  |-> 512 * MB]

\* A slip in the NetBSD block, to show SpacesDisjoint catches it: a digit
\* slip in the GENCGC dynamic space size (0x67C00000 for 0x67800000), 4 MB
\* past the linkage table's start and off any 64 MB grid of heap sizes.
NetBSDValidateSlip(GENCGC) ==
  [READ_ONLY_SPACE_START       |-> NetBSDAddressMap.READ_ONLY_SPACE_START,
   READ_ONLY_SPACE_SIZE        |-> 256 * MB - PAGE,
   STATIC_SPACE_START          |-> NetBSDAddressMap.STATIC_SPACE_START,
   STATIC_SPACE_SIZE           |-> 256 * MB - PAGE,
   BINDING_STACK_START         |-> 896 * MB,
   BINDING_STACK_SIZE          |-> 128 * MB - PAGE,
   CONTROL_STACK_START         |-> 1024 * MB,
   CONTROL_STACK_SIZE          |-> 128 * MB - 160,
   SIGNAL_STACK_START          |-> 1152 * MB - 160,
   SIGNAL_STACK_SIZE           |-> SIGSTKSZ["NetBSD"],
   DYNAMIC_0_SPACE_START       |-> NetBSDAddressMap.DYNAMIC_0_SPACE_START,
   DYNAMIC_SPACE_SIZE          |-> IF GENCGC THEN 1660 * MB ELSE 64 * MB,
   DEFAULT_DYNAMIC_SPACE_SIZE  |-> 512 * MB,
   FOREIGN_LINKAGE_SPACE_START |-> NetBSDAddressMap.FOREIGN_LINKAGE_SPACE_START,
   FOREIGN_LINKAGE_SPACE_SIZE  |-> 1 * MB]

NetBSDValidate(GENCGC) ==
  [READ_ONLY_SPACE_START       |-> NetBSDAddressMap.READ_ONLY_SPACE_START,
   READ_ONLY_SPACE_SIZE        |-> 256 * MB - PAGE,
   STATIC_SPACE_START          |-> NetBSDAddressMap.STATIC_SPACE_START,
   STATIC_SPACE_SIZE           |-> 256 * MB - PAGE,
   BINDING_STACK_START         |-> 896 * MB,
   BINDING_STACK_SIZE          |-> 128 * MB - PAGE,
   CONTROL_STACK_START         |-> 1024 * MB,
   CONTROL_STACK_SIZE          |-> 128 * MB - 160,
   SIGNAL_STACK_START          |-> 1152 * MB - 160,
   SIGNAL_STACK_SIZE           |-> SIGSTKSZ["NetBSD"],
   DYNAMIC_0_SPACE_START       |-> NetBSDAddressMap.DYNAMIC_0_SPACE_START,
   DYNAMIC_SPACE_SIZE          |-> IF GENCGC THEN 1656 * MB ELSE 64 * MB,
   DEFAULT_DYNAMIC_SPACE_SIZE  |-> 512 * MB,
   FOREIGN_LINKAGE_SPACE_START |-> NetBSDAddressMap.FOREIGN_LINKAGE_SPACE_START,
   FOREIGN_LINKAGE_SPACE_SIZE  |-> 1 * MB]

\* The DARWIN branches of the same block: the start of every space but the
\* dynamic one comes from outside this header, and the signal stack is #if 0.
DarwinValidate(GENCGC) ==
  [CONTROL_STACK_SIZE          |-> 128 * MB - 132,         \* 0x07fdf000
   SIGNAL_STACK_SIZE           |-> SIGSTKSZ["Darwin"],
   DYNAMIC_0_SPACE_START       |-> DarwinAddressMap.DYNAMIC_0_SPACE_START,
   DYNAMIC_SPACE_SIZE          |-> IF GENCGC THEN 1150 * MB ELSE 64 * MB,
   DEFAULT_DYNAMIC_SPACE_SIZE  |-> 512 * MB]

\* CONTROL_STACK_START and SIGNAL_STACK_START are #if 0 for Linux; the
\* control stack start is the address-map comment's.
LinuxValidate(GENCGC) ==
  [READ_ONLY_SPACE_START       |-> LinuxAddressMap.READ_ONLY_SPACE_START,
   READ_ONLY_SPACE_SIZE        |-> 256 * MB - PAGE,
   STATIC_SPACE_START          |-> LinuxAddressMap.STATIC_SPACE_START,
   STATIC_SPACE_SIZE           |-> 256 * MB - PAGE,
   BINDING_STACK_START         |-> LinuxAddressMap.BINDING_STACK_START,
   BINDING_STACK_SIZE          |-> 128 * MB - PAGE,
   CONTROL_STACK_START         |-> LinuxAddressMap.CONTROL_STACK_START,
   CONTROL_STACK_SIZE          |-> 128 * MB - PAGE - 8,    \* 0x07fff000 - 8192
   SIGNAL_STACK_SIZE           |-> SIGSTKSZ["Linux"],
   DYNAMIC_0_SPACE_START       |-> LinuxAddressMap.DYNAMIC_0_SPACE_START,
   DYNAMIC_SPACE_SIZE          |-> IF GENCGC THEN 1632 * MB ELSE 64 * MB,
   DEFAULT_DYNAMIC_SPACE_SIZE  |-> 512 * MB,
   FOREIGN_LINKAGE_SPACE_START |-> LinuxAddressMap.FOREIGN_LINKAGE_SPACE_START,
   FOREIGN_LINKAGE_SPACE_SIZE  |-> 1 * MB]

SolarisValidate(GENCGC) ==
  [READ_ONLY_SPACE_START       |-> SolarisAddressMap.READ_ONLY_SPACE_START,
   READ_ONLY_SPACE_SIZE        |-> 256 * MB - PAGE,
   STATIC_SPACE_START          |-> SolarisAddressMap.STATIC_SPACE_START,
   STATIC_SPACE_SIZE           |-> 256 * MB - PAGE,
   BINDING_STACK_START         |-> 512 * MB,
   BINDING_STACK_SIZE          |-> 128 * MB - PAGE,
   CONTROL_STACK_START         |-> 896 * MB,
   CONTROL_STACK_SIZE          |-> 128 * MB - PAGE - 8,
   \* CONTROL_STACK_END with control_stack_size at its default
   SIGNAL_STACK_START          |-> CONTROL_STACK_END(896 * MB, 128 * MB - PAGE - 8),
   SIGNAL_STACK_SIZE           |-> SIGSTKSZ["Solaris"],
   DYNAMIC_0_SPACE_START       |-> SolarisAddressMap.DYNAMIC_0_SPACE_START,
   DYNAMIC_SPACE_SIZE          |-> IF GENCGC THEN 2304 * MB ELSE 64 * MB,
   DEFAULT_DYNAMIC_SPACE_SIZE  |-> 512 * MB,
   FOREIGN_LINKAGE_SPACE_START |-> SolarisAddressMap.FOREIGN_LINKAGE_SPACE_START,
   FOREIGN_LINKAGE_SPACE_SIZE  |-> 1 * MB]

(***************************************************************************)
(* A build: the target OS and the two feature macros the header tests.     *)
(* LINKAGE_TABLE is taken only where the header defines the linkage       *)
(* space and a comment places it: not OpenBSD (no macros), not Darwin      *)
(* (LinkageSpaceStart has no documented value).                            *)
(***************************************************************************)
AllBuilds ==
  {b \in [os : OSes, GENCGC : BOOLEAN, LINKAGE_TABLE : BOOLEAN] :
     b.LINKAGE_TABLE => b.os # "OpenBSD" /\ b.os # "Darwin"}

\* The #ifdef selection of the header, and the #ifdef LINKAGE_TABLE inside it.
Validate(b) ==
  LET h == CASE b.os = "FreeBSD" -> FreeBSDValidate(b.GENCGC)
             [] b.os = "OpenBSD" -> OpenBSDValidate(b.GENCGC)
             [] b.os = "NetBSD"  -> NetBSDValidate(b.GENCGC)
             [] b.os = "Darwin"  -> DarwinValidate(b.GENCGC)
             [] b.os = "Linux"   -> LinuxValidate(b.GENCGC)
             [] b.os = "Solaris" -> SolarisValidate(b.GENCGC)
      linkage == {"FOREIGN_LINKAGE_SPACE_START", "FOREIGN_LINKAGE_SPACE_SIZE"}
  IN  IF b.LINKAGE_TABLE THEN h ELSE Restrict(h, DOMAIN h \ linkage)

\* DYNAMIC_1_SPACE_START: the second semispace follows the first.
DYNAMIC_1_SPACE_START(h) == h.DYNAMIC_0_SPACE_START + h.DYNAMIC_SPACE_SIZE

(***************************************************************************)
(* The regions of the process outside the runtime's spaces that the        *)
(* comments name as occupied.                                              *)
(***************************************************************************)
ForeignRegions(os) ==
  LET m == CASE os = "FreeBSD" -> FreeBSDAddressMap
             [] os = "OpenBSD" -> OpenBSDAddressMap
             [] os = "NetBSD"  -> NetBSDAddressMap
             [] os = "Darwin"  -> DarwinAddressMap
             [] os = "Linux"   -> LinuxAddressMap
             [] os = "Solaris" -> SolarisAddressMap
      names == DOMAIN m \cap {"cStack", "unknownMapping", "dyld", "anonMapping"}
  IN  [n \in names |-> m[n]]

\* The fixed spaces a header record defines, keyed by space: a space is
\* present when both its START and SIZE macros are defined.
SpaceMacros ==
  [readOnly |-> <<"READ_ONLY_SPACE_START", "READ_ONLY_SPACE_SIZE">>,
   static   |-> <<"STATIC_SPACE_START", "STATIC_SPACE_SIZE">>,
   binding  |-> <<"BINDING_STACK_START", "BINDING_STACK_SIZE">>,
   control  |-> <<"CONTROL_STACK_START", "CONTROL_STACK_SIZE">>,
   signal   |-> <<"SIGNAL_STACK_START", "SIGNAL_STACK_SIZE">>,
   linkage  |-> <<"FOREIGN_LINKAGE_SPACE_START", "FOREIGN_LINKAGE_SPACE_SIZE">>]

FixedSpaces(h) ==
  LET defined == {n \in DOMAIN SpaceMacros :
                    SpaceMacros[n][1] \in DOMAIN h /\ SpaceMacros[n][2] \in DOMAIN h}
  IN  [n \in defined |-> Space(h[SpaceMacros[n][1]], h[SpaceMacros[n][2]])]

\* The end address as 32-bit address arithmetic computes it.
SpaceEnd(s) == (s.start + s.size) % AddressSpace

=============================================================================
