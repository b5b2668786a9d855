----------------------------- MODULE MCMemoryMap -----------------------------
(***************************************************************************)
(* Instantiates MemoryMap for TLC.                                         *)
(***************************************************************************)
EXTENDS MemoryMap

\* SIGSTKSZ of the i386 <signal.h> of each OS, in KiB; Darwin's is the one
\* the header's comment quotes (128K).
MC_SIGSTKSZ ==
  [os \in OSes |-> CASE os = "FreeBSD" -> 34
                     [] os = "OpenBSD" -> 40
                     [] os = "NetBSD"  -> 40
                     [] os = "Darwin"  -> 128
                     [] os = "Linux"   -> 8
                     [] os = "Solaris" -> 8]

\* Requested heap sizes: every multiple of 64 MB below 4 GB.  MemoryMap adds
\* the running build's exact cap, which is off this grid for NetBSD
\* (1656 MB), Linux (1632 MB) and Darwin (1150 MB).
MC_DynamicSpaceSizes == {k * 64 * MB : k \in 1..63}

\* The builds on which the address map is consistent.  FreeBSD GENCGC with
\* LINKAGE_TABLE is the violation run; Solaris with LINKAGE_TABLE has the
\* same kind of overlap (README, "Findings").
MC_ConsistentBuilds ==
  AllBuilds \ {b \in AllBuilds : b.LINKAGE_TABLE /\ (b.os = "Solaris"
                                   \/ (b.os = "FreeBSD" /\ b.GENCGC))}

MC_FreeBSDGencgcLinkage ==
  {b \in AllBuilds : b.os = "FreeBSD" /\ b.GENCGC /\ b.LINKAGE_TABLE}
=============================================================================
