----------------------------- MODULE GuardZones -----------------------------
(***************************************************************************)
(* The control-stack guard zones of src/src/lisp/os-common.c (RED_ZONE_HIT *)
(* builds) and the alternate signal stack interrupt.c sets up for them.    *)
(*                                                                         *)
(* Two write-protected zones sit at the end of the control stack the stack *)
(* grows towards: first the yellow zone, then the red one.  A push that   *)
(* touches a protected page faults; the SIGSEGV handler calls              *)
(* os_control_stack_overflow, which unprotects the zone hit and makes the  *)
(* signal return into YELLOW_ZONE_HIT (Lisp signals stack exhaustion and   *)
(* enters the debugger, stack intact) or RED_ZONE_HIT (Lisp throws to top  *)
(* level).  Re-protecting a zone is Lisp's business: it may call           *)
(* os_guard_control_stack(zone, 1) for a zone the stack is not using.      *)
(*                                                                         *)
(* On x86 the control stack is the C stack and grows down from             *)
(* CONTROL_STACK_START + control_stack_size; on sparc the Lisp control     *)
(* stack grows up from CONTROL_STACK_START and C runs on its own stack.   *)
(* Addresses and sizes are in 4 KiB pages: a zone is 0x8000 bytes.         *)
(***************************************************************************)
EXTENDS Integers, FiniteSets, FiniteSetsExt

CONSTANTS
  CONTROL_STACK_START,   \* first page of the control stack
  control_stack_size,    \* pages of control stack
  FrameSizes,            \* pages one Lisp push may take
  Slack                  \* bound: pages the stack may run past its end

YELLOW_ZONE_SIZE == 8    \* 0x8000 bytes
RED_ZONE_SIZE == YELLOW_ZONE_SIZE

YELLOW_ZONE == 1
RED_ZONE == 2
Zones == {YELLOW_ZONE, RED_ZONE}

PROTECTION_VIOLATION_SIGNAL == "SIGSEGV"

ASSUME /\ control_stack_size >= YELLOW_ZONE_SIZE + RED_ZONE_SIZE + 1
       /\ FrameSizes \subseteq Nat \ {0} /\ Slack \in Nat

Arches == {"x86", "sparc"}

VARIABLES
  arch,       \* the port the runtime was built for
  sp,         \* the control stack's current end (x86: lowest page in use)
  protected,  \* pages os_protect has made read/execute only
  armed,      \* zone -> Lisp's last request for it was guard, not since hit
  resume,     \* where the signal context returns: "lisp" or a zone-hit fn
  status      \* "running", or "dead": a fault the process cannot survive

vars == <<arch, sp, protected, armed, resume, status>>

CONTROL_STACK_END == CONTROL_STACK_START + control_stack_size

\* Where the stack starts, and the pages from p on in the growth direction.
Base(a) == IF a = "x86" THEN CONTROL_STACK_END ELSE CONTROL_STACK_START
Pages(start, len) == start .. start + len - 1

-----------------------------------------------------------------------------
(* interrupt.c                                                             *)

\* interrupt_install_low_level_handler (RED_ZONE_HIT): does the handler of
\* signal run on the sigaltstack (SA_ONSTACK)?
OnAltStackSlip(signal) == FALSE

OnAltStack(signal) == signal = PROTECTION_VIOLATION_SIGNAL

-----------------------------------------------------------------------------
(* os-common.c                                                             *)

\* Zones in the wrong order: the red zone above the yellow one.
guard_zones_Swapped(a) ==
  IF a = "x86"
  THEN [yellow_start |-> CONTROL_STACK_START, red_start |-> CONTROL_STACK_START + YELLOW_ZONE_SIZE]
  ELSE [red_start |-> CONTROL_STACK_END - RED_ZONE_SIZE - YELLOW_ZONE_SIZE,
        yellow_start |-> CONTROL_STACK_END - YELLOW_ZONE_SIZE]

\* The start of each zone: at CONTROL_STACK_START on x86, which grows down,
\* and just before the end of the control stack on sparc, which grows up.
guard_zones(a) ==
  IF a = "x86"
  THEN [red_start |-> CONTROL_STACK_START, yellow_start |-> CONTROL_STACK_START + RED_ZONE_SIZE]
  ELSE [red_start |-> CONTROL_STACK_END - RED_ZONE_SIZE,
        yellow_start |-> CONTROL_STACK_END - RED_ZONE_SIZE - YELLOW_ZONE_SIZE]

\* The guard zone p is in, or 0.
control_stack_zone(a, p) ==
  LET z == guard_zones(a)
  IN  CASE p >= z.yellow_start /\ p < z.yellow_start + YELLOW_ZONE_SIZE -> YELLOW_ZONE
        [] p >= z.red_start /\ p < z.red_start + RED_ZONE_SIZE -> RED_ZONE
        [] OTHER -> 0

\* os_protect with OS_VM_PROT_READ | OS_VM_PROT_EXECUTE, or OS_VM_PROT_ALL.
os_protect(prot, start, len, guard) ==
  IF guard THEN prot \cup Pages(start, len) ELSE prot \ Pages(start, len)

\* Zone 0 taken as both zones, from the higher start.
os_guard_control_stack_HighStart(a, prot, zone, guard) ==
  LET z == guard_zones(a)
  IN  CASE zone = YELLOW_ZONE -> os_protect(prot, z.yellow_start, YELLOW_ZONE_SIZE, guard)
        [] zone = RED_ZONE -> os_protect(prot, z.red_start, RED_ZONE_SIZE, guard)
        [] OTHER -> os_protect(prot, Max({z.red_start, z.yellow_start}),
                               RED_ZONE_SIZE + YELLOW_ZONE_SIZE, guard)

\* Protect (guard) or unprotect one zone, or both when zone is 0.
os_guard_control_stack(a, prot, zone, guard) ==
  LET z == guard_zones(a)
  IN  CASE zone = YELLOW_ZONE -> os_protect(prot, z.yellow_start, YELLOW_ZONE_SIZE, guard)
        [] zone = RED_ZONE -> os_protect(prot, z.red_start, RED_ZONE_SIZE, guard)
        [] OTHER -> os_protect(prot, Min({z.red_start, z.yellow_start}),
                               RED_ZONE_SIZE + YELLOW_ZONE_SIZE, guard)

\* The zone a call with zone (0 = both) speaks for.
ZonesOf(zone) == IF zone = 0 THEN Zones ELSE {zone}

\* The handler unprotects both zones whichever it was hit in.
os_control_stack_overflow_UnguardBoth(f) ==
  LET zone == control_stack_zone(arch, f)
  IN  IF ~OnAltStack(PROTECTION_VIOLATION_SIGNAL) /\ arch = "x86"
      THEN /\ status' = "dead"
           /\ UNCHANGED <<protected, armed, resume>>
      ELSE IF zone \in Zones
      THEN /\ protected' = os_guard_control_stack(arch, protected, 0, FALSE)
           /\ armed' = [armed EXCEPT ![zone] = FALSE]
           /\ resume' = IF zone = RED_ZONE THEN "RED_ZONE_HIT" ELSE "YELLOW_ZONE_HIT"
           /\ UNCHANGED status
      ELSE /\ status' = "dead"
           /\ UNCHANGED <<protected, armed, resume>>

(***************************************************************************)
(* A push touches the protected page f.  The kernel delivers SIGSEGV on    *)
(* the sigaltstack if the handler asked for it; otherwise on the stack in  *)
(* use, which on x86 is the faulting control stack, so the signal frame    *)
(* cannot be written and the process dies.  The handler runs               *)
(* os_control_stack_overflow(f): a fault in a zone unprotects that zone    *)
(* and sets the context's PC to the zone's hit function; any other fault  *)
(* returns 0, and the faulting write repeats for ever.                     *)
(***************************************************************************)
os_control_stack_overflow(f) ==
  LET zone == control_stack_zone(arch, f)
  IN  IF ~OnAltStack(PROTECTION_VIOLATION_SIGNAL) /\ arch = "x86"
      THEN /\ status' = "dead"
           /\ UNCHANGED <<protected, armed, resume>>
      ELSE IF zone \in Zones
      THEN /\ protected' = os_guard_control_stack(arch, protected, zone, FALSE)
           /\ armed' = [armed EXCEPT ![zone] = FALSE]
           /\ resume' = IF zone = RED_ZONE THEN "RED_ZONE_HIT" ELSE "YELLOW_ZONE_HIT"
           /\ UNCHANGED status
      ELSE /\ status' = "dead"
           /\ UNCHANGED <<protected, armed, resume>>

-----------------------------------------------------------------------------
(* Lisp                                                                    *)

\* The pages a push of k from sp writes, in the order it reaches them.
Touched(k) == IF arch = "x86" THEN Pages(sp - k, k) ELSE Pages(sp, k)
NewSp(k) == IF arch = "x86" THEN sp - k ELSE sp + k
InBounds(p) == CONTROL_STACK_START - Slack <= p /\ p <= CONTROL_STACK_END + Slack

\* Lisp grows the stack by k pages; the first protected page reached faults.
Push(k) ==
  /\ status = "running" /\ resume = "lisp"
  /\ InBounds(NewSp(k))
  /\ LET hit == Touched(k) \cap protected
     IN  IF hit = {}
         THEN /\ sp' = NewSp(k)
              /\ UNCHANGED <<arch, protected, armed, resume, status>>
         ELSE LET f == IF arch = "x86" THEN Max(hit) ELSE Min(hit)
              IN  /\ sp' = IF arch = "x86" THEN f + 1 ELSE f
                  /\ os_control_stack_overflow(f)
                  /\ UNCHANGED arch

\* Lisp returns from frames, never past the stack's start.
Pop(k) ==
  /\ status = "running" /\ resume = "lisp"
  /\ sp # Base(arch)
  /\ sp' = IF arch = "x86" THEN Min({sp + k, Base(arch)}) ELSE Max({sp - k, Base(arch)})
  /\ UNCHANGED <<arch, protected, armed, resume, status>>

\* The signal returns into the hit function: YELLOW_ZONE_HIT signals the
\* error with the stack intact; RED_ZONE_HIT throws to top level.
RunZoneHit ==
  /\ status = "running" /\ resume # "lisp"
  /\ resume' = "lisp"
  /\ sp' = IF resume = "RED_ZONE_HIT" THEN Base(arch) ELSE sp
  /\ UNCHANGED <<arch, protected, armed, status>>

\* The zone's pages are all beyond the stack in use.
Unused(zone) ==
  LET z == guard_zones(arch)
      pages == UNION {IF y = YELLOW_ZONE THEN Pages(z.yellow_start, YELLOW_ZONE_SIZE)
                      ELSE Pages(z.red_start, RED_ZONE_SIZE) : y \in ZonesOf(zone)}
  IN  \A p \in pages : IF arch = "x86" THEN p < sp ELSE p >= sp

\* Lisp re-protects a zone (or both) it is not using.
GuardControlStack(zone) ==
  /\ status = "running" /\ resume = "lisp"
  /\ Unused(zone)
  /\ protected' = os_guard_control_stack(arch, protected, zone, TRUE)
  /\ armed' = [y \in Zones |-> IF y \in ZonesOf(zone) THEN TRUE ELSE armed[y]]
  /\ UNCHANGED <<arch, sp, resume, status>>

\* Started with both zones guarded.
Init ==
  /\ arch \in Arches
  /\ sp = Base(arch)
  /\ protected = os_guard_control_stack(arch, {}, 0, TRUE)
  /\ armed = [y \in Zones |-> TRUE]
  /\ resume = "lisp"
  /\ status = "running"

Next ==
  \/ \E k \in FrameSizes : Push(k) \/ Pop(k)
  \/ RunZoneHit
  \/ \E zone \in {0} \cup Zones : GuardControlStack(zone)

Spec == Init /\ [][Next]_vars

-----------------------------------------------------------------------------
(* Properties                                                              *)

TypeOK ==
  /\ arch \in Arches /\ sp \in CONTROL_STACK_START - Slack .. CONTROL_STACK_END + Slack
  /\ protected \subseteq Pages(CONTROL_STACK_START, control_stack_size)
  /\ armed \in [Zones -> BOOLEAN]
  /\ resume \in {"lisp", "YELLOW_ZONE_HIT", "RED_ZONE_HIT"}
  /\ status \in {"running", "dead"}

(***************************************************************************)
(* Every fault the growing stack takes in a guard zone is delivered and    *)
(* handled: the SIGSEGV handler runs on the sigaltstack, and               *)
(* control_stack_zone classifies every page os_guard_control_stack         *)
(* protected, so os_control_stack_overflow never returns 0 for one.        *)
(***************************************************************************)
GuardFaultsHandled == status = "running"

(***************************************************************************)
(* With both zones guarded, an overflow meets the yellow zone first: a red *)
(* zone hit is handled only when the yellow zone has been hit (or left     *)
(* unguarded by Lisp) since it was last guarded.                           *)
(***************************************************************************)
YellowBeforeRed ==
  [][resume = "lisp" /\ resume' = "RED_ZONE_HIT" => ~armed[YELLOW_ZONE]]_vars

(***************************************************************************)
(* The stack runs past the end of the control stack only when the red zone *)
(* has been hit, or left unguarded, since Lisp last guarded it: a guarded  *)
(* red zone stops every overflow.                                          *)
(***************************************************************************)
StackInsideWhileRedGuarded ==
  armed[RED_ZONE] => CONTROL_STACK_START <= sp /\ sp <= CONTROL_STACK_END
=============================================================================
