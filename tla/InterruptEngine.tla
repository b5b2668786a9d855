--------------------------- MODULE InterruptEngine ---------------------------
(***************************************************************************)
(* Signal deferral and redelivery (src/src/lisp/interrupt.c) with the x86  *)
(* pending-interrupt trap (src/src/lisp/x86-arch.c).                       *)
(*                                                                         *)
(* One native thread runs Lisp; signals preempt it.  A deferrable signal   *)
(* reaches maybe_now_maybe_later, which runs the handler at once through  *)
(* interrupt_handle_now or saves it in the single pending slot            *)
(* (pending_signal, pending_code, pending_mask).  Lisp traps into          *)
(* interrupt_handle_pending when it leaves a without-interrupts region     *)
(* with *interrupt-pending* set, or a pseudo-atomic region that was        *)
(* interrupted.  A handler body is Lisp: it may open regions of its own    *)
(* and be interrupted in turn; every nesting that goes through             *)
(* fake_foreign_function_call takes a slot of lisp_interrupt_contexts.     *)
(*                                                                         *)
(* X86 selects the build: on i386 the were_in_lisp tests are compiled out  *)
(* and interrupt_maybe_gc does not exist; elsewhere (a non-GENCGC RISC     *)
(* build) foreign_function_call_active decides whether a context is        *)
(* faked, and a GC-trigger fault inside pseudo-atomic is deferred.         *)
(*                                                                         *)
(* Each signal handler runs with every deferrable signal blocked           *)
(* (FILLBLOCKSET in the sigaction mask), so each is one step, except the   *)
(* handler body, which runs with the interrupted context's mask.  The      *)
(* Lisp side (regions, call_into_lisp, call_into_c) is not under src/ and  *)
(* is modelled from spec.md 4.2, 4.3 and 5.                                *)
(***************************************************************************)
EXTENDS Integers, Sequences, SequencesExt, FiniteSets

CONSTANTS
  Signals,         \* deferrable signal numbers (model values)
  Codes,           \* si_code values (model values)
  LispHandlers,    \* Lisp handler functions (model values)
  SIG_DFL, SIG_IGN,
  None,            \* pending_signal = 0, and "no occurrence held"
  X86,             \* TRUE: i386 build; FALSE: non-x86, non-GENCGC build
  MAX_INTERRUPTS,  \* size of lisp_interrupt_contexts
  InstallChoices,  \* handlers Lisp may pass to install_handler
  MaxSignals,      \* bound: signals raised in a behaviour
  MaxGCTriggers,   \* bound: GC-trigger faults in a behaviour
  MaxInstalls      \* bound: install_handler calls in a behaviour

HandlerValues == LispHandlers \cup {SIG_DFL, SIG_IGN}
ASSUME None \notin Signals \cup Codes \cup HandlerValues
ASSUME InstallChoices \subseteq HandlerValues /\ X86 \in BOOLEAN
ASSUME MAX_INTERRUPTS \in Nat \ {0}
ASSUME {MaxSignals, MaxGCTriggers, MaxInstalls} \subseteq Nat

VARIABLES
  interruptsEnabled, \* Lisp *interrupts-enabled*
  pseudoAtomic,      \* Lisp pseudo-atomic-atomic
  paInterrupted,     \* Lisp pseudo-atomic-interrupted
  interruptPending,  \* Lisp *interrupt-pending*
  pendingSignal,     \* pending_signal
  pendingCode,       \* pending_code.si_code
  pendingMask,       \* pending_mask
  maybeGCPending,    \* maybe_gc_pending
  sigmask,           \* blocked signals of the running code
  osPending,         \* per signal: si_code of the occurrence the OS holds
  handlers,          \* interrupt_handlers
  frames,            \* running handler bodies, innermost last
  ffca,              \* foreign_function_call_active
  inC,               \* the running code is a foreign (C) call
  log,               \* history: GCs and handler calls, in order
  raised, gcTriggers, installs,  \* counters for the bounds
  status             \* "running", or how the process ended

vars == <<interruptsEnabled, pseudoAtomic, paInterrupted, interruptPending,
          pendingSignal, pendingCode, pendingMask, maybeGCPending, sigmask,
          osPending, handlers, frames, ffca, inC, log, raised, gcTriggers,
          installs, status>>

\* What delivering a signal may change.
deliveryVars == <<interruptPending, paInterrupted, pendingSignal, pendingCode,
                  pendingMask, sigmask, frames, ffca, inC, log, status>>

Running == status = "running"
SignalEvent(s, c) == [kind |-> "signal", signal |-> s, code |-> c]
GCEvent == [kind |-> "gc", signal |-> None, code |-> None]

\* FREE_INTERRUPT_CONTEXT_INDEX: the contexts saved by the active fakes.
FreeContextIndex == Len(SelectSeq(frames, LAMBDA f : f.faked))

\* Mask and *interrupts-enabled* of the code the innermost handler
\* interrupted (top level: nothing blocked, interrupts enabled).
BaseMask == IF frames = <<>> THEN {} ELSE Last(frames).mask
BaseInterruptsEnabled ==
  IF frames = <<>> THEN TRUE ELSE Last(frames).ie

(***************************************************************************)
(* Each ...Slip is a plausible slip in the definition of the same name     *)
(* without the suffix that follows it.                                     *)
(***************************************************************************)
\* The bound check off by one.
ContextIndexExhaustedSlip == FreeContextIndex > MAX_INTERRUPTS

\* fake_foreign_function_call: exit(1) when no context slot is free.
ContextIndexExhausted == FreeContextIndex >= MAX_INTERRUPTS

\* Every handler call fakes a context, as on i386, whatever the build.
InterruptHandleNowAlwaysFakeSlip(s, c, m, ie, lg) ==
  /\ sigmask' = m
  /\ IF handlers[s] = SIG_IGN
     THEN log' = lg /\ UNCHANGED <<frames, ffca, inC, status>>
     ELSE IF ContextIndexExhausted
     THEN status' = "max_interrupts" /\ log' = lg /\ UNCHANGED <<frames, ffca, inC>>
     ELSE IF handlers[s] = SIG_DFL
     THEN status' = "lose" /\ log' = lg /\ UNCHANGED <<frames, ffca, inC>>
     ELSE /\ frames' = Append(frames, [signal |-> s, code |-> c, mask |-> m,
                          ie |-> ie, faked |-> TRUE, inC |-> inC])
          /\ ffca' = X86 /\ inC' = FALSE
          /\ log' = Append(lg, SignalEvent(s, c))
          /\ UNCHANGED status

(***************************************************************************)
(* interrupt_handle_now on a context whose uc_sigmask is m, from Lisp     *)
(* whose *interrupts-enabled* is ie: SIG_IGN                              *)
(* returns; otherwise fake_foreign_function_call (only when were_in_lisp   *)
(* off i386), lose() on SIG_DFL, else unblock to m and call the handler,   *)
(* whose body is Lisp (call_into_lisp clears foreign_function_call_active *)
(* off i386).  lg is the history so far.                                   *)
(***************************************************************************)
InterruptHandleNow(s, c, m, ie, lg) ==
  LET faked == X86 \/ ~ffca
  IN  /\ sigmask' = m
      /\ IF handlers[s] = SIG_IGN
         THEN log' = lg /\ UNCHANGED <<frames, ffca, inC, status>>
         ELSE IF faked /\ ContextIndexExhausted
         THEN status' = "max_interrupts" /\ log' = lg /\ UNCHANGED <<frames, ffca, inC>>
         ELSE IF handlers[s] = SIG_DFL
         THEN status' = "lose" /\ log' = lg /\ UNCHANGED <<frames, ffca, inC>>
         ELSE /\ frames' = Append(frames, [signal |-> s, code |-> c, mask |-> m,
                              ie |-> ie, faked |-> faked, inC |-> inC])
              /\ ffca' = X86 /\ inC' = FALSE
              /\ log' = Append(lg, SignalEvent(s, c))
              /\ UNCHANGED status

\* Saves the signal but leaves the context's mask as it was.
SetupPendingSignalSlip(s, c) ==
  /\ pendingSignal' = s /\ pendingCode' = c /\ pendingMask' = sigmask
  /\ sigmask' = sigmask

\* setup_pending_signal: save signal, si_code and the context's mask, and
\* block every deferrable signal in the context (FILLBLOCKSET).
SetupPendingSignal(s, c) ==
  /\ pendingSignal' = s /\ pendingCode' = c /\ pendingMask' = sigmask
  /\ sigmask' = Signals

\* Tests pseudo-atomic only, not *interrupts-enabled*.
MaybeNowMaybeLaterSlip(s, c) ==
  \/ /\ (X86 \/ ~ffca) /\ pseudoAtomic
     /\ SetupPendingSignal(s, c) /\ paInterrupted' = TRUE
     /\ UNCHANGED <<interruptPending, frames, ffca, inC, log, status>>
  \/ /\ ~((X86 \/ ~ffca) /\ pseudoAtomic)
     /\ InterruptHandleNow(s, c, sigmask, interruptsEnabled, log)
     /\ UNCHANGED <<interruptPending, paInterrupted, pendingSignal, pendingCode, pendingMask>>

\* maybe_now_maybe_later: defer while interrupts are disabled or inside
\* pseudo-atomic Lisp code; otherwise handle now.
MaybeNowMaybeLater(s, c) ==
  \/ /\ ~interruptsEnabled
     /\ SetupPendingSignal(s, c) /\ interruptPending' = TRUE
     /\ UNCHANGED <<paInterrupted, frames, ffca, inC, log, status>>
  \/ /\ interruptsEnabled /\ (X86 \/ ~ffca) /\ pseudoAtomic
     /\ SetupPendingSignal(s, c) /\ paInterrupted' = TRUE
     /\ UNCHANGED <<interruptPending, frames, ffca, inC, log, status>>
  \/ /\ interruptsEnabled /\ ~((X86 \/ ~ffca) /\ pseudoAtomic)
     /\ InterruptHandleNow(s, c, sigmask, interruptsEnabled, log)
     /\ UNCHANGED <<interruptPending, paInterrupted, pendingSignal, pendingCode, pendingMask>>

\* The OS delivers s under the sigaction install_handler chose for it:
\* SIG_DFL terminates, SIG_IGN discards, a handler gets
\* maybe_now_maybe_later.
Deliver(s, c) ==
  CASE handlers[s] = SIG_DFL ->
         status' = "killed" /\ UNCHANGED <<interruptPending, paInterrupted,
           pendingSignal, pendingCode, pendingMask, sigmask, frames, ffca, inC, log>>
    [] handlers[s] = SIG_IGN -> UNCHANGED deliveryVars
    [] OTHER -> MaybeNowMaybeLater(s, c)

\* Raises signal s with si_code c: held (first si_code kept) while blocked.
Raise(s, c) ==
  /\ Running /\ raised < MaxSignals
  /\ raised' = raised + 1
  /\ IF s \in sigmask
     THEN /\ osPending' = [osPending EXCEPT ![s] = IF @ = None THEN c ELSE @]
          /\ UNCHANGED deliveryVars
     ELSE Deliver(s, c) /\ UNCHANGED osPending
  /\ UNCHANGED <<interruptsEnabled, pseudoAtomic, maybeGCPending, handlers,
                 gcTriggers, installs>>

\* Delivers the occurrence the OS held once s is unblocked.
OSDeliver(s) ==
  /\ Running /\ osPending[s] # None /\ s \notin sigmask
  /\ osPending' = [osPending EXCEPT ![s] = None]
  /\ Deliver(s, osPending[s])
  /\ UNCHANGED <<interruptsEnabled, pseudoAtomic, maybeGCPending, handlers,
                 raised, gcTriggers, installs>>

\* Does not copy pending_mask back into the context.
InterruptHandlePendingKeepMaskSlip(ie) ==
  LET lg == IF maybeGCPending THEN Append(log, GCEvent) ELSE log
  IN  /\ interruptPending' = FALSE /\ maybeGCPending' = FALSE
      /\ IF maybeGCPending /\ (X86 \/ ~ffca) /\ ContextIndexExhausted
         THEN status' = "max_interrupts" /\ UNCHANGED <<pendingSignal,
                pendingCode, pendingMask, sigmask, frames, ffca, inC, log>>
         ELSE /\ pendingMask' = {}
              /\ IF pendingSignal = None
                 THEN log' = lg /\ UNCHANGED <<pendingSignal, pendingCode,
                        sigmask, frames, ffca, inC, status>>
                 ELSE /\ pendingSignal' = None /\ UNCHANGED pendingCode
                      /\ InterruptHandleNow(pendingSignal, pendingCode, sigmask, ie, lg)

\* Runs the GC or the pending signal, whichever it finds, not both.
InterruptHandlePendingOrderSlip(ie) ==
  /\ interruptPending' = FALSE /\ maybeGCPending' = FALSE
  /\ pendingMask' = {}
  /\ IF pendingSignal # None
     THEN /\ pendingSignal' = None /\ UNCHANGED pendingCode
          /\ InterruptHandleNow(pendingSignal, pendingCode, pendingMask, ie, log)
     ELSE /\ log' = IF maybeGCPending THEN Append(log, GCEvent) ELSE log
          /\ sigmask' = pendingMask
          /\ UNCHANGED <<pendingSignal, pendingCode, frames, ffca, inC, status>>

(***************************************************************************)
(* interrupt_handle_pending: clear *interrupt-pending*; run a pending GC   *)
(* through fake/undo_fake_foreign_function_call (the fake only when        *)
(* were_in_lisp off i386); copy pending_mask into the context and empty    *)
(* it; then, if a signal is pending, clear it and handle it now on that    *)
(* context with the saved si_code.  pending_code is left as it was.  ie   *)
(* is *interrupts-enabled* of the Lisp code that trapped.                 *)
(***************************************************************************)
InterruptHandlePending(ie) ==
  LET gcFaked == maybeGCPending /\ (X86 \/ ~ffca)
      lg == IF maybeGCPending THEN Append(log, GCEvent) ELSE log
  IN  /\ interruptPending' = FALSE /\ maybeGCPending' = FALSE
      /\ IF gcFaked /\ ContextIndexExhausted
         THEN status' = "max_interrupts" /\ UNCHANGED <<pendingSignal,
                pendingCode, pendingMask, sigmask, frames, ffca, inC, log>>
         ELSE /\ pendingMask' = {}
              /\ IF pendingSignal = None
                 THEN /\ sigmask' = pendingMask /\ log' = lg
                      /\ ffca' = (ffca /\ ~gcFaked)
                      /\ UNCHANGED <<pendingSignal, pendingCode, frames, inC, status>>
                 ELSE /\ pendingSignal' = None /\ UNCHANGED pendingCode
                      /\ InterruptHandleNow(pendingSignal, pendingCode, pendingMask, ie, lg)

\* sigtrap_handler, case trap_PendingInterrupt: skip the trap code and
\* handle what is pending.
TrapPendingInterrupt(ie) == InterruptHandlePending(ie)

\* Defers the GC without flagging the pseudo-atomic region.
InterruptMaybeGCSlip ==
  /\ Running /\ ~X86 /\ ~ffca /\ ~maybeGCPending
  /\ gcTriggers < MaxGCTriggers /\ gcTriggers' = gcTriggers + 1
  /\ IF pseudoAtomic
     THEN /\ maybeGCPending' = TRUE
          /\ IF pendingSignal = None
             THEN pendingMask' = sigmask /\ sigmask' = Signals
             ELSE UNCHANGED <<pendingMask, sigmask>>
          /\ UNCHANGED <<paInterrupted, ffca, log, status>>
     ELSE /\ IF ContextIndexExhausted
             THEN status' = "max_interrupts" /\ UNCHANGED <<ffca, log>>
             ELSE log' = Append(log, GCEvent) /\ ffca' = FALSE /\ UNCHANGED status
          /\ UNCHANGED <<maybeGCPending, paInterrupted, pendingMask, sigmask>>
  /\ UNCHANGED <<interruptsEnabled, pseudoAtomic, interruptPending, pendingSignal,
                 pendingCode, osPending, handlers, frames, inC, raised, installs>>

\* Saves the context's mask even when a deferred signal already did.
InterruptMaybeGCCaptureSlip ==
  /\ Running /\ ~X86 /\ ~ffca /\ ~maybeGCPending
  /\ gcTriggers < MaxGCTriggers /\ gcTriggers' = gcTriggers + 1
  /\ IF pseudoAtomic
     THEN /\ maybeGCPending' = TRUE /\ paInterrupted' = TRUE
          /\ pendingMask' = sigmask /\ sigmask' = Signals
          /\ UNCHANGED <<ffca, log, status>>
     ELSE /\ IF ContextIndexExhausted
             THEN status' = "max_interrupts" /\ UNCHANGED <<ffca, log>>
             ELSE log' = Append(log, GCEvent) /\ ffca' = FALSE /\ UNCHANGED status
          /\ UNCHANGED <<maybeGCPending, paInterrupted, pendingMask, sigmask>>
  /\ UNCHANGED <<interruptsEnabled, pseudoAtomic, interruptPending, pendingSignal,
                 pendingCode, osPending, handlers, frames, inC, raised, installs>>

(***************************************************************************)
(* interrupt_maybe_gc (non-x86 builds): a fault on the armed GC trigger    *)
(* while in Lisp disarms it (clear_auto_gc_trigger) until the GC runs.     *)
(* Inside pseudo-atomic the GC is deferred: maybe_gc_pending is set, the   *)
(* context's mask saved and blocked only if no signal is pending, and the  *)
(* region flagged.  Otherwise MAYBE-GC runs at once through fake/undo.     *)
(***************************************************************************)
InterruptMaybeGC ==
  /\ Running /\ ~X86 /\ ~ffca /\ ~maybeGCPending
  /\ gcTriggers < MaxGCTriggers /\ gcTriggers' = gcTriggers + 1
  /\ IF pseudoAtomic
     THEN /\ maybeGCPending' = TRUE /\ paInterrupted' = TRUE
          /\ IF pendingSignal = None
             THEN pendingMask' = sigmask /\ sigmask' = Signals
             ELSE UNCHANGED <<pendingMask, sigmask>>
          /\ UNCHANGED <<ffca, log, status>>
     ELSE /\ IF ContextIndexExhausted
             THEN status' = "max_interrupts" /\ UNCHANGED <<ffca, log>>
             ELSE log' = Append(log, GCEvent) /\ ffca' = FALSE /\ UNCHANGED status
          /\ UNCHANGED <<maybeGCPending, paInterrupted, pendingMask, sigmask>>
  /\ UNCHANGED <<interruptsEnabled, pseudoAtomic, interruptPending, pendingSignal,
                 pendingCode, osPending, handlers, frames, inC, raised, installs>>

\* install_handler, called from Lisp: the signal is blocked only while the
\* table entry and its sigaction change, so the call is one step.
InstallHandler(s, h) ==
  /\ Running /\ ~inC /\ ~pseudoAtomic
  /\ installs < MaxInstalls /\ installs' = installs + 1
  /\ handlers' = [handlers EXCEPT ![s] = h]
  /\ UNCHANGED <<interruptsEnabled, pseudoAtomic, paInterrupted, interruptPending,
                 pendingSignal, pendingCode, pendingMask, maybeGCPending, sigmask,
                 osPending, frames, ffca, inC, log, raised, gcTriggers, status>>

(***************************************************************************)
(* The Lisp side (not under src/; spec.md 4.3 and 5).  A handler started   *)
(* inside the interrupted code's without-interrupts region cannot end      *)
(* that region; Lisp regions do not run inside a foreign call.             *)
(***************************************************************************)
WithoutInterruptsBegin ==
  /\ Running /\ ~inC /\ interruptsEnabled /\ ~pseudoAtomic
  /\ interruptsEnabled' = FALSE
  /\ UNCHANGED <<pseudoAtomic, paInterrupted, interruptPending, pendingSignal,
                 pendingCode, pendingMask, maybeGCPending, sigmask, osPending,
                 handlers, frames, ffca, inC, log, raised, gcTriggers, installs, status>>

\* Leaving the region traps to interrupt_handle_pending if one is pending.
WithoutInterruptsEnd ==
  /\ Running /\ ~inC /\ ~interruptsEnabled /\ ~pseudoAtomic
  /\ BaseInterruptsEnabled
  /\ interruptsEnabled' = TRUE
  /\ IF interruptPending
     THEN TrapPendingInterrupt(TRUE)
     ELSE UNCHANGED <<interruptPending, pendingSignal, pendingCode, pendingMask,
                      maybeGCPending, sigmask, frames, ffca, inC, log, status>>
  /\ UNCHANGED <<pseudoAtomic, paInterrupted, osPending, handlers, raised,
                 gcTriggers, installs>>

PseudoAtomicBegin ==
  /\ Running /\ ~inC /\ ~pseudoAtomic
  /\ pseudoAtomic' = TRUE
  /\ UNCHANGED <<interruptsEnabled, paInterrupted, interruptPending, pendingSignal,
                 pendingCode, pendingMask, maybeGCPending, sigmask, osPending,
                 handlers, frames, ffca, inC, log, raised, gcTriggers, installs, status>>

\* Clears the interrupted flag but never traps.
PseudoAtomicEndSlip ==
  /\ Running /\ pseudoAtomic
  /\ pseudoAtomic' = FALSE /\ paInterrupted' = FALSE
  /\ UNCHANGED <<interruptPending, pendingSignal, pendingCode, pendingMask,
                 maybeGCPending, sigmask, frames, ffca, inC, log, status>>
  /\ UNCHANGED <<interruptsEnabled, osPending, handlers, raised, gcTriggers, installs>>

\* Leaving the region clears the interrupted flag and traps if it was set.
PseudoAtomicEnd ==
  /\ Running /\ pseudoAtomic
  /\ pseudoAtomic' = FALSE /\ paInterrupted' = FALSE
  /\ IF paInterrupted
     THEN TrapPendingInterrupt(interruptsEnabled)
     ELSE UNCHANGED <<interruptPending, pendingSignal, pendingCode, pendingMask,
                      maybeGCPending, sigmask, frames, ffca, inC, log, status>>
  /\ UNCHANGED <<interruptsEnabled, osPending, handlers, raised, gcTriggers, installs>>

\* call_into_c (non-x86): a foreign call sets foreign_function_call_active.
ForeignCallBegin ==
  /\ Running /\ ~X86 /\ ~inC /\ ~pseudoAtomic
  /\ ffca' = TRUE /\ inC' = TRUE
  /\ UNCHANGED <<interruptsEnabled, pseudoAtomic, paInterrupted, interruptPending,
                 pendingSignal, pendingCode, pendingMask, maybeGCPending, sigmask,
                 osPending, handlers, frames, log, raised, gcTriggers, installs, status>>

ForeignCallEnd ==
  /\ Running /\ inC
  /\ ffca' = FALSE /\ inC' = FALSE
  /\ UNCHANGED <<interruptsEnabled, pseudoAtomic, paInterrupted, interruptPending,
                 pendingSignal, pendingCode, pendingMask, maybeGCPending, sigmask,
                 osPending, handlers, frames, log, raised, gcTriggers, installs, status>>

(***************************************************************************)
(* The handler body returns: call_into_lisp returns (off i386 it sets      *)
(* foreign_function_call_active again), undo_fake_foreign_function_call    *)
(* clears it and unbinds the context index if the context was faked, and   *)
(* the return from the signal handler restores the context's uc_sigmask.   *)
(***************************************************************************)
HandlerReturn ==
  /\ Running /\ frames # <<>> /\ ~inC /\ ~pseudoAtomic
  /\ interruptsEnabled = Last(frames).ie
  /\ frames' = Front(frames)
  /\ sigmask' = Last(frames).mask
  /\ ffca' = ~Last(frames).faked
  /\ inC' = Last(frames).inC
  /\ UNCHANGED <<interruptsEnabled, pseudoAtomic, paInterrupted, interruptPending,
                 pendingSignal, pendingCode, pendingMask, maybeGCPending, osPending,
                 handlers, log, raised, gcTriggers, installs, status>>

\* After exit(1), lose() or a default action the process is gone.
Terminated == ~Running /\ UNCHANGED vars

\* After interrupt_init (every handler SIG_DFL), running Lisp.
Init ==
  /\ interruptsEnabled = TRUE /\ pseudoAtomic = FALSE
  /\ paInterrupted = FALSE /\ interruptPending = FALSE
  /\ pendingSignal = None /\ pendingCode = None /\ pendingMask = {}
  /\ maybeGCPending = FALSE
  /\ sigmask = {}
  /\ osPending = [s \in Signals |-> None]
  /\ handlers = [s \in Signals |-> SIG_DFL]
  /\ frames = <<>> /\ ffca = FALSE /\ inC = FALSE
  /\ log = <<>>
  /\ raised = 0 /\ gcTriggers = 0 /\ installs = 0
  /\ status = "running"

Next ==
  \/ \E s \in Signals, c \in Codes : Raise(s, c)
  \/ \E s \in Signals : OSDeliver(s)
  \/ \E s \in Signals, h \in InstallChoices : InstallHandler(s, h)
  \/ WithoutInterruptsBegin \/ WithoutInterruptsEnd
  \/ PseudoAtomicBegin \/ PseudoAtomicEnd
  \/ ForeignCallBegin \/ ForeignCallEnd
  \/ InterruptMaybeGC
  \/ HandlerReturn
  \/ Terminated

(***************************************************************************)
(* Fairness: Lisp leaves its regions and foreign calls (spec 5: regions    *)
(* are short), a started handler runs to completion (spec 5), and the OS   *)
(* delivers an unblocked held signal.  Ending a without-interrupts region  *)
(* and returning from a handler are strongly fair: pseudo-atomic regions   *)
(* and foreign calls disable them again and again, but they do end.        *)
(* Raising signals, GC faults and install_handler are never required.      *)
(***************************************************************************)
Fairness ==
  /\ SF_vars(WithoutInterruptsEnd)
  /\ WF_vars(PseudoAtomicEnd)
  /\ WF_vars(ForeignCallEnd)
  /\ SF_vars(HandlerReturn)
  /\ \A s \in Signals : SF_vars(OSDeliver(s))

Spec == Init /\ [][Next]_vars /\ Fairness

-----------------------------------------------------------------------------
\* Type invariant: every variable in its domain, and no more saved contexts
\* than lisp_interrupt_contexts holds.
TypeOK ==
  /\ {interruptsEnabled, pseudoAtomic, paInterrupted, interruptPending,
      maybeGCPending, ffca, inC} \subseteq BOOLEAN
  /\ pendingSignal \in Signals \cup {None}
  /\ pendingCode \in Codes \cup {None}
  /\ pendingMask \subseteq Signals /\ sigmask \subseteq Signals
  /\ osPending \in [Signals -> Codes \cup {None}]
  /\ handlers \in [Signals -> HandlerValues]
  /\ frames \in Seq([signal : Signals, code : Codes, mask : SUBSET Signals,
                     ie : BOOLEAN, faked : BOOLEAN, inC : BOOLEAN])
  /\ FreeContextIndex <= MAX_INTERRUPTS
  /\ status \in {"running", "max_interrupts", "lose", "killed"}

(***************************************************************************)
(* Spec 8, second property: a signal that arrives while interrupts are     *)
(* disabled is not dispatched until they are enabled again.  On the        *)
(* handler stack: every running handler interrupted code that had          *)
(* *interrupts-enabled* set.                                               *)
(***************************************************************************)
HandlersRunWhenInterruptible ==
  \A i \in 1..Len(frames) : frames[i].ie

(***************************************************************************)
(* setup_pending_signal and interrupt_maybe_gc block every deferrable      *)
(* signal and interrupt_handle_pending puts back exactly the saved mask:   *)
(* while a signal or a GC is deferred every deferrable signal is blocked   *)
(* and pending_mask is the mask of the code that was interrupted;          *)
(* otherwise the running code has the mask of the code its handler        *)
(* interrupted.  A mask saved twice, or restored at the wrong level,       *)
(* leaves signals blocked for good or lets a second one overwrite the      *)
(* slot.                                                                   *)
(***************************************************************************)
SignalMaskConsistent ==
  Running =>
    IF pendingSignal # None \/ maybeGCPending
    THEN sigmask = Signals /\ pendingMask = BaseMask
    ELSE sigmask = BaseMask

(***************************************************************************)
(* The single pending slot is never overwritten: a deferred signal leaves  *)
(* it only by interrupt_handle_pending calling its handler with the saved  *)
(* signal and si_code (spec 8, second property), or by being dropped       *)
(* because its handler is now SIG_IGN, or by the process ending.           *)
(***************************************************************************)
PendingDispatchedAsCaptured ==
  [][ /\ pendingSignal # None
      /\ <<pendingSignal', pendingCode'>> # <<pendingSignal, pendingCode>>
      => \/ status' # "running"
         \/ pendingSignal' = None /\ handlers[pendingSignal] = SIG_IGN
         \/ /\ pendingSignal' = None
            /\ Len(log') > Len(log)
            /\ Last(log') = SignalEvent(pendingSignal, pendingCode)
    ]_vars

(***************************************************************************)
(* Spec 5(a) and 8: when interrupt_handle_pending finds both a deferred GC *)
(* and a deferred signal, MAYBE-GC runs strictly before the handler.       *)
(***************************************************************************)
GCBeforeSignal ==
  [][ /\ maybeGCPending /\ pendingSignal # None
      /\ ~maybeGCPending' /\ status' = "running"
      /\ handlers[pendingSignal] \in LispHandlers
      => SubSeq(log', Len(log) + 1, Len(log')) =
           <<GCEvent, SignalEvent(pendingSignal, pendingCode)>>
    ]_vars

\* A deferred signal is eventually handled (or the process ends).
PendingEventuallyDelivered ==
  (pendingSignal # None) ~> (pendingSignal = None \/ ~Running)

\* A deferred GC eventually runs (or the process ends).
GCRequestServiced ==
  maybeGCPending ~> (~maybeGCPending \/ ~Running)

(***************************************************************************)
(* A signal the OS holds because it is blocked is eventually delivered:    *)
(* deferral blocks signals only until interrupt_handle_pending.            *)
(***************************************************************************)
BlockedSignalEventuallyDelivered ==
  \A s \in Signals : (osPending[s] # None) ~> (osPending[s] = None \/ ~Running)

(***************************************************************************)
(* Off i386, foreign_function_call_active says whether C code is running:  *)
(* interrupt_handle_now fakes a context only when the signal came in Lisp, *)
(* so the undo on return does not clear the flag under a foreign call.     *)
(***************************************************************************)
OutsideFlagAccurate == Running => (ffca = inC)

(***************************************************************************)
(* Spec 8, fourth property: fake/undo_fake_foreign_function_call nest: the *)
(* "outside Lisp" flag stays set while any faked context is active and is  *)
(* clear once the outermost one is undone.                                 *)
(***************************************************************************)
OutsideFlagTracksNesting == Running => (ffca = (FreeContextIndex > 0))

=============================================================================
