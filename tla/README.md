# TLA+ models of the CMUCL C runtime

These modules model the C runtime underneath the CMUCL Lisp engine as it
appears in this repository: the x86 address map (`src/lisp/x86-validate.h`),
signal deferral and redelivery with the handler table and the foreign-call
bridge (`src/src/lisp/interrupt.c`), and the x86 pending-interrupt trap
(`src/src/lisp/x86-arch.c`), and the backtrace stack walkers
(`src/src/lisp/backtrace.c`), the control-stack guard zones
(`src/src/lisp/os-common.c` with the alternate signal stack of `interrupt.c`),
the x86 foreign linkage table (`os-common.c` with the entry writers of
`x86-arch.c`), which is shown to implement an abstract table, and the x86
breakpoint and single-step protocol (`x86-arch.c`).

## 1. Inventory

### Parts of the system and how they interact

| Part | Source | State | Operations |
|---|---|---|---|
| Memory Space Map (x86) | `src/lisp/x86-validate.h` | compile-time constants per OS, GENCGC and LINKAGE_TABLE; the heap size chosen at startup | selection of a build; setting the dynamic-space size (startup, outside src/) |
| Memory Space Map (MIPS) | `src/src/lisp/mips-validate.h` | constants | none |
| Interrupt Deferral Engine | `interrupt.c` | `pending_signal`, `pending_code`, `pending_mask`, `maybe_gc_pending`; the Lisp flags `*interrupts-enabled*`, `*interrupt-pending*`, pseudo-atomic and pseudo-atomic-interrupted; the signal mask | `maybe_now_maybe_later`, `setup_pending_signal`, `interrupt_handle_now`, `interrupt_handle_pending`, `interrupt_maybe_gc` |
| Foreign-Call Bridge | `interrupt.c` | `lisp_interrupt_contexts`, `FREE_INTERRUPT_CONTEXT_INDEX`, `foreign_function_call_active` | `fake_foreign_function_call`, `undo_fake_foreign_function_call` |
| Interrupt Handler Table | `interrupt.c` | `interrupt_handlers`, the sigaction of each signal | `interrupt_init`, `install_handler` |
| x86 trap handler | `x86-arch.c` | the context's PC and trap flag; `single_stepping` and `single_step_save1..3`; the instruction bytes under a breakpoint | `sigtrap_handler` (`trap_PendingInterrupt` calls `interrupt_handle_pending`; single-step, `trap_Breakpoint` and default cases), `arch_install_breakpoint`, `arch_remove_breakpoint`, `arch_do_displaced_inst`, `arch_pseudo_atomic_atomic` |
| Stack Walker | `backtrace.c` | a read-only walk of the control stack | `backtrace`, `previous_info`, `x86_call_context`, `debug_function_from_pc` |
| Control-stack guard zones | `os-common.c`, `interrupt.c` | the protected pages of the yellow and red zones; the stack pointer; where the SIGSEGV context returns | `os_guard_control_stack`, `os_control_stack_overflow`, `interrupt_install_low_level_handler` (SA_ONSTACK) |
| Linkage table, OS memory | `os-common.c`, `x86-arch.c` | the bytes of the linkage table's entries | `os_foreign_linkage_init`, `os_resolve_data_linkage`, `os_link_one_symbol`, `lazy_resolve_linkage`, `arch_make_linkage_entry`, `arch_make_lazy_linkage`; `os_allocate`... |

The parts interact as follows:

1. A signal reaches `maybe_now_maybe_later`, which reads the engine's Lisp flags.
2. The signal is either handled at once or saved in the single pending slot.
3. A saved signal is redelivered by `interrupt_handle_pending` when Lisp traps (`trap_PendingInterrupt`) at the end of a without-interrupts region or of an interrupted pseudo-atomic region.
4. Every handler call goes through the bridge, which saves the context in the context array.
5. The handler table decides what a delivered or redelivered signal does.
6. The stack walker reads the context array and the address map.
7. A push into a guard zone faults; the low-level SIGSEGV handler, on the
   alternate stack `interrupt_install_low_level_handler` set up, calls
   `os_control_stack_overflow`, which unprotects the zone and makes the
   signal return into a Lisp function.
8. Lisp calls foreign code through the linkage table: a lazy entry calls
   entry 0, whose trampoline calls `lazy_resolve_linkage`, which rewrites the
   entry through `os_link_one_symbol` and the x86 entry writers.
9. The debugger sets a breakpoint by writing INT3 and a trap code over an
   instruction. The SIGTRAP goes to `sigtrap_handler`; Lisp's
   `handle_breakpoint` (outside the repository) ends in
   `arch_do_displaced_inst`, and the next SIGTRAP while `single_stepping` is
   set is taken as the end of that instruction's single step. Asynchronous
   signals can be delivered in between, and their handlers run Lisp code too.

### Hard behaviours

- Signals preempt Lisp at any point, including inside handler bodies. Handlers therefore nest.
- One pending slot serves both a deferred signal and a deferred GC.
- The mask saved at deferral must come back exactly at redelivery.
- The handler table may change while a signal is pending.
- The context array is bounded by MAX_INTERRUPTS. When it is full, the process exits.
- The i386 build and the other builds differ:
  - on i386, `were_in_lisp` is compiled out and there is no `interrupt_maybe_gc`;
  - elsewhere, `foreign_function_call_active` decides whether a context is faked.
- The per-OS constants must not overlap each other or the regions the comments name. This must hold at every heap size that startup accepts.
- The guard zones must be met in the right order in both growth directions, and a fault must be handled on a stack other than the one that overflowed.
- The linkage table's JMP and CALL offsets wrap around the 32-bit address space; the entry a lazy call resolves is recovered from a return address.
- A single step spans two traps, and nothing ties the second trap to the context of the first.

### Properties per component

**Memory space map**

- `SpacesDisjoint`.

**Interrupt engine, bridge and handler table**

- `SignalMaskConsistent`
- `PendingDispatchedAsCaptured`
- `HandlersRunWhenInterruptible`
- `GCBeforeSignal`
- `OutsideFlagAccurate` and `OutsideFlagTracksNesting`
- Liveness:
  - a deferred signal is handled;
  - a deferred GC runs;
  - a signal held by the OS is delivered.

**Stack walkers**

- `BacktraceFindsCallChain` and `NeverReadsOutsideStack` (x86)
- `PrintsCallChain` (linked frames)
- the x86 walk names each frame through `debug_function_from_pc`, inside `BacktraceFindsCallChain`

**Guard zones**

- `GuardFaultsHandled`, `YellowBeforeRed`, `StackInsideWhileRedGuarded`

**Linkage table**

- `CallReachesSymbol`, `DataResolvedWhenRunning`, and `ImplementsAbstractTable` (refinement of `LinkageTableAbstract`)

**Breakpoints**

- `TrapCodeNeverExecuted`

## 2. Modules

### Stack walkers (backtrace.c)

`backtrace.c` has two walkers, chosen by architecture. Each is modelled as a pure computation over a stack that `Init` chooses. A single action (`backtrace`) computes the result with a RECURSIVE operator and sets `done`. `backtrace` returns, so the runs check deadlock off.

**`StackWalkerX86`** models the x86 half (lines 244-509).
- The stack is a map from byte addresses to words, and a word is 4 bytes. A Lisp frame keeps its caller's fp at fp-4 and its return address at fp-8. A C frame keeps them at fp and fp+4.
- `Init` builds the stack from a real call chain. The chain starts with backtrace's own C frame and has up to `MaxFrames` frames of either kind. Every word that is not a link holds a value from `Garbage`. So does the word at `StackEnd`, just past the stack.
- `x86_call_context` is the recursive tie-break of the source, including the FreeBSD variant. It also returns every address it read.
- `BacktraceLoop` is the `for (i = 0; i < nframes; ++i)` loop. Each frame is named as lines 488-500 do: a return address outside the code object is foreign, one inside it is named by `debug_function_from_pc` over the code object's debug info, which `Init` also chooses (`DF == INSTANCE DebugFunctionLookup`).

**`StackWalkerLinked`** models the RISC half (lines 1-242).
- `frames` maps frame addresses to `[old_cont, saved_lra]`, and `contexts` is `lisp_interrupt_contexts`. `Headers` gives each object's header type and length, and `code_pointer` does the source's pointer arithmetic.
- `previous_info` searches the contexts innermost first (`SelectLastInSeq`) for one whose CFP is the caller.
- `BacktraceLoop` is the do-while of `backtrace`.
- `BuiltInits` are the stacks Lisp builds. Each chain has two or more frames, and each frame runs a code object. A frame is interrupted exactly when its callee saved NIL, and then its context is saved.
- `MCStackWalkerLinked` gives two code objects, each with one LRA and one PC.

**`DebugFunctionLookup`** models `debug_function_from_pc` (lines 384-469) as operators; `StackWalkerX86` instantiates it.
- The function map is a simple vector of debug functions separated by fixnum boundaries. The model generates every map the compiler can emit with up to `MaxFunctions` functions.
- `Owner`, the reference, names the function whose normal or elsewhere code holds the offset.

### GuardZones (os-common.c 371-533, interrupt.c 409-448)

Addresses are in 4 KiB pages, so each zone (0x8000 bytes) is 8 pages. `Init` chooses the port: x86, whose control stack is the C stack and grows down from `CONTROL_STACK_START + control_stack_size`, or sparc, whose Lisp stack grows up from `CONTROL_STACK_START`. Both zones start protected.

- State: `sp`, the set `protected` of pages `os_protect` made read/execute only, `armed` (for each zone, whether Lisp's last request for it was guard and it has not been hit since), `resume` (where the signal context returns) and `status`.
- `guard_zones`, `control_stack_zone`, `os_guard_control_stack` and `os_control_stack_overflow` are the source's functions over those sets. `OnAltStack` is the SA_ONSTACK choice of `interrupt_install_low_level_handler`.
- `Push(k)` grows the stack; the first protected page it reaches faults. On x86 without the alternate stack the kernel cannot write the signal frame and the process dies; otherwise `os_control_stack_overflow` runs. `RunZoneHit` is the Lisp function the context returns into (the red one throws to top level). `GuardControlStack(zone)` is Lisp re-guarding a zone the stack does not occupy, in any order.

### LinkageTable and LinkageTableAbstract (os-common.c 127-367, x86-arch.c 462-523)

`LinkageTable` keeps the table's bytes. `LinkageData` is `LINKAGE_TABLE_DATA` (name, type, library list per entry); `found` is what `dlsym` finds, chosen in `Init` for every combination. Entry writers store `JMP rel32; NOP`, `CALL rel32; NOP` or a little-endian address. The four-byte words have `ByteBits`-bit bytes (8 in the code, 7 in `MCLinkageTable`, so that a 2^28 address space fits TLC's integers) and wrap modulo 2^(4*ByteBits).

- `ForeignLinkageInit` and `ResolveDataLinkage` are the two startup passes (`lose()` ends the process: the runs check deadlock off). `LinkOneSymbol(entry)` is register-foreign-linkage's call, including one entry past the end.
- `CallEntry(e)` executes the entry's bytes: a JMP lands at its target; a CALL to entry 0 goes through entry 0's JMP to `resolve_linkage_tramp`, which calls `lazy_resolve_linkage` with the return address and jumps to the address returned. An undefined symbol ends in the Lisp error of `undefined_foreign_symbol_trap`, taken as unwinding.
- `LinkageTableAbstract` says only that each entry moves from empty to lazy to bound to its own symbol's address, never back and never elsewhere. `Decode` maps the bytes to those states, and `ImplementsAbstractTable` checks the abstract `Spec` as a property of the byte-level one.
- `MCLinkageTable` puts the table in the last 256 bytes of the address space, so every offset wraps, with the trampoline, a code and a data symbol of the runtime, and a data and a code symbol of a library.

### Breakpoints (x86-arch.c 194-400)

Memory is a small range of byte addresses. A byte is abstracted to what it is: an original instruction byte, INT3, the trap code after an INT3, or a helper byte. `InsnLen` gives the length of each instruction of a straight-line Lisp loop and of a signal handler's code. The machine is a stack `ctx` of contexts `[pc, tf, trapped]`: the Lisp code and the handlers of the asynchronous signals delivered to it. `trapped` marks a SIGTRAP raised and not yet handled.

- `arch_install_breakpoint`, `arch_remove_breakpoint` and `arch_do_displaced_inst` translate the C functions. Lisp's breakpoint table (`breakpoints`) keeps the two bytes `arch_install_breakpoint` returned. `SC_EFLAGS` selects the path of `arch_do_displaced_inst`: setting the trap flag in the context, or writing the pushf/or/popf helper words below the PC and saving the old ones in `single_step_save`.
- `sigtrap_handler` is the single-step case (`SigtrapSingleStep`: clear the flag with `^= 0x100` or restore the helpers, write the breakpoint back unless the PC is `single_stepping + 1`, clear `single_stepping`), else the `trap_Breakpoint` case (`SigtrapBreakpoint`: back the PC onto the INT3; Lisp's `handle_breakpoint` ends in `arch_do_displaced_inst` for a breakpoint it still has), else the default case (`SigtrapOther`).
- The environment is not in the repository and is kept to what the hardware and Lisp can do. `Execute` is the CPU: INT3 traps with the PC after it, a helper block sets the trap flag, an instruction traps after it when the flag is set (without an eflags word the kernel clears the flag as it reports the trace trap). `DeliverSignal` and `Sigreturn` are the kernel; the handler starts with the trap flag clear. `SetBreakpoint` and `DeleteBreakpoint` are the debugger, from running Lisp code, never in a context whose next instruction is the displaced one (`AtDisplaced`).

### X86Validate

`X86Validate` models the header as data: one record per `#ifdef` block, keyed by macro name (`FreeBSDValidate`, ..., `SolarisValidate`), and `Validate(build)` for the selection. Addresses are in KiB so that they fit TLC's integers; every constant of the header is a multiple of 1 KiB. Address arithmetic wraps at 2^32 bytes (`SpaceEnd`).

Some starts are not defined in the header:
- starts taken from symbols defined elsewhere (`SpaceStart_Target*`, `LinkageSpaceStart`);
- starts left under `#if 0`.

These are taken from the header's own address-map comments. The regions the comments mark as taken (the C stack, dyld, the unknown Linux mapping, Solaris anon memory) are `ForeignRegions`. SIGSTKSZ is a constant per OS.

### MemoryMap

`MemoryMap` adds the running program. Its state is `build` and `dynamic_space_size`. Its one action is `SetDynamicSpaceSize`: startup accepts any heap size up to `DYNAMIC_SPACE_SIZE` (GENCGC only). `DynamicSpaces` models lines 260-261: GENCGC uses dynamic space 0 only, and the other builds use two semispaces.

### InterruptEngine

`InterruptEngine` models `interrupt.c` and the pending-interrupt trap of `x86-arch.c`. Its state maps to the code as follows:

| Variable | Code |
|---|---|
| `pendingSignal`, `pendingCode`, `pendingMask`, `maybeGCPending` | the static variables of lines 37-40 |
| `handlers` | `interrupt_handlers` |
| `frames` | the running handler bodies; `FreeContextIndex` is the number of them that faked a context |
| `ffca` | `foreign_function_call_active` |
| `sigmask` | the blocked signals of the running code |
| `osPending` | the occurrences the OS holds while a signal is blocked |
| `status` | records `exit(1)`, `lose()` and a default action |

Its actions and operators:

- `Raise` / `OSDeliver`: the OS delivers under the sigaction that `install_handler` chose (`Deliver`).
- `MaybeNowMaybeLater`, `SetupPendingSignal` and `InterruptHandleNow`: translate the C functions of the same names, whole, including `fake_foreign_function_call` (`ContextIndexExhausted`) and the `SIG_IGN` and `SIG_DFL` branches.
- `InterruptHandlePending`, through `TrapPendingInterrupt`:
  - runs a pending GC;
  - restores the saved mask into the trapping context;
  - handles the pending signal with the saved si_code.
- `InterruptMaybeGC`: exists for non-x86 builds only.
- `InstallHandler`: one step, because the signal being changed is blocked.
- `HandlerReturn`: `undo_fake_foreign_function_call`, then the return from the signal handler, which restores the context's mask.
- The Lisp side is not under src/ and is modelled from spec.md 4.3 and 5:
  - `WithoutInterruptsBegin/End` and `PseudoAtomicBegin/End`: each End traps when something is pending;
  - `ForeignCallBegin/End`: `call_into_c`, which sets `foreign_function_call_active` off i386;
  - `call_into_lisp` clears `foreign_function_call_active` off i386, and leaves it alone on i386.

`X86` selects the build.

A definition named `...Slip` is a plausible bug in the definition that follows it. Each property of a passing run is shown to catch one (the `mutants` of PROJECT.json).

### MC modules

`MCMemoryMap`, `MCInterruptEngine`, `MCStackWalkerLinked`, `MCLinkageTable` and `MCBreakpoints` give the constants: the builds, the heap sizes, and model values for signals, codes and handlers.

## 3. Runs

| Run | Checks | Result |
|---|---|---|
| `memmap_consistent` | TypeOK, SpacesDisjoint, for every build except the two below, at heap sizes 64 MB..4032 MB in 64 MB steps and at the build's exact cap | pass, 223 states |
| `memmap_freebsd_linkage` | SpacesDisjoint on FreeBSD GENCGC + LINKAGE_TABLE | violated: a 1728 MB heap reaches the linkage table at 0xB0000000 |
| `interrupts_x86` | TypeOK, SignalMaskConsistent, HandlersRunWhenInterruptible, PendingDispatchedAsCaptured, PendingEventuallyDelivered, BlockedSignalEventuallyDelivered on i386 | pass, about 65,000 states |
| `interrupts_gc` | TypeOK, OutsideFlagAccurate, GCBeforeSignal, PendingEventuallyDelivered, GCRequestServiced, BlockedSignalEventuallyDelivered on a non-x86 build | pass, about 94,000 states |
| `interrupts_gc_gap` | HandlersRunWhenInterruptible on a non-x86 build with GC triggers | violated (below) |
| `interrupts_ffca_nesting` | OutsideFlagTracksNesting on i386 | violated (below) |
| `backtrace_x86_chain` | TypeOK, BacktraceFindsCallChain: on every mix of Lisp and C frames, with non-link words 0 or a return address, the x86 walk prints exactly the real chain, up to nframes, each frame named by the function that owns its return address | pass, about 255,000 states |
| `backtrace_x86_overread` | NeverReadsOutsideStack | violated (below) |
| `backtrace_linked_chain` | TypeOK, PrintsCallChain: on stacks Lisp builds, the linked walk prints the callers in order, each with its code object, and flags interrupted frames and takes their code from the saved context | pass, 576 states |
| `guard_zones` | TypeOK, GuardFaultsHandled, YellowBeforeRed, StackInsideWhileRedGuarded on x86 and sparc | pass, 132 states |
| `linkage_table` | CallReachesSymbol, DataResolvedWhenRunning, ImplementsAbstractTable for every dlsym outcome | pass, 129 states |
| `breakpoint_signal_in_step` | TrapCodeNeverExecuted on a build with SC_EFLAGS, with signals delivered to the Lisp code | violated (below) |

### What the violations show

- **Heap overlaps the linkage table on FreeBSD.** With GENCGC and LINKAGE_TABLE, `DYNAMIC_SPACE_SIZE` (0x78000000) lets the heap grow past 0xB0000000. The header's comment puts the foreign linkage table there.
- **Static space covers the linkage table on Solaris.** There is no run for this, for lack of run budget. It is recorded as a hazard (x86-validate.h:234): the 256 MB static space covers the 0x30000000 linkage table that the comment places right after it. `MC_ConsistentBuilds` excludes this build.
- **The x86 walk reads past the stack** (backtrace.c:347). `x86_call_context` checks only that `fp` is a stack pointer, then reads `fp + 4`. Take the last word of the stack holding a value that looks like a Lisp frame's fp. The walker then reads the word after the stack's end, which is outside the control stack. Spec 8 forbids that.
- **Handler runs with interrupts disabled.** `interrupt_handle_pending` (interrupt.c:212) does not look at `*interrupts-enabled*`. Trace:
  1. A signal is deferred inside a without-interrupts region.
  2. A pseudo-atomic region begins inside the same without-interrupts region.
  3. A GC-trigger fault inside it flags the region.
  4. The region's end traps.
  5. The deferred signal's handler runs with interrupts still disabled.

  This contradicts spec 8. The same path restores the saved mask while the slot is empty, so `SignalMaskConsistent` and `HandlersRunWhenInterruptible` are checked on i386, where there is no GC trigger.
- **Flag cleared under an outer context.** `undo_fake_foreign_function_call` (interrupt.c:140) clears `foreign_function_call_active` whatever the nesting. On i386 the inner of two nested handlers clears it while the outer context is active. Spec 8 asks that it be false only after the outermost leave. Off i386, `were_in_lisp` and `call_into_lisp` keep the flag right, and `OutsideFlagAccurate` passes there.
- **A handler's breakpoint is taken as the single step** (x86-arch.c:288). `sigtrap_handler` takes every SIGTRAP while `single_stepping` is set as the step. Trace:
  1. The Lisp code hits a breakpoint; `arch_do_displaced_inst` puts its instruction back and sets the trap flag.
  2. On the way back, a signal is delivered; its handler hits a second breakpoint.
  3. That INT3 is taken as the step: the first breakpoint is written back before its instruction has run, `single_stepping` is cleared, and the handler's trap flag is toggled on.
  4. The handler resumes on the `trap_Breakpoint` byte after its INT3 and runs it as an instruction.

  The run checks the `SC_EFLAGS` path only; the helper path of `arch_do_displaced_inst` is modelled but no run exercises it (with `SC_EFLAGS = FALSE` the same trace reaches the trap byte; without signals the invariant holds on both paths, when checked by hand with TLC).

## 4. Bounds and why they are enough

**Memory map**

- All six OSes, both feature macros, every heap size in 64 MB steps, and the build's own cap. The caps of NetBSD (1656 MB), Linux (1632 MB) and Darwin (1150 MB) are off the 64 MB grid; `SetDynamicSpaceSize` always tries the exact cap, so a cap that overshoots a neighbouring space by less than 64 MB is caught (the NetBSD mutant overshoots by 4 MB).

**Interrupt engine**

- Two signals: enough for a nested handler of a different signal, and for a second signal during deferral.
- Two codes on i386, so that a wrong si_code at redelivery is visible. One code where no property tells codes apart.
- MAX_INTERRUPTS = 2 with three signals, so the context array fills and the exit path is reached.
- Two GC triggers, so that a GC deferred after a signal and a GC run at once both happen.
- Up to three `install_handler` calls: installing a handler for both signals, then ignoring or resetting one.

**Stack walkers**

- x86: a 10-word stack, chains of up to 4 frames of either kind, and three return addresses (two in the code object, one foreign). The other words are 0 or a return address. This covers one reading valid, neither valid, and a chain ending at the stack's top. It does not reach the recursive tie-break of line 354: no non-link word holds a stack address, so a frame never reads as both a valid Lisp and a valid C frame. `BacktraceFindsCallChain` therefore checks the chain and the naming, not the tie-break's choice. Garbage that holds stack addresses would make the walk ambiguous by construction (the tie-break is a heuristic) and multiply the state space. With `nframes` = 2, both the stop at nframes and the stop at the chain's end happen.
- Linked: 4 frame slots, 2 code objects, up to 2 interrupts, and nframes = 2. So 3- and 4-frame chains are cut off at nframes, and chains with 0, 1 or 2 interrupted frames occur.
- Lookup, inside the x86 run: a code object of 6 header words and 24 bytes of code, and maps of 1 or 2 functions with starts in {0, 4} and elsewhere starts in {12, 16}. Return address 4124 (offset 4) is a second function's start or inside the first, depending on the map; 4136 (offset 16) is on or past an elsewhere start; 9000 is outside the object (foreign).

**Guard zones**

- 24 pages of stack: both 8-page zones and 8 ordinary pages. Pushes of 1, 2 or 3 pages, so a push crosses a zone boundary and lands on both the first and the last page of a zone. The stack may run 3 pages past its end (`Slack`), enough to see an overrun after a red hit. The arithmetic is translation-invariant, so the real CONTROL_STACK_START and size add nothing.

**Breakpoints**

- A two-instruction Lisp loop and a two-instruction handler (one of them one byte long), a breakpoint possible on the first instruction of each, up to two signals and two nested contexts. That is the smallest layout in which a signal handler can hit a breakpoint while another is being stepped, and in which the one-byte case occurs. Both code blocks start 12 bytes up, where the helper words go.

**Linkage table**

- Five entries, one of each kind the code treats differently (the trampoline; code and data, with and without a library), and every subset of symbols `dlsym` may miss. With the table at the top of a 2^28 address space and targets below and above it, offsets of both signs and both wrap directions occur.

Every action and every branch of the modules with a passing run fires in those runs. `Breakpoints` has only its violation run, which checks safety and assumes no fairness.

## 5. Fairness

- **Leaving regions.** Lisp eventually leaves its without-interrupts and pseudo-atomic regions and its foreign calls. Spec 5 says these regions are short; they do not block.
- **Handlers.** A started handler runs to completion (spec 5: no cancellation).
- **The OS.** The OS delivers an unblocked held signal.
- **Why some are strong.** Ending a without-interrupts region and returning from a handler are disabled again and again by nested pseudo-atomic regions and foreign calls. They are strongly fair.
- **What is never required.** Raising signals, GC faults and `install_handler`.

## 6. Not modelled, and why

**Not modelled yet**

- **Stack walker details.** These are left out:
  - printing and name formatting (`print_entry_points`, `lisp_nth_arg`);
  - `component_ptr_from_pc`, whose result the model takes as the chain's code;
  - the linked walk's cycle case: a frame whose `old_cont` points below it loops until nframes;
  - the do-while printing a NULL frame for a one-frame chain.
- **The MIPS address map.**
- **`interrupt_internal_error`** and the error, halt, function-end and space-overflow cases of `sigtrap_handler`, with `arch_skip_instruction`: each hands the context to Lisp code outside the repository.
- **Redelivery under `SIG_DFL`.** When Lisp sets a pending signal's handler to `SIG_DFL` before re-enabling interrupts, redelivery reaches `lose()` (interrupt.c:253; the comment at 265-269 allows for it, spec 7 says deferral is not an error). Showing it needs a violation run of its own, and the run budget (twelve) is spent; the passing runs never install `SIG_DFL`, so they say nothing about it.
- **A breakpoint on a one-byte instruction** is not written back after its step (x86-arch.c:307); the code reports it. A property of Lisp's table would need a run of its own.
- **Guard zones composed with the engine.** `GuardZones` takes the SIGSEGV as handled at once; a deferrable signal whose frame would land in a guarded page needs the kernel's behaviour on a failed frame write, which is outside the code.

**Left out for good**

- **Data copies.** The register copies of the bridge (allocation and binding-stack pointers) and `build_fake_control_stack_frame`: data with no control of its own.
- **Pure I/O.** `os_allocate`, `os_allocate_at`, `os_deallocate`, `os_reallocate` and `os_zero` wrap mmap, munmap and memcpy and keep no state of their own; `dlsym` itself is a set of outcomes in `LinkageTable`; cpuid and the FPU mode switch are hardware queries.
- **`convert_lisp_string`.** Symbol names are model values; the 1000-byte buffer and the Unicode truncation are recorded as hazards.
- **`interrupt_handle_now` on x86-64.** It tests `_x86_64` (line 259) where the rest of the file tests `__x86_64`. On x86-64 `were_in_lisp` is then assigned but never declared, and the file does not compile. This is a build error, not behaviour to check.

## 7. Further work

1. `os_zero` (os-common.c:39): `length` underflows when the range ends before the next page boundary, and the first memset zeroes past the range. It is recorded as a hazard; a run for it needs a run slot.
2. An abstract `DeferredDelivery` specification: a signal is handled at once or later, in order, never while interrupts are disabled. `InterruptEngine` would be shown to implement it with `INSTANCE ... WITH`, except where the violations above say it cannot.
