----------------------------- MODULE Breakpoints -----------------------------
(***************************************************************************)
(* The x86 breakpoint and single-step protocol of x86-arch.c.              *)
(*                                                                         *)
(* Lisp code is a straight line of instructions in a small byte memory.    *)
(* A breakpoint is the two bytes INT3 and trap_Breakpoint written over the *)
(* first two bytes of an instruction.  When it is hit, sigtrap_handler     *)
(* backs the PC onto it and Lisp's handle_breakpoint calls                 *)
(* arch_do_displaced_inst, which puts the original bytes back and makes    *)
(* the CPU trap after one instruction: with SC_EFLAGS by setting the trap  *)
(* flag in the context, otherwise by writing pushf/or/popf helper bytes    *)
(* in the 12 bytes before the PC.  The next SIGTRAP while single_stepping  *)
(* is set is taken as that step: the helpers are removed, the breakpoint   *)
(* is written back and single_stepping is cleared.                         *)
(*                                                                         *)
(* The machine runs a stack of contexts: the Lisp code and the handlers of *)
(* asynchronous signals delivered to it.  A byte of memory is abstracted   *)
(* to what it is: an original instruction byte, INT3, the trap code byte,  *)
(* or a helper byte.                                                       *)
(***************************************************************************)
EXTENDS Integers, Sequences, FiniteSets, Functions, TLC

CONSTANTS
  MaxAddr,        \* memory is addresses 0..MaxAddr
  InsnLen,        \* instruction start -> its length in bytes
  MainEntry,      \* first instruction of the Lisp code; it loops there
  MainEnd,        \*   from its last byte + 1
  HandlerEntry,   \* first instruction of the Lisp signal handler, which
  HandlerEnd,     \*   returns (sigreturn) at its last byte + 1
  BpPcs,          \* instructions Lisp may set a breakpoint on
  SC_EFLAGS,      \* TRUE where the context has an eflags word (SC_EFLAGS)
  MaxSignals,     \* bound on asynchronous signals delivered
  MaxDepth        \* bound on nested contexts

Addr == 0..MaxAddr
Byte == {"orig", "int3", "trap", "helper"}
NULL == -1

\* Bytes 1..12 below pc hold the three helper words.
HelperOffsets == 1..12

VARIABLES
  mem,              \* address -> Byte
  breakpoints,      \* Lisp's table: pc -> the orig_inst it saved
  single_stepping,  \* pc of the displaced instruction, or NULL
  single_step_save, \* offset -> byte saved from below single_stepping
  ctx,              \* stack of contexts [pc, tf, trapped]; top is current
  signals           \* asynchronous signals delivered so far

vars == <<mem, breakpoints, single_stepping, single_step_save, ctx, signals>>

Top == ctx[Len(ctx)]
SetTop(c) == ctx' = [ctx EXCEPT ![Len(ctx)] = c]

\* The two bytes at pc, as arch_install_breakpoint returns them (only the
\* low two bytes of the unsigned long are ever written back).
OrigInst(pc) == <<mem[pc], mem[pc + 1]>>

\* Write the two bytes b at pc.
WriteTwo(m, pc, b) == [m EXCEPT ![pc] = b[1], ![pc + 1] = b[2]]

\* arch_install_breakpoint: save the bytes at pc, write INT3 and the trap
\* code.  Lisp keeps the saved value in its breakpoint table.
arch_install_breakpoint(pc) ==
  /\ pc \notin DOMAIN breakpoints
  /\ breakpoints' = breakpoints @@ (pc :> OrigInst(pc))
  /\ mem' = WriteTwo(mem, pc, <<"int3", "trap">>)

\* arch_remove_breakpoint: write the two saved bytes back.
arch_remove_breakpoint(pc) ==
  /\ pc \in DOMAIN breakpoints
  /\ mem' = WriteTwo(mem, pc, breakpoints[pc])
  /\ breakpoints' = [p \in DOMAIN breakpoints \ {pc} |-> breakpoints[p]]

\* arch_do_displaced_inst on the current context at pc: the original bytes
\* go back; the trap flag is set in the context (SC_EFLAGS), or the helper
\* words are written below pc, the old ones saved, and the PC moved to the
\* pushf at pc - 9.  single_stepping becomes pc.
arch_do_displaced_inst(c, orig_inst) ==
  LET pc == c.pc
      restored == WriteTwo(mem, pc, orig_inst)
  IN /\ single_stepping' = pc
     /\ IF SC_EFLAGS
          THEN /\ mem' = restored
               /\ SetTop([c EXCEPT !.tf = TRUE])
               /\ UNCHANGED single_step_save
          ELSE /\ single_step_save' = [k \in HelperOffsets |-> mem[pc - k]]
               /\ mem' = [a \in Addr |->
                            IF a \in {pc - k : k \in HelperOffsets}
                              THEN "helper" ELSE restored[a]]
               /\ SetTop([c EXCEPT !.pc = pc - 9])

\* sigtrap_handler, single-step case: any SIGTRAP while single_stepping is
\* set.  Clear the trap flag (eflags ^= 0x100) or put the saved helper
\* bytes back; write the breakpoint again unless the PC is single_stepping
\* + 1; clear single_stepping.
SigtrapSingleStep(c) ==
  LET ss == single_stepping
      unhelped == IF SC_EFLAGS THEN mem
                  ELSE [a \in Addr |-> IF a \in {ss - k : k \in HelperOffsets}
                                         THEN single_step_save[ss - a]
                                         ELSE mem[a]]
  IN /\ mem' = IF c.pc = ss + 1 THEN unhelped
               ELSE WriteTwo(unhelped, ss, <<"int3", "trap">>)
     /\ SetTop([c EXCEPT !.tf = IF SC_EFLAGS THEN ~c.tf ELSE c.tf,
                         !.trapped = FALSE])
     /\ single_stepping' = NULL
     /\ UNCHANGED <<breakpoints, single_step_save, signals>>

\* sigtrap_handler, case trap_Breakpoint: back the PC onto the INT3 and
\* call handle_breakpoint.  Lisp's handler ends by displacing the
\* instruction of a breakpoint it still has.
SigtrapBreakpoint(c) ==
  LET pc == c.pc - 1
  IN /\ pc \in DOMAIN breakpoints
     /\ arch_do_displaced_inst([c EXCEPT !.pc = pc, !.trapped = FALSE],
                               breakpoints[pc])
     /\ UNCHANGED <<breakpoints, signals>>

\* sigtrap_handler, default case: the byte at the PC is no trap code;
\* interrupt_handle_now passes the SIGTRAP to Lisp, which resumes.
SigtrapOther(c) ==
  /\ mem[c.pc] # "trap"
  /\ SetTop([c EXCEPT !.trapped = FALSE])
  /\ UNCHANGED <<mem, breakpoints, single_stepping, single_step_save, signals>>

\* sigtrap_handler: the SIGTRAP raised in the current context.
sigtrap_handler ==
  /\ ctx # <<>>
  /\ Top.trapped
  /\ IF single_stepping # NULL
       THEN SigtrapSingleStep(Top)
       ELSE \/ /\ mem[Top.pc] = "trap"
               /\ SigtrapBreakpoint(Top)
            \/ SigtrapOther(Top)

\* The next address the current context executes after an instruction
\* at pc of the Lisp code or of a handler.
Next_pc(pc) == pc + InsnLen[pc]

\* The CPU runs one instruction of the current context.  INT3 traps with
\* the PC after it; a helper block (pushf; or [esp],0x100; popf) sets the
\* trap flag and falls through to the displaced instruction; an original
\* instruction runs, and traps after it when the trap flag is set (where
\* the context has no eflags word, the kernel clears the flag as it
\* reports that trace trap).  The byte after an INT3 is never run: it is
\* data for sigtrap_handler.
Execute ==
  /\ ctx # <<>>
  /\ ~Top.trapped
  /\ Top.pc \notin {MainEnd, HandlerEnd}
  /\ LET c == Top IN
       CASE mem[c.pc] = "int3" ->
              SetTop([c EXCEPT !.pc = c.pc + 1, !.trapped = TRUE])
         [] mem[c.pc] = "helper" ->
              SetTop([c EXCEPT !.pc = c.pc + 9, !.tf = TRUE])
         [] mem[c.pc] = "orig" ->
              SetTop([c EXCEPT !.pc = Next_pc(c.pc), !.trapped = c.tf,
                               !.tf = c.tf /\ SC_EFLAGS])
  /\ UNCHANGED <<mem, breakpoints, single_stepping, single_step_save, signals>>

\* The Lisp code loops back to its first instruction.
Loop ==
  /\ Len(ctx) = 1
  /\ Top.pc = MainEnd
  /\ SetTop([Top EXCEPT !.pc = MainEntry])
  /\ UNCHANGED <<mem, breakpoints, single_stepping, single_step_save, signals>>

\* An asynchronous signal is delivered on the way back to the current
\* context; the kernel runs the handler with the trap flag clear.
DeliverSignal ==
  /\ ctx # <<>>
  /\ ~Top.trapped
  /\ signals < MaxSignals
  /\ Len(ctx) < MaxDepth
  /\ ctx' = Append(ctx, [pc |-> HandlerEntry, tf |-> FALSE, trapped |-> FALSE])
  /\ signals' = signals + 1
  /\ UNCHANGED <<mem, breakpoints, single_stepping, single_step_save>>

\* The handler returns; sigreturn restores the interrupted context.
Sigreturn ==
  /\ Len(ctx) > 1
  /\ Top.pc = HandlerEnd
  /\ ctx' = SubSeq(ctx, 1, Len(ctx) - 1)
  /\ UNCHANGED <<mem, breakpoints, single_stepping, single_step_save, signals>>

\* A context whose next instruction is the displaced one (or its helper
\* block): no Lisp code of its own runs before that instruction.
AtDisplaced(c) ==
  /\ single_stepping # NULL
  /\ c.pc \in {single_stepping, single_stepping - 9}

\* Lisp (the debugger) sets or deletes a breakpoint from running code.
SetBreakpoint ==
  /\ ~Top.trapped
  /\ ~AtDisplaced(Top)
  /\ \E pc \in BpPcs : arch_install_breakpoint(pc)
  /\ UNCHANGED <<single_stepping, single_step_save, ctx, signals>>

DeleteBreakpoint ==
  /\ ~Top.trapped
  /\ ~AtDisplaced(Top)
  /\ \E pc \in BpPcs : arch_remove_breakpoint(pc)
  /\ UNCHANGED <<single_stepping, single_step_save, ctx, signals>>

Init ==
  /\ mem = [a \in Addr |-> "orig"]
  /\ breakpoints = <<>>
  /\ single_stepping = NULL
  /\ single_step_save = [k \in HelperOffsets |-> "orig"]
  /\ ctx = <<[pc |-> MainEntry, tf |-> FALSE, trapped |-> FALSE]>>
  /\ signals = 0

Next ==
  \/ Execute
  \/ sigtrap_handler
  \/ Loop
  \/ DeliverSignal
  \/ Sigreturn
  \/ SetBreakpoint
  \/ DeleteBreakpoint

Spec == Init /\ [][Next]_vars

TypeOK ==
  /\ mem \in [Addr -> Byte]
  /\ DOMAIN breakpoints \subseteq BpPcs
  /\ single_stepping \in BpPcs \cup {NULL}
  /\ single_step_save \in [HelperOffsets -> Byte]
  /\ signals \in 0..MaxSignals
  /\ \A i \in DOMAIN ctx : ctx[i].pc \in Addr /\ ctx[i].tf \in BOOLEAN

\* The trap code byte after an INT3 is data for sigtrap_handler and is
\* never run as an instruction: no context is about to execute it except
\* one whose SIGTRAP is still to be handled.  sigtrap_handler takes every
\* SIGTRAP raised while single_stepping is set as the single step.
TrapCodeNeverExecuted ==
  \A i \in DOMAIN ctx : mem[ctx[i].pc] = "trap" => ctx[i].trapped
=============================================================================
