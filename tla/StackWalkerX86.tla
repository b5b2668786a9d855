--------------------------- MODULE StackWalkerX86 ---------------------------
(***************************************************************************)
(* The heuristic frame-pointer walk of backtrace() on x86                  *)
(* (src/src/lisp/backtrace.c, the (i386 || __x86_64) half).               *)
(*                                                                         *)
(* Lisp and C frames share one control stack that grows down.  A Lisp     *)
(* frame keeps its caller's frame pointer at fp-4 and its return address  *)
(* at fp-8 (VM_OCFP_SAVE_OFFSET, VM_RETURN_PC_SAVE_OFFSET); a C frame      *)
(* keeps them at fp and fp+4.  x86_call_context reads both pairs and       *)
(* decides which one is the frame, recursing to break ties.                *)
(*                                                                         *)
(* Addresses are byte addresses; a word is 4 bytes.  The stack is built   *)
(* from a call chain (innermost first, backtrace's own C frame at StartFP) *)
(* whose links are written into their slots; every other word holds a    *)
(* value of Garbage.  The word at StackEnd, just past the stack, holds     *)
(* Garbage too: it is whatever the next mapping has there.                 *)
(*                                                                         *)
(* Return addresses inside the code object at CodeAddr are named by        *)
(* debug_function_from_pc from the code's debug info, which Init chooses   *)
(* among those the compiler emits; others are printed as foreign.          *)
(***************************************************************************)
EXTENDS Integers, Sequences, SequencesExt, FiniteSets

CONSTANTS
  StackStart,        \* control_stack (CONTROL_STACK_START)
  ControlStackSize,  \* control_stack_size, in bytes
  WalkerSP,          \* &p in stack_pointer_p: the walker's own frames are below
  StartFP,           \* %ebp of backtrace itself
  RetAddrs,          \* return addresses into code (above 4096, off the stack)
  Garbage,           \* what the words no frame link occupies may hold
  MaxFrames,         \* bound: frames in a call chain
  NFrames,           \* backtrace's nframes argument
  FreeBSD,           \* __FreeBSD__ && __FreeBSD_version > 400000
  CodeAddr, HeaderWords, MaxFunctions, Offsets, ElsewhereOffsets, NULL,
  CodeSize           \* bytes of the code object after its header

DF == INSTANCE DebugFunctionLookup

\* The saved fp taken from the return address's slot.
VM_OCFP_SAVE_OFFSET_Slip == 1

VM_OCFP_SAVE_OFFSET == 0
VM_RETURN_PC_SAVE_OFFSET == 1

StackEnd == StackStart + ControlStackSize
\* The words of the stack, and the one just past its end.
Words == {StackStart + 4 * i : i \in 0 .. ControlStackSize \div 4}

ASSUME /\ StackStart % 4 = 0 /\ ControlStackSize % 4 = 0
       /\ StackStart + 4 <= WalkerSP /\ WalkerSP < StartFP /\ StartFP + 4 < StackEnd
       /\ \A ra \in RetAddrs : ra > 4096 /\ ra \notin Words
       /\ MaxFrames \in Nat \ {0} /\ NFrames \in Nat /\ FreeBSD \in BOOLEAN

VARIABLES
  chain,   \* the real call chain, innermost frame first
  mem,     \* the stack's words
  out,     \* the frames backtrace printed: return address and next fp
  reads,   \* every address backtrace read
  debugInfo, \* code->debug_info of the code object at CodeAddr
  done

vars == <<chain, mem, out, reads, debugInfo, done>>

-----------------------------------------------------------------------------
(* The stacks a running program has.                                       *)

Kinds == {"lisp", "c"}

\* The caller's frame pointer of frame i; 0 past the outermost frame.
CallerFP(ch, i) == IF i < Len(ch) THEN ch[i + 1].fp ELSE 0

\* The words frame i writes: the saved frame pointer, then the return
\* address (the compiler's and the C ABI's frame layouts).
LinkSlots(ch, i) ==
  IF ch[i].kind = "lisp" THEN <<ch[i].fp - 4, ch[i].fp - 8>>
  ELSE <<ch[i].fp, ch[i].fp + 4>>

SlotValue(ch, a) ==
  LET i == CHOOSE j \in DOMAIN ch : a \in ToSet(LinkSlots(ch, j))
  IN  IF a = LinkSlots(ch, i)[1] THEN CallerFP(ch, i) ELSE ch[i].ra

UsedSlots(ch) == UNION {ToSet(LinkSlots(ch, i)) : i \in DOMAIN ch}

\* Frames at increasing addresses, backtrace's own C frame first, whose
\* link slots are distinct words of the stack above the walker.
Chains ==
  LET fps  == {a \in Words : StartFP < a /\ a < StackEnd}
      Wf(ch) == /\ \A i \in DOMAIN ch : ToSet(LinkSlots(ch, i)) \subseteq {a \in Words : StartFP <= a /\ a < StackEnd}
                /\ Cardinality(UsedSlots(ch)) = 2 * Len(ch)
  IN  {ch \in UNION {
         {[i \in 1 .. Len(f) + 1 |->
             IF i = 1 THEN [fp |-> StartFP, kind |-> "c", ra |-> r[1]]
             ELSE [fp |-> f[i - 1], kind |-> k[i - 1], ra |-> r[i]]]
          : k \in [1 .. Len(f) -> Kinds], r \in [1 .. Len(f) + 1 -> RetAddrs]}
         : f \in {SetToSortSeq(S, <) : S \in {S \in SUBSET fps : Cardinality(S) < MaxFrames}}}
       : Wf(ch)}

Memories(ch) ==
  {[a \in Words |-> IF a \in UsedSlots(ch) THEN SlotValue(ch, a) ELSE g[a]]
     : g \in [Words \ UsedSlots(ch) -> Garbage]}

-----------------------------------------------------------------------------
(* backtrace.c                                                             *)

stack_pointer_p(p) == p < StackEnd /\ p > WalkerSP /\ p % 4 = 0

ra_pointer_p(ra) == ra > 4096 /\ ~stack_pointer_p(ra)

deref(p, offset) == mem[p + 4 * offset]

\* component_ptr_from_pc (gencgc, outside this source): the code object
\* holding ra, or NULL.
component_ptr_from_pc(ra) ==
  IF CodeAddr <= ra /\ ra < CodeAddr + 4 * HeaderWords + CodeSize THEN CodeAddr ELSE NULL

\* What a round of the loop prints for ra: the debug function's name, the
\* code's entry points when there is none, or "Foreign".
FrameName(ra) ==
  IF component_ptr_from_pc(ra) = NULL THEN [kind |-> "foreign", df |-> NULL]
  ELSE LET df == DF!debug_function_from_pc(debugInfo, ra)
       IN  IF df # NULL THEN [kind |-> "function", df |-> df]
           ELSE [kind |-> "entry_points", df |-> NULL]

NoContext(rd) == [ok |-> FALSE, ra |-> 0, ocfp |-> 0, reads |-> rd]
Context(ra, ocfp, rd) == [ok |-> TRUE, ra |-> ra, ocfp |-> ocfp, reads |-> rd]

RECURSIVE x86_call_context(_)

(***************************************************************************)
(* x86_call_context(fp): the caller's return address and frame pointer of *)
(* the frame at fp, or no context.  A reading is valid when its saved fp   *)
(* is a stack pointer above fp and its return address is not on the stack; *)
(* when both are, the one whose own chain continues wins, and when both    *)
(* chains continue the Lisp reading wins (on FreeBSD the larger fp).  The  *)
(* addresses read, the recursive ones included, come with the result.      *)
(***************************************************************************)
x86_call_context(fp) ==
  IF ~stack_pointer_p(fp) THEN NoContext({})
  ELSE LET lisp_ocfp == deref(fp, -(1 + VM_OCFP_SAVE_OFFSET))
           lisp_ra   == deref(fp, -(1 + VM_RETURN_PC_SAVE_OFFSET))
           c_ocfp == deref(fp, 0)
           c_ra   == deref(fp, 1)
           here == {fp - 4 * (1 + VM_OCFP_SAVE_OFFSET), fp - 4 * (1 + VM_RETURN_PC_SAVE_OFFSET), fp, fp + 4}
           lisp_valid_p == lisp_ocfp > fp /\ stack_pointer_p(lisp_ocfp) /\ ra_pointer_p(lisp_ra)
           c_valid_p == c_ocfp > fp /\ stack_pointer_p(c_ocfp) /\ ra_pointer_p(c_ra)
           Lisp(rd) == Context(lisp_ra, lisp_ocfp, rd)
           C(rd) == Context(c_ra, c_ocfp, rd)
       IN  IF lisp_valid_p /\ c_valid_p
           THEN LET lisp_path == x86_call_context(lisp_ocfp)
                    c_path == x86_call_context(c_ocfp)
                    rd == here \cup lisp_path.reads \cup c_path.reads
                IN  CASE lisp_path.ok /\ c_path.ok ->
                           IF FreeBSD /\ ~(lisp_ocfp > c_ocfp) THEN C(rd) ELSE Lisp(rd)
                      [] lisp_path.ok -> Lisp(rd)
                      [] c_path.ok -> C(rd)
                      [] OTHER -> NoContext(rd)
           ELSE IF lisp_valid_p THEN Lisp(here)
           ELSE IF c_valid_p THEN C(here)
           ELSE NoContext(here)

(***************************************************************************)
(* The loop of backtrace(nframes) from fp: each round takes the frame's   *)
(* context or stops, prints the return address (its code's name, or       *)
(* "Foreign fp = next_fp, ra = ra") and moves to next_fp.                  *)
(***************************************************************************)
RECURSIVE BacktraceLoop(_, _)
BacktraceLoop(fp, n) ==
  IF n = 0 THEN [frames |-> <<>>, reads |-> {}]
  ELSE LET ctx == x86_call_context(fp)
       IN  IF ~ctx.ok THEN [frames |-> <<>>, reads |-> ctx.reads]
           ELSE LET rest == BacktraceLoop(ctx.ocfp, n - 1)
                IN  [frames |-> <<[ra |-> ctx.ra, fp |-> ctx.ocfp, name |-> FrameName(ctx.ra)]>> \o rest.frames,
                     reads |-> ctx.reads \cup rest.reads]

\* The loop runs while i <= nframes.
backtrace_Inclusive ==
  /\ ~done
  /\ LET w == BacktraceLoop(StartFP, NFrames + 1)
     IN  out' = w.frames /\ reads' = w.reads
  /\ done' = TRUE
  /\ UNCHANGED <<chain, mem, debugInfo>>

\* backtrace(nframes), started from its own %ebp.
backtrace ==
  /\ ~done
  /\ LET w == BacktraceLoop(StartFP, NFrames)
     IN  out' = w.frames /\ reads' = w.reads
  /\ done' = TRUE
  /\ UNCHANGED <<chain, mem, debugInfo>>

Init ==
  /\ chain \in Chains
  /\ mem \in Memories(chain)
  /\ debugInfo \in DF!DebugInfos
  /\ out = <<>> /\ reads = {} /\ done = FALSE

Next == backtrace

Spec == Init /\ [][Next]_vars

-----------------------------------------------------------------------------
(* Properties                                                              *)

Names ==
  [kind : {"function"}, df : [name : 1 .. MaxFunctions, elsewhere_pc : ElsewhereOffsets]]
  \cup [kind : {"foreign", "entry_points"}, df : {NULL}]

TypeOK ==
  /\ mem \in [Words -> Int]
  /\ out \in Seq([ra : Int, fp : Int, name : Names]) /\ Len(out) <= NFrames
  /\ reads \subseteq Int /\ done \in BOOLEAN

\* The name a frame's return address should print under: the function
\* whose code holds it (DF!Owner), the entry points, or foreign.
OwnerName(ra) ==
  CASE ra < CodeAddr \/ ra >= CodeAddr + 4 * HeaderWords + CodeSize ->
         [kind |-> "foreign", df |-> NULL]
    [] debugInfo.mapType = "simple_vector" ->
         [kind |-> "function", df |-> DF!Owner(debugInfo.map, ra - CodeAddr - 4 * HeaderWords)]
    [] OTHER -> [kind |-> "entry_points", df |-> NULL]

\* What a walk of the chain should print: the return address of each frame,
\* the function it is in and its caller's fp, innermost first, up to
\* nframes of them.
CallChain ==
  [i \in 1 .. Min({NFrames, Len(chain) - 1}) |->
     [ra |-> chain[i].ra, fp |-> chain[i + 1].fp, name |-> OwnerName(chain[i].ra)]]

(***************************************************************************)
(* On a stack whose other words hold no stack address, the heuristic walk *)
(* of x86_call_context recovers the real chain of Lisp and C frames       *)
(* exactly, innermost first, and stops at its end or after nframes; each   *)
(* frame is named by the function whose normal or elsewhere code holds its *)
(* return address, a PC at a function's first byte included.               *)
(***************************************************************************)
BacktraceFindsCallChain == done => out = CallChain

(***************************************************************************)
(* spec.md section 8: the walk never dereferences an address outside the  *)
(* control stack.  x86_call_context reads fp+4 after checking only fp.     *)
(***************************************************************************)
NeverReadsOutsideStack == done => \A a \in reads : StackStart <= a /\ a < StackEnd
=============================================================================
