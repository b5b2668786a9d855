-------------------------- MODULE StackWalkerLinked --------------------------
(***************************************************************************)
(* The linked-frame walk of backtrace() on the ports whose Lisp control   *)
(* stack is separate from the C stack (src/src/lisp/backtrace.c, the      *)
(* !(i386 || __x86_64) half).                                             *)
(*                                                                         *)
(* Each struct call_frame holds old_cont (the caller's frame) and          *)
(* saved_lra (the return object into the caller's code).  A saved_lra of  *)
(* NIL marks a caller that was interrupted: its state is in the           *)
(* lisp_interrupt_contexts entry whose CFP register is the caller.        *)
(*                                                                         *)
(* Heap objects are byte addresses with a header (type, length in words). *)
(* Frames live at FrameAddrs, inside [control_stack,                       *)
(* current_control_stack_pointer).  The stacks are those Lisp builds.     *)
(***************************************************************************)
EXTENDS Integers, Sequences, SequencesExt, FiniteSets

CONSTANTS
  StackStart,       \* control_stack
  CSP,              \* current_control_stack_pointer
  FrameAddrs,       \* where frames are
  NULL, NIL,
  Headers,          \* heap address -> [type, len]
  CodeObjs,         \* addresses of code objects
  ReturnPcs,        \* code object -> its return-PC objects (LRAs)
  Pcs,              \* code object -> PCs inside it
  MAX_INTERRUPTS,   \* size of lisp_interrupt_contexts
  NFrames           \* backtrace's nframes argument (>= 1)

ASSUME /\ \A a \in FrameAddrs : StackStart <= a /\ a < CSP
       /\ NFrames \in Nat \ {0}

VARIABLES
  cfp,        \* current_control_frame_pointer
  frames,     \* frame address -> [old_cont, saved_lra]
  contexts,   \* lisp_interrupt_contexts[0 .. free-1]
  model,      \* for the stacks Lisp builds: frame address -> code it runs
  out,        \* the call_info of each printed frame, in order
  done

vars == <<cfp, frames, contexts, model, out, done>>

LRAs == UNION {ReturnPcs[c] : c \in CodeObjs}
AllPcs == UNION {Pcs[c] : c \in CodeObjs}
Links == FrameAddrs \cup {NULL}

-----------------------------------------------------------------------------
(* The stacks the walker may be given.                                     *)

\* A context: its CFP register and whether reg_CODE holds a function
\* pointer (a call that failed before $CODE was fixed up).
Contexts ==
  [cfp : FrameAddrs, fun : {FALSE}, code : CodeObjs, pc : AllPcs, ocfp : {NULL}, lra : {NIL}]
  \cup [cfp : FrameAddrs, fun : {TRUE}, code : {NULL}, pc : {0}, ocfp : FrameAddrs, lra : LRAs]

\* Any links, any LRAs, at most one saved context.
(***************************************************************************)
(* The stacks Lisp builds: a chain of frames at increasing addresses (the *)
(* control stack grows up), innermost last, each running a code object.   *)
(* A callee returns into its caller through an LRA of the caller's code,  *)
(* or, when the caller was interrupted, has NIL there and the caller's    *)
(* context is saved, outer interrupts first.                              *)
(***************************************************************************)
BuiltInits ==
  UNION {
    LET ch == SetToSortSeq(S, <)
        n == Len(ch)
    IN  {[cfp |-> ch[n],
          frames |-> [a \in FrameAddrs |->
                        IF \E i \in 2 .. n : ch[i] = a
                        THEN LET i == CHOOSE j \in 2 .. n : ch[j] = a
                             IN  [old_cont |-> ch[i - 1],
                                  saved_lra |-> IF intr[i - 1] THEN NIL ELSE lra[i - 1]]
                        ELSE [old_cont |-> NULL, saved_lra |-> NIL]],
          contexts |-> [k \in 1 .. Cardinality({i \in 1 .. n - 1 : intr[i]}) |->
                          LET i == CHOOSE j \in 1 .. n - 1 :
                                     intr[j] /\ Cardinality({m \in 1 .. j : intr[m]}) = k
                          IN  [cfp |-> ch[i], fun |-> FALSE, code |-> code[i],
                               pc |-> pc[i], ocfp |-> NULL, lra |-> NIL]],
          model |-> [a \in ToSet(ch) |-> code[CHOOSE i \in 1 .. n : ch[i] = a]]]
         : code \in [1 .. n -> CodeObjs], intr \in [1 .. n - 1 -> BOOLEAN],
           lra \in [1 .. n - 1 -> LRAs], pc \in [1 .. n - 1 -> AllPcs]}
    : S \in {S \in SUBSET FrameAddrs : Cardinality(S) >= 2}}

Built(s) ==
  /\ Cardinality({i \in DOMAIN s.contexts : TRUE}) <= MAX_INTERRUPTS
  /\ \A a \in DOMAIN s.model :
       \A i \in DOMAIN s.contexts : s.contexts[i].cfp = a => s.contexts[i].pc \in Pcs[s.model[a]]
  /\ \A a \in DOMAIN s.model :
       s.frames[a].old_cont # NULL /\ s.frames[a].saved_lra # NIL
         => s.frames[a].saved_lra \in ReturnPcs[s.model[s.frames[a].old_cont]]

-----------------------------------------------------------------------------
(* backtrace.c                                                             *)

HEADER_LENGTH(obj) == Headers[obj].len

\* code_pointer: the code object an LRA or function points into, or NULL.
code_pointer(obj) ==
  CASE Headers[obj].type = "code" -> obj
    [] Headers[obj].type \in {"return_pc", "function", "closure_function"} ->
         IF HEADER_LENGTH(obj) = 0 THEN NULL ELSE obj - 4 * HEADER_LENGTH(obj)
    [] OTHER -> NULL

\* The trace-file offset of pc in code.
PcOffset(pc, code) == IF code = NULL THEN 0 ELSE pc - code - 4 * HEADER_LENGTH(code)

cs_valid_pointer_p(p) == StackStart <= p /\ p < CSP

info_from_sigcontext(info, csp) ==
  IF csp.fun
  THEN [info EXCEPT !.interrupted = TRUE, !.frame = csp.ocfp, !.lra = csp.lra,
                    !.code = code_pointer(csp.lra), !.pc = PcOffset(csp.lra, code_pointer(csp.lra))]
  ELSE [info EXCEPT !.interrupted = TRUE, !.frame = csp.cfp, !.lra = NIL,
                    !.code = code_pointer(csp.code), !.pc = PcOffset(csp.pc, code_pointer(csp.code))]

\* The search of the saved contexts forgets to clear interrupted.
previous_info_KeepInterrupted(info) ==
  IF ~cs_valid_pointer_p(info.frame) THEN [more |-> FALSE, info |-> info]
  ELSE LET this == info.frame
           i1 == [info EXCEPT !.lra = frames[this].saved_lra, !.frame = frames[this].old_cont]
           free == SelectLastInSeq(contexts, LAMBDA c : c.cfp = i1.frame)
       IN  IF i1.frame = NULL \/ i1.frame = this THEN [more |-> FALSE, info |-> i1]
           ELSE IF i1.lra = NIL
           THEN [more |-> TRUE, info |-> IF free = 0 THEN i1 ELSE info_from_sigcontext(i1, contexts[free])]
           ELSE [more |-> TRUE, info |-> [i1 EXCEPT !.code = code_pointer(i1.lra),
                                                   !.pc = PcOffset(i1.lra, code_pointer(i1.lra))]]

(***************************************************************************)
(* previous_info: step from info.frame to its caller.  A frame outside the *)
(* stack ends the walk ("Bogus callee value"), so does a NULL or          *)
(* self-referencing link.  A NIL LRA sends the search down the saved      *)
(* contexts, innermost first, for one whose CFP is the caller; otherwise   *)
(* the LRA names the caller's code and PC.                                 *)
(***************************************************************************)
previous_info(info) ==
  IF ~cs_valid_pointer_p(info.frame) THEN [more |-> FALSE, info |-> info]
  ELSE LET this == info.frame
           i1 == [info EXCEPT !.lra = frames[this].saved_lra, !.frame = frames[this].old_cont,
                              !.interrupted = FALSE]
           free == SelectLastInSeq(contexts, LAMBDA c : c.cfp = i1.frame)
       IN  IF i1.frame = NULL \/ i1.frame = this THEN [more |-> FALSE, info |-> i1]
           ELSE IF i1.lra = NIL
           THEN [more |-> TRUE, info |-> IF free = 0 THEN i1 ELSE info_from_sigcontext(i1, contexts[free])]
           ELSE [more |-> TRUE, info |-> [i1 EXCEPT !.code = code_pointer(i1.lra),
                                                   !.pc = PcOffset(i1.lra, code_pointer(i1.lra))]]

\* info_from_lisp_state: the caller of the current frame.
info_from_lisp_state ==
  previous_info([frame |-> cfp, interrupted |-> FALSE, code |-> NULL, lra |-> 0, pc |-> 0]).info

RECURSIVE BacktraceLoop(_, _)

\* The count tested before it is decremented: one frame more.
BacktraceLoop_PostDecrement(info, n) ==
  <<info>> \o IF n > 0 /\ previous_info(info).more
              THEN BacktraceLoop(previous_info(info).info, n - 1)
              ELSE <<>>

\* The do-while loop of backtrace: print info, then step while frames remain.
BacktraceLoop(info, n) ==
  <<info>> \o IF n - 1 > 0 /\ previous_info(info).more
              THEN BacktraceLoop(previous_info(info).info, n - 1)
              ELSE <<>>

backtrace ==
  /\ ~done
  /\ out' = BacktraceLoop(info_from_lisp_state, NFrames)
  /\ done' = TRUE
  /\ UNCHANGED <<cfp, frames, contexts, model>>

Init ==
  \E s \in {b \in BuiltInits : Built(b)} :
    /\ cfp = s.cfp /\ frames = s.frames /\ contexts = s.contexts /\ model = s.model
    /\ out = <<>> /\ done = FALSE

Next == backtrace

Spec == Init /\ [][Next]_vars

-----------------------------------------------------------------------------
(* Properties                                                              *)

Info == [frame : Links, interrupted : BOOLEAN, code : CodeObjs \cup {NULL},
         lra : LRAs \cup {NIL, 0}, pc : Int]

TypeOK ==
  /\ cfp \in FrameAddrs /\ Len(contexts) <= MAX_INTERRUPTS
  /\ frames \in [FrameAddrs -> [old_cont : Links, saved_lra : LRAs \cup {NIL}]]
  /\ out \in Seq(Info) /\ Len(out) <= NFrames /\ done \in BOOLEAN

\* The chain Lisp built, innermost frame first.
Down == SetToSortSeq(DOMAIN model, >)

(***************************************************************************)
(* On a stack Lisp built, backtrace prints the callers of the current     *)
(* frame in order, up to nframes, each with the code object it runs; a    *)
(* frame is marked interrupted exactly when its callee saved no LRA, and  *)
(* then its code comes from the saved context, not from a stale LRA.      *)
(***************************************************************************)
PrintsCallChain ==
  done =>
    /\ Len(out) = Min({NFrames, Len(Down) - 1})
    /\ \A i \in DOMAIN out :
         /\ out[i].frame = Down[i + 1]
         /\ out[i].code = model[Down[i + 1]]
         /\ out[i].interrupted = (frames[Down[i]].saved_lra = NIL)

=============================================================================
