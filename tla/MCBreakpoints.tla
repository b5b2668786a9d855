---------------------------- MODULE MCBreakpoints ----------------------------
(***************************************************************************)
(* Instantiates Breakpoints for TLC: a Lisp loop of two two-byte           *)
(* instructions at 16 and 18, and a signal handler of a two-byte and a     *)
(* one-byte instruction at 24 and 26, each with a breakpoint on its first  *)
(* instruction.  Both sit at least 12 bytes up, where the helper words go. *)
(***************************************************************************)
EXTENDS Breakpoints

MC_InsnLen == (16 :> 2) @@ (18 :> 2) @@ (24 :> 2) @@ (26 :> 1)
=============================================================================
