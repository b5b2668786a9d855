------------------------- MODULE MCStackWalkerLinked -------------------------
(* Two code objects with a 4-word header, each with one return-PC object  *)
(* 10 words in and one PC; three frame slots on the control stack.        *)
EXTENDS StackWalkerLinked

MC_Headers ==
  (1000 :> [type |-> "code", len |-> 4]) @@ (1040 :> [type |-> "return_pc", len |-> 10]) @@
  (2000 :> [type |-> "code", len |-> 4]) @@ (2040 :> [type |-> "return_pc", len |-> 10])
MC_CodeObjs == {1000, 2000}
MC_ReturnPcs == (1000 :> {1040}) @@ (2000 :> {2040})
MC_Pcs == (1000 :> {1100}) @@ (2000 :> {2100})
=============================================================================
