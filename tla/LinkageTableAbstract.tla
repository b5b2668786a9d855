------------------------- MODULE LinkageTableAbstract -------------------------
(***************************************************************************)
(* What the foreign linkage table promises Lisp: every entry starts empty, *)
(* may become lazy (a call through it resolves the symbol first), and once *)
(* bound holds the address of its own symbol for good.  An entry is never  *)
(* bound to another symbol's address, and never goes back.                 *)
(*                                                                         *)
(* LinkageTable, which writes the x86 instruction bytes, implements this   *)
(* specification under the mapping that decodes those bytes.               *)
(***************************************************************************)
CONSTANTS
  Entries,     \* the linkage table's entry numbers
  EntryAddr    \* entry -> address of the entry's symbol

VARIABLE link  \* entry -> None, Lazy or Bound(address)

None == [state |-> "none", addr |-> 0]
Lazy == [state |-> "lazy", addr |-> 0]
Bound(a) == [state |-> "bound", addr |-> a]

States(e) == {None, Lazy, Bound(EntryAddr[e])}

\* The states an entry may move to from s: forward only.
Successors(e, s) ==
  CASE s = None -> States(e)
    [] s = Lazy -> {Lazy, Bound(EntryAddr[e])}
    [] OTHER -> {s}

Init == link = [e \in Entries |-> None]

\* Any number of entries move forward in one step (table initialisation
\* writes them all).
Advance ==
  /\ link' # link
  /\ \A e \in Entries : link'[e] \in Successors(e, link[e])

Spec == Init /\ [][Advance]_link

TypeOK == \A e \in Entries : link[e] \in States(e)
=============================================================================
