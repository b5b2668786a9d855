------------------------- MODULE DebugFunctionLookup -------------------------
(***************************************************************************)
(* debug_function_from_pc (src/src/lisp/backtrace.c), which the x86        *)
(* backtrace uses to name the function a return address is in;            *)
(* StackWalkerX86 instantiates it.  Owner is the reference it is checked   *)
(* against there.                                                          *)
(*                                                                         *)
(* A code object's debug-info function_map is a simple vector             *)
(*   df1, start2, df2, start3, df3, ...                                    *)
(* of compiled-debug-functions separated by the offsets where the next    *)
(* function's code starts.  Each function also has "elsewhere" code,      *)
(* placed after all the normal code and starting at its elsewhere_pc.     *)
(* Offsets are in bytes from the end of the code header; a boundary is a *)
(* fixnum, [fixnum |-> offset], as the vector holds Lisp objects.         *)
(***************************************************************************)
EXTENDS Integers, Sequences, SequencesExt, FiniteSets

CONSTANTS
  CodeAddr,       \* address of the code object
  HeaderWords,    \* HeaderValue(code->header)
  MaxFunctions,   \* bound: functions in a code object
  Offsets,        \* offsets where functions may start (normal code)
  ElsewhereOffsets, \* offsets where elsewhere code may start
  NULL

ASSUME /\ MaxFunctions \in Nat \ {0} /\ 0 \in Offsets
       /\ \A o \in Offsets, e \in ElsewhereOffsets : o < e

Increasing(s) == \A i \in 1 .. Len(s) - 1 : s[i] < s[i + 1]

\* The function maps the compiler emits: k functions with increasing
\* starts, the first at 0, and increasing elsewhere starts.
FunctionMaps ==
  UNION {
    {[i \in 1 .. 2 * k - 1 |->
        IF i % 2 = 1 THEN [name |-> (i + 1) \div 2, elsewhere_pc |-> e[(i + 1) \div 2]]
        ELSE [fixnum |-> s[i \div 2 + 1]]]
      : s \in {t \in [1 .. k -> Offsets] : t[1] = 0 /\ Increasing(t)},
        e \in {t \in [1 .. k -> ElsewhereOffsets] : Increasing(t)}}
    : k \in 1 .. MaxFunctions}

\* debug_info is a compiled-debug-info instance whose function_map is a
\* simple vector, or an (unimplemented) packed byte map, or no instance.
DebugInfos ==
  [kind : {"instance"}, mapType : {"simple_vector"}, map : FunctionMaps]
  \cup [kind : {"instance"}, mapType : {"unsigned_byte_8"}, map : {<<>>}]
  \cup [kind : {"other"}, mapType : {"none"}, map : {<<>>}]

-----------------------------------------------------------------------------
(* backtrace.c                                                             *)

(***************************************************************************)
(* The for (i = 1;; i += 2) loop over the function map: v[i] is           *)
(* v->data[i - 1].  It returns the function before the first boundary     *)
(* above offset, taking the boundaries from the next function's            *)
(* elsewhere_pc when offset is in elsewhere code, or the last function.   *)
(***************************************************************************)
RECURSIVE Scan(_, _, _, _)
Scan(v, offset, elsewhere_p, i) ==
  IF i = Len(v) THEN v[i]
  ELSE LET next_pc == IF elsewhere_p THEN v[i + 2].elsewhere_pc ELSE v[i + 1].fixnum
       IN  IF offset < next_pc THEN v[i] ELSE Scan(v, offset, elsewhere_p, i + 2)

debug_function_from_pc(di, p) ==
  LET offset == p - CodeAddr - 4 * HeaderWords
      v == di.map
  IN  IF di.kind = "instance" /\ di.mapType = "simple_vector"
      THEN IF Len(v) = 1 THEN v[1]
           ELSE Scan(v, offset, offset >= v[1].elsewhere_pc, 1)
      ELSE NULL

-----------------------------------------------------------------------------
(* Reference                                                               *)

\* Reference: the function whose normal code, or whose elsewhere code,
\* holds offset o.
Owner(v, o) ==
  LET dfs == [k \in 1 .. (Len(v) + 1) \div 2 |-> v[2 * k - 1]]
      start(k) == IF k = 1 THEN 0 ELSE v[2 * k - 2].fixnum
      inElsewhere == o >= dfs[1].elsewhere_pc
      from(k) == IF inElsewhere THEN dfs[k].elsewhere_pc ELSE start(k)
  IN  dfs[Max({k \in DOMAIN dfs : from(k) <= o})]

=============================================================================
