-------------------------- MODULE MCInterruptEngine --------------------------
(***************************************************************************)
(* Instantiates InterruptEngine for TLC: two signals, two si_codes and one *)
(* Lisp handler, as model values.                                          *)
(***************************************************************************)
EXTENDS InterruptEngine

CONSTANTS s1, s2, c1, c2, h1, dfl, ign, none

MC_Signals == {s1, s2}
MC_Codes == {c1, c2}
\* One si_code, where no property tells codes apart.
MC_OneCode == {c1}
MC_LispHandlers == {h1}

\* Lisp installs its handler, or ignores a signal.
MC_InstallHandlerOrIgnore == {h1, ign}
\* Lisp installs its handler only.
MC_InstallHandler == {h1}
=============================================================================
