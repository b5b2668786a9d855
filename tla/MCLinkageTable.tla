--------------------------- MODULE MCLinkageTable ---------------------------
(***************************************************************************)
(* A linkage table of five entries: resolve_linkage_tramp, a code and a    *)
(* data symbol of the runtime (no library list), and a data and a code     *)
(* symbol of a library.  The table sits in the last 256 bytes of the       *)
(* address space, so every JMP and CALL offset wraps around it.            *)
(***************************************************************************)
EXTENDS LinkageTable

MCByteBits == 7

MCStart == 2^28 - 256

MCNames == {"resolve_linkage_tramp", "puts", "environ", "zlibVersion", "deflate"}

MCLinkageData ==
  << "resolve_linkage_tramp", 1, "NIL",
     "puts", 1, "NIL",
     "environ", 2, "NIL",
     "zlibVersion", 2, "libz",
     "deflate", 1, "libz" >>

MCSymbolAddr ==
  [n \in MCNames |->
     CASE n = "resolve_linkage_tramp" -> 4096
       [] n = "puts" -> 8192
       [] n = "environ" -> 2^28 - 100
       [] n = "zlibVersion" -> 5 * 2^16
       [] n = "deflate" -> 10^8]
=============================================================================
