---------------------------- MODULE LinkageTable ----------------------------
(***************************************************************************)
(* The x86 foreign linkage table: os_foreign_linkage_init,                 *)
(* os_resolve_data_linkage, os_link_one_symbol and lazy_resolve_linkage of *)
(* src/src/lisp/os-common.c, and the entry writers of x86-arch.c.          *)
(*                                                                         *)
(* LINKAGE_TABLE_DATA is a vector of three words per entry: symbol name,   *)
(* type (1 code, 2 data) and library list.  Entry e occupies               *)
(* LinkageEntrySize bytes at FOREIGN_LINKAGE_SPACE_START + 8e.  A code     *)
(* entry is "JMP rel32; NOP" to its symbol, or, until resolved, "CALL      *)
(* rel32; NOP" to entry 0, whose JMP leads to resolve_linkage_tramp: that  *)
(* assembly routine passes the CALL's return address to                    *)
(* lazy_resolve_linkage, which links the entry and returns the address the *)
(* trampoline then jumps to.  A data entry holds the symbol's address.     *)
(*                                                                         *)
(* mem holds the table's bytes.  The rel32 and address words are four      *)
(* bytes of ByteBits bits each (8 in the code) and wrap modulo             *)
(* Word = 2^(4*ByteBits), as the 32-bit pointer arithmetic does.           *)
(***************************************************************************)
EXTENDS Integers, Sequences, FiniteSets

CONSTANTS
  ByteBits,                     \* bits per byte of an address word
  FOREIGN_LINKAGE_SPACE_START,
  LinkageData,                  \* the words of LINKAGE_TABLE_DATA
  Names,                        \* symbol names
  SymbolAddr,                   \* name -> address dlsym finds it at
  NIL

Byte == 2^ByteBits
Word == Byte^4

LinkageEntrySize == 8
LINKAGE_DATA_ENTRY_SIZE == 3
LINKAGE_CODE_TYPE == 1
LINKAGE_DATA_TYPE == 2

\* The fill pointer of LINKAGE_TABLE_DATA, and the entries it holds.
table_size == Len(LinkageData)
Entries == 0 .. table_size \div LINKAGE_DATA_ENTRY_SIZE - 1

\* LinkageData[i] for the C index i.
data_vector(i) == LinkageData[i + 1]

Cells == 0 .. (table_size \div LINKAGE_DATA_ENTRY_SIZE) * LinkageEntrySize - 1

VARIABLES
  mem,     \* offset in the linkage space -> byte
  found,   \* name -> whether dlsym finds it (the libraries the image loads)
  phase,   \* "boot", "init" (after os_foreign_linkage_init), "running"
           \* (after os_resolve_data_linkage), or "lost"
  last     \* {} or {the last call through a code entry: entry, where it landed}

vars == <<mem, found, phase, last>>

-----------------------------------------------------------------------------
(* x86-arch.c                                                              *)

\* The four bytes of n, low first: "*reloc_addr++ = offset & 0xff; offset >>= 8".
Bytes(n) == [i \in 1..4 |-> (n \div Byte^(i-1)) % Byte]

\* Store the byte sequence s at address a.
Store(m, a, s) ==
  LET o == a - FOREIGN_LINKAGE_SPACE_START
  IN  [c \in DOMAIN m |-> IF o <= c /\ c < o + Len(s) THEN s[c - o + 1] ELSE m[c]]

reloc_addr(linkage_entry) == FOREIGN_LINKAGE_SPACE_START + linkage_entry * LinkageEntrySize

\* The JMP offset taken from the entry's own address.
arch_make_linkage_entry_NoNext(m, linkage_entry, target_addr, type) ==
  LET r == reloc_addr(linkage_entry)
  IN  CASE type = 1 -> Store(m, r, <<\He9>> \o Bytes(target_addr - r) \o <<\H90>>)
        [] type = 2 -> Store(m, r, Bytes(target_addr))
        [] OTHER -> m

\* Code: JMP rel32 to target_addr, rel32 counted from the next instruction,
\* then a NOP.  Data: the address itself.
arch_make_linkage_entry(m, linkage_entry, target_addr, type) ==
  LET r == reloc_addr(linkage_entry)
  IN  CASE type = 1 -> Store(m, r, <<\He9>> \o Bytes(target_addr - (r + 5)) \o <<\H90>>)
        [] type = 2 -> Store(m, r, Bytes(target_addr))
        [] OTHER -> m

\* CALL rel32 to the first entry (resolve_linkage_tramp), then a NOP.
arch_make_lazy_linkage(m, linkage_entry) ==
  LET r == reloc_addr(linkage_entry)
  IN  Store(m, r, <<\He8>> \o Bytes(FOREIGN_LINKAGE_SPACE_START - (r + 5)) \o <<\H90>>)

\* The entry whose CALL pushed retaddr.
arch_linkage_entry(retaddr) ==
  (((retaddr - 5) - FOREIGN_LINKAGE_SPACE_START) % Word) \div LinkageEntrySize

-----------------------------------------------------------------------------
(* os-common.c                                                             *)

os_dlsym(name) == IF found[name] THEN SymbolAddr[name] ELSE 0

(***************************************************************************)
(* Link entry: out of range returns 0; an undefined symbol calls           *)
(* undefined_foreign_symbol_trap, whose Lisp error unwinds past the rest   *)
(* (trap); otherwise the entry is written and the address returned.        *)
(***************************************************************************)
os_link_one_symbol(m, entry) ==
  LET table_index == entry * LINKAGE_DATA_ENTRY_SIZE
  IN  IF table_index >= table_size - 1
      THEN [ret |-> 0, mem |-> m, trap |-> FALSE]
      ELSE LET target_addr == os_dlsym(data_vector(table_index))
           IN  IF target_addr = 0
               THEN [ret |-> 0, mem |-> m, trap |-> TRUE]
               ELSE [ret |-> target_addr, trap |-> FALSE,
                     mem |-> arch_make_linkage_entry(m, entry, target_addr,
                                                     data_vector(table_index + 1))]

\* The CALL's length taken off the return address twice.
lazy_resolve_linkage_CallStart(m, retaddr) == os_link_one_symbol(m, arch_linkage_entry(retaddr - 5))

\* Link the entry whose CALL pushed retaddr.
lazy_resolve_linkage(m, retaddr) == os_link_one_symbol(m, arch_linkage_entry(retaddr))

\* The loop of os_foreign_linkage_init from index i: entry 0 must be
\* resolve_linkage_tramp, data entries without a library are resolved
\* now (lose() if dlsym fails), every other entry is made lazy.
RECURSIVE foreign_linkage_init(_, _)
foreign_linkage_init(m, i) ==
  IF i >= table_size THEN [mem |-> m, lost |-> FALSE]
  ELSE LET name == data_vector(i)
           type == data_vector(i + 1)
           lib_list == data_vector(i + 2)
           e == i \div LINKAGE_DATA_ENTRY_SIZE
       IN  IF i = 0
           THEN IF type # LINKAGE_CODE_TYPE \/ name # "resolve_linkage_tramp"
                THEN [mem |-> m, lost |-> TRUE]
                ELSE foreign_linkage_init(arch_make_linkage_entry(m, 0,
                                            SymbolAddr["resolve_linkage_tramp"], 1),
                                          i + LINKAGE_DATA_ENTRY_SIZE)
           ELSE IF type = LINKAGE_DATA_TYPE /\ lib_list = NIL
           THEN IF os_dlsym(name) = 0
                THEN [mem |-> m, lost |-> TRUE]
                ELSE foreign_linkage_init(arch_make_linkage_entry(m, e, os_dlsym(name), type),
                                          i + LINKAGE_DATA_ENTRY_SIZE)
           ELSE foreign_linkage_init(arch_make_lazy_linkage(m, e), i + LINKAGE_DATA_ENTRY_SIZE)

\* Resolving the library-less data entries a second time instead.
RECURSIVE resolve_data_linkage_NilLib(_, _)
resolve_data_linkage_NilLib(m, i) ==
  IF i >= table_size THEN [mem |-> m, lost |-> FALSE]
  ELSE LET name == data_vector(i)
           type == data_vector(i + 1)
       IN  IF type = LINKAGE_DATA_TYPE /\ data_vector(i + 2) = NIL
           THEN IF os_dlsym(name) = 0
                THEN [mem |-> m, lost |-> TRUE]
                ELSE resolve_data_linkage_NilLib(
                       arch_make_linkage_entry(m, i \div LINKAGE_DATA_ENTRY_SIZE, os_dlsym(name), type),
                       i + LINKAGE_DATA_ENTRY_SIZE)
           ELSE resolve_data_linkage_NilLib(m, i + LINKAGE_DATA_ENTRY_SIZE)

\* The loop of os_resolve_data_linkage: data entries with a library list.
RECURSIVE resolve_data_linkage(_, _)
resolve_data_linkage(m, i) ==
  IF i >= table_size THEN [mem |-> m, lost |-> FALSE]
  ELSE LET name == data_vector(i)
           type == data_vector(i + 1)
       IN  IF type = LINKAGE_DATA_TYPE /\ data_vector(i + 2) # NIL
           THEN IF os_dlsym(name) = 0
                THEN [mem |-> m, lost |-> TRUE]
                ELSE resolve_data_linkage(
                       arch_make_linkage_entry(m, i \div LINKAGE_DATA_ENTRY_SIZE, os_dlsym(name), type),
                       i + LINKAGE_DATA_ENTRY_SIZE)
           ELSE resolve_data_linkage(m, i + LINKAGE_DATA_ENTRY_SIZE)

-----------------------------------------------------------------------------
(* The table's bytes as the CPU and Lisp read them                         *)

\* Where a call ended when it reached no address.
UNDEFINED == -1   \* the Lisp error of undefined_foreign_symbol_trap
CRASH == -2       \* neither a JMP nor a CALL to entry 0

\* The little-endian word at offset o.
Word32(m, o) == m[o] + Byte * (m[o + 1] + Byte * (m[o + 2] + Byte * m[o + 3]))

\* Where the JMP or CALL at entry e goes: the next instruction plus rel32.
RelTarget(m, e) ==
  (reloc_addr(e) + 5 + Word32(m, e * LinkageEntrySize + 1)) % Word

Type(e) == data_vector(e * LINKAGE_DATA_ENTRY_SIZE + 1)
EntryAddr == [e \in Entries |-> SymbolAddr[data_vector(e * LINKAGE_DATA_ENTRY_SIZE)]]

\* What entry e holds, as an entry state of LinkageTableAbstract: nothing
\* yet (the space is mapped zero-filled), a CALL to entry 0, a JMP to a
\* code address, or a data address.
Decode(m, e) ==
  LET o == e * LinkageEntrySize
  IN  CASE \A c \in o .. o + LinkageEntrySize - 1 : m[c] = 0 -> [state |-> "none", addr |-> 0]
        [] m[o] = \He8 /\ RelTarget(m, e) = FOREIGN_LINKAGE_SPACE_START -> [state |-> "lazy", addr |-> 0]
        [] Type(e) = LINKAGE_CODE_TYPE /\ m[o] = \He9 -> [state |-> "bound", addr |-> RelTarget(m, e)]
        [] Type(e) = LINKAGE_DATA_TYPE -> [state |-> "bound", addr |-> Word32(m, o)]
        [] OTHER -> [state |-> "garbage", addr |-> 0]

-----------------------------------------------------------------------------
(* Operations                                                              *)

\* Startup: os_foreign_linkage_init runs once, lose() ends the process.
ForeignLinkageInit ==
  /\ phase = "boot"
  /\ LET r == foreign_linkage_init(mem, 0)
     IN  /\ mem' = r.mem
         /\ phase' = IF r.lost THEN "lost" ELSE "init"
  /\ UNCHANGED <<found, last>>

\* Once Lisp has opened the libraries: os_resolve_data_linkage.
ResolveDataLinkage ==
  /\ phase = "init"
  /\ LET r == resolve_data_linkage(mem, 0)
     IN  /\ mem' = r.mem
         /\ phase' = IF r.lost THEN "lost" ELSE "running"
  /\ UNCHANGED <<found, last>>

\* register-foreign-linkage calls os_link_one_symbol(entry).
LinkOneSymbol(entry) ==
  /\ phase \in {"init", "running"}
  /\ mem' = os_link_one_symbol(mem, entry).mem
  /\ UNCHANGED <<found, phase, last>>

(***************************************************************************)
(* Lisp calls code entry e.  A JMP lands at its target.  A CALL to entry 0 *)
(* runs entry 0's JMP to resolve_linkage_tramp, which calls                *)
(* lazy_resolve_linkage with the CALL's return address and jumps to the    *)
(* address returned; an undefined symbol ends the call in the Lisp error   *)
(* of undefined_foreign_symbol_trap.  Anything else crashes.               *)
(***************************************************************************)
CallEntry(e) ==
  /\ phase \in {"init", "running"}
  /\ Type(e) = LINKAGE_CODE_TYPE /\ e # 0
  /\ LET o == e * LinkageEntrySize
         viaTramp == /\ mem[o] = \He8 /\ RelTarget(mem, e) = FOREIGN_LINKAGE_SPACE_START
                     /\ mem[0] = \He9
                     /\ RelTarget(mem, 0) = SymbolAddr["resolve_linkage_tramp"]
         r == lazy_resolve_linkage(mem, reloc_addr(e) + 5)
     IN  /\ mem' = IF viaTramp THEN r.mem ELSE mem
         /\ last' = {[entry |-> e,
                      landed |-> CASE mem[o] = \He9 -> RelTarget(mem, e)
                                   [] viaTramp /\ r.trap -> UNDEFINED
                                   [] viaTramp -> r.ret
                                   [] OTHER -> CRASH]}
  /\ UNCHANGED <<found, phase>>

Init ==
  /\ mem = [c \in Cells |-> 0]
  /\ found \in {f \in [Names -> BOOLEAN] : f["resolve_linkage_tramp"]}
  /\ phase = "boot"
  /\ last = {}

Next ==
  \/ ForeignLinkageInit
  \/ ResolveDataLinkage
  \/ \E entry \in Entries \cup {Cardinality(Entries)} : LinkOneSymbol(entry)
  \/ \E e \in Entries : CallEntry(e)

Spec == Init /\ [][Next]_vars

-----------------------------------------------------------------------------
(* Properties                                                              *)

(***************************************************************************)
(* Every call Lisp makes through a code entry, by its JMP or lazily        *)
(* through resolve_linkage_tramp and lazy_resolve_linkage, lands at the    *)
(* address of that entry's own symbol, or ends in the undefined-symbol     *)
(* error when dlsym cannot find it.                                        *)
(***************************************************************************)
CallReachesSymbol ==
  \A call \in last :
    call.landed = IF found[data_vector(call.entry * LINKAGE_DATA_ENTRY_SIZE)]
                  THEN EntryAddr[call.entry] ELSE UNDEFINED

(***************************************************************************)
(* Once os_resolve_data_linkage has run, every data entry, with a library  *)
(* list or without, holds its symbol's address: os_foreign_linkage_init    *)
(* and os_resolve_data_linkage between them resolve all of them.           *)
(***************************************************************************)
DataResolvedWhenRunning ==
  phase = "running" =>
    \A e \in Entries : Type(e) = LINKAGE_DATA_TYPE =>
      Word32(mem, e * LinkageEntrySize) = EntryAddr[e]

(***************************************************************************)
(* The byte table implements LinkageTableAbstract: decoded, each entry     *)
(* only moves from empty to lazy to bound to its own symbol's address.     *)
(***************************************************************************)
Abstract == INSTANCE LinkageTableAbstract
              WITH link <- [e \in Entries |-> Decode(mem, e)]

ImplementsAbstractTable == Abstract!Spec
=============================================================================
