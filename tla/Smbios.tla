------------------------------- MODULE Smbios -------------------------------
(***************************************************************************)
(* extract_smbios (smbios.c).  QEMU's anchor and structures are copied to  *)
(* blocks of the F segment that malloc.c hands out.  Room is left below    *)
(* the structures for a type 0 structure, which is put there if a walk of  *)
(* QEMU's structures finds none; the anchor is then brought up to date and *)
(* sealed with two checksums.                                              *)
(*                                                                         *)
(* malloc_fseg is taken not to return a null pointer: Malloc shows that it *)
(* does not as long as the F segment lasts.                                *)
(***************************************************************************)
EXTENDS Malloc, SequencesExt, Bytes

CONSTANTS
  None,       \* no such file
  Machines,   \* an anchor and tables (files), and the structures they hold
  Junk        \* the byte that memory holds before

Addresses == 0 .. ADDR_SPACE - 1

VARIABLES
  machine,
  mem,        \* the bytes of memory
  ep,         \* where the anchor is
  qtables,    \* where QEMU's structures are
  table_header,  \* the structure the walk is at, NULL before the first
  need_t0,
  pc

smbiosVars == <<machine, mem, ep, qtables, table_header, need_t0, pc>>


NULL == 0

-----------------------------------------------------------------------------
(* The anchor: fields of struct smbios_entry_point.                        *)

EP_SIZE == 31
HALF_EP == 16     \* 0x10, where the intermediate anchor starts

LengthOf(e) == mem[e + 5]
max_structure_size(e) == Half(mem, e + 8)
structure_table_length(e) == Half(mem, e + 22)
structure_table_address(e) == Half(mem, e + 24) + 65536 * Half(mem, e + 26)
number_of_structures(e) == Half(mem, e + 28)

\* The last three fields, which follow each other.
TableFields(length, address, number) ==
  LE(length, 2) \o LE(address, 4) \o LE(number, 2)

-----------------------------------------------------------------------------
(* The type 0 structure, smbios_new_type_0.                                *)

T0_SIZE == 24
HDR_SIZE == 4

\* A string of n bytes and its terminator.
Str(n) == [k \in 1 .. n + 1 |-> IF k <= n THEN 120 ELSE 0]

\* "qboot", "0.1" and "11/11/2019", then an empty string.
Type0 ==
  <<0, T0_SIZE, 0, 0>> \o <<1, 2>> \o <<0, 232>> \o <<3, 0>>
    \o <<8, 0, 0, 0, 0, 0, 0, 0>> \o <<0, 4>> \o <<0, 0, 255, 255>>
    \o Str(5) \o Str(3) \o Str(10) \o <<0>>

t0_len == T0_SIZE + 5 + 3 + 10 + 4

\* The F segment ends below 1 MB and has 64 KB; files are of any bytes, and the
\* blocks for them are among those that Malloc knows of.  Only an anchor that says it
\* is shorter than its first half is out: csum8 takes the difference as unsigned and
\* would sum up 4G.
ASSUME SmbiosAssumption ==
  /\ FSEG_END <= 1048576 /\ FSEG_END - EDATA <= 65536 /\ Junk \in Byte
  /\ EP_SIZE \in Sizes /\ 16 \in Aligns
  /\ \A m \in Machines :
       /\ m.anchor # None => m.anchor \in Seq(Byte)
       /\ m.anchor # None /\ Len(m.anchor) = EP_SIZE => m.anchor[6] >= HALF_EP
       /\ m.tables # None => m.tables \in Seq(Byte) /\ Len(m.tables) + t0_len \in Sizes
       /\ m.structs \in Seq(Seq(Byte))

-----------------------------------------------------------------------------
(* smbios_next.                                                            *)

\* Fault: the strings are looked for in the formatted area.
StringsFromHeader(hdr) == hdr + HDR_SIZE

\* Where the search for the end of hdr's strings starts.
StringsFrom(hdr) == hdr + mem[hdr + 1] + 2

\* The search ends at p: two zeros are behind it, or the table is.
EndsAt(p, end) == p >= end \/ (mem[p - 1] = 0 /\ mem[p - 2] = 0)

\* The first byte after hdr, or the end of the table.
AfterStrings(hdr, end) ==
  LET from == StringsFrom(hdr)
  IN  CHOOSE p \in from .. from + end :
        EndsAt(p, end) /\ \A q \in from .. p - 1 : ~EndsAt(q, end)

smbios_next(hdr) ==
  LET start == structure_table_address(ep)
      end == start + structure_table_length(ep)
      ptr == IF hdr = NULL THEN start ELSE AfterStrings(hdr, end)
  IN  IF \/ hdr # NULL /\ hdr + HDR_SIZE > end
         \/ ptr + HDR_SIZE >= end
         \/ ptr + mem[ptr + 1] >= end
      THEN NULL ELSE ptr

-----------------------------------------------------------------------------
(* extract_smbios.                                                         *)

\* The anchor is copied unless it is missing or has another size.
read_anchor ==
  /\ pc = "anchor"
  /\ IF machine.anchor = None \/ Len(machine.anchor) # EP_SIZE
     THEN pc' = "return" /\ UNCHANGED <<mallocVars, mem, ep>>
     ELSE /\ malloc_fseg_align(EP_SIZE, 16)
          /\ ep' = FsegAddr(EP_SIZE, 16)
          /\ mem' = Stored(mem, ep', machine.anchor)
          /\ pc' = "tables"
  /\ UNCHANGED <<machine, qtables, table_header, need_t0>>

\* Fault: no room is left.
TablesAtStart(p) == p

\* QEMU's structures go above the room for type 0.
TablesAt(p) == p + t0_len

read_tables ==
  /\ pc = "tables"
  /\ LET length == structure_table_length(ep)
         size == length + t0_len
     IN  IF machine.tables = None \/ Len(machine.tables) # length
         THEN pc' = "return" /\ UNCHANGED <<mallocVars, mem, qtables>>
         ELSE /\ malloc_fseg_align(size, 16)
              /\ qtables' = TablesAt(FsegAddr(size, 16))
              /\ mem' = Stored(Stored(mem, qtables', machine.tables),
                               ep + 22, TableFields(length, qtables', number_of_structures(ep)))
              /\ pc' = "walk"
  /\ UNCHANGED <<machine, ep, table_header, need_t0>>

\* One turn of the loop: the next structure, if there is one.
walk ==
  /\ pc = "walk"
  /\ table_header' = smbios_next(table_header)
  /\ need_t0' = ~(table_header' # NULL /\ mem[table_header'] = 0)
  /\ pc' = CASE table_header' = NULL -> "type_0"
             [] ~need_t0' -> "seal"
             [] OTHER -> pc
  /\ UNCHANGED <<mallocVars, machine, mem, ep, qtables>>

\* Fault: the size is left alone.
LargestOld(max) == max

Largest(max) == IF t0_len > max THEN t0_len ELSE max

type_0 ==
  /\ pc = "type_0"
  /\ mem' = Stored(Stored(Stored(mem, qtables - t0_len, Type0),
                          ep + 22,
                          TableFields(structure_table_length(ep) + t0_len,
                                      structure_table_address(ep) - t0_len,
                                      number_of_structures(ep) + 1)),
                   ep + 8, LE(Largest(max_structure_size(ep)), 2))
  /\ pc' = "seal"
  /\ UNCHANGED <<mallocVars, machine, ep, qtables, table_header, need_t0>>

SecondSum == LengthOf(ep) - HALF_EP

Sealed(was, sum) == (was - sum) % 256

\* checksum, then intermediate_checksum, which is not in the first sum.
seal ==
  /\ pc = "seal"
  /\ mem' = [mem EXCEPT ![ep + 4] = Sealed(@, csum8(Load(mem, ep, HALF_EP))),
                        ![ep + 21] = Sealed(@, csum8(Load(mem, ep + HALF_EP, SecondSum)))]
  /\ pc' = "done"
  /\ UNCHANGED <<mallocVars, machine, ep, qtables, table_header, need_t0>>

SmbiosInit ==
  /\ MallocInit
  /\ machine \in Machines
  /\ mem = [x \in Addresses |-> Junk]
  /\ ep = NULL /\ qtables = NULL /\ table_header = NULL
  /\ need_t0 = TRUE
  /\ pc = "anchor"

SmbiosNext == read_anchor \/ read_tables \/ walk \/ type_0 \/ seal

-----------------------------------------------------------------------------

Fit == \A z \in Zones : Fits(z)

\* All that extract_smbios writes is in the blocks it asked for: type 0 fills
\* the room below QEMU's structures and no more.
WritesInBlocks ==
  Fit => \A x \in Addresses :
           mem[x] # Junk => \E b \in blocks : b.addr <= x /\ x < b.addr + b.size

\* A structure: a formatted area, and strings up to the first two zeros.
Structure(b) ==
  /\ b[2] \in HDR_SIZE .. Len(b) - 2
  /\ \A k \in b[2] + 2 .. Len(b) : b[k - 1] = 0 /\ b[k] = 0 <=> k = Len(b)

\* QEMU's anchor fits its tables, which are structures without a gap.
Described(m) ==
  /\ m.anchor[6] = EP_SIZE /\ Half(m.anchor, 29) = Len(m.structs)
  /\ m.tables = FlattenSeq(m.structs)
  /\ \A k \in DOMAIN m.structs :
       Structure(m.structs[k]) /\ Len(m.structs[k]) <= Half(m.anchor, 9)

\* The structures a kernel should find.
HasType0 == \E k \in DOMAIN machine.structs : machine.structs[k][1] = 0
Structs == IF HasType0 THEN machine.structs ELSE <<Type0>> \o machine.structs

\* The anchor leads to one run of structures without a gap: QEMU's as they
\* were, with a type 0 before them exactly when they have none, found by
\* walking over formatted areas and strings that hold zeros of their own.
TableWhole ==
  Fit /\ pc = "done" /\ Described(machine) =>
    Load(mem, structure_table_address(ep), structure_table_length(ep))
      = FlattenSeq(Structs)

\* The anchor counts them, no structure is larger than it says, and both halves
\* sum to zero, so that a kernel that sums up the whole anchor and one that looks
\* at the intermediate anchor alone both accept it.
AnchorTrue ==
  Fit /\ pc = "done" /\ Described(machine) =>
    /\ number_of_structures(ep) = Len(Structs)
    /\ \A k \in DOMAIN Structs : Len(Structs[k]) <= max_structure_size(ep)
    /\ csum8(Load(mem, ep, LengthOf(ep))) = 0
    /\ csum8(Load(mem, ep + HALF_EP, LengthOf(ep) - HALF_EP)) = 0

=============================================================================
