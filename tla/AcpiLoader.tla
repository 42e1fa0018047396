----------------------------- MODULE AcpiLoader -----------------------------
(***************************************************************************)
(* The ACPI table loader (tables.c).  extract_acpi runs a script of QEMU's *)
(* that allocates tables, adds the address of one table to a field of      *)
(* another and fixes checksums.  The handlers work on the bytes of memory, *)
(* in blocks malloc.c hands out.  Reading a file is one step here; FwCfg   *)
(* shows why it may be.                                                    *)
(*                                                                         *)
(* The script is chosen command by command.  What QEMU guarantees about it *)
(* and the handlers do not check is WellFormed.                            *)
(***************************************************************************)
EXTENDS Malloc, Sequences

CONSTANTS
  BASE,       \* values of a byte: 256
  MIN_ALIGN,  \* do_alloc's smallest alignment: 16
  Blob,       \* contents of the files that may be named in a command
  RsdpFiles,  \* those that start with "RSD PTR ": QEMU has one
  Commands    \* commands a script may hold

Files == DOMAIN Blob

ASSUME LoaderAssumption ==
  /\ {BASE, MIN_ALIGN} \subseteq Nat \ {0}
  /\ \A f \in Files : Blob[f] \in Seq(0 .. BASE - 1) /\ Len(Blob[f]) \in Sizes
  /\ RsdpFiles \subseteq Files /\ \A f, g \in RsdpFiles : f = g
  /\ MIN_ALIGN \in Aligns
  /\ \A c \in Commands :
       /\ c.cmd = "ALLOC" => /\ c.align \in Nat
                             /\ c.align >= MIN_ALIGN => c.align \in Aligns
       /\ c.cmd = "PTR" => /\ {c.src, c.dest} \subseteq Files
                           /\ c.offset \in Nat /\ c.size \in 1 .. 8   \* do_ptr's data
       /\ c.cmd = "CHECKSUM" => /\ c.file \in Files
                                /\ {c.offset, c.start, c.len} \subseteq Nat

VARIABLES
  mem,          \* the bytes of memory
  file_address, \* tables.c: where each file is, 0 if it is nowhere
  rsdp_paddr,   \* start_info.rsdp_paddr
  pc,           \* "run", "done" or "panic"
  executed      \* history: the commands so far

loaderVars == <<mem, file_address, rsdp_paddr, pc, executed>>
vars == <<mallocVars, loaderVars>>

Addresses == 0 .. ADDR_SPACE - 1

-----------------------------------------------------------------------------
(* Bytes.                                                                  *)

\* The n bytes at address p, and memory with the bytes b at address p.
Load(p, n) == [i \in 1 .. n |-> mem[(p + i - 1) % ADDR_SPACE]]
Store(p, b) == [a \in Addresses |->
                  LET i == ((a - p) % ADDR_SPACE) + 1 IN
                  IF i <= Len(b) THEN b[i] ELSE mem[a]]

\* A little-endian number, its first n bytes, how many numbers they tell apart.
Value(b) == LET val[i \in 0 .. Len(b)] ==
                  IF i = 0 THEN 0 ELSE BASE * val[i - 1] + b[Len(b) - i + 1]
            IN  val[Len(b)]
ToBytes(v, n) == LET rest[i \in 0 .. n] == IF i = 0 THEN v ELSE rest[i - 1] \div BASE
                 IN  [i \in 1 .. n |-> rest[i - 1] % BASE]
Modulus(n) == LET pow[i \in 0 .. n] == IF i = 0 THEN 1 ELSE BASE * pow[i - 1] IN pow[n]

csum8(b) == LET sum[i \in 0 .. Len(b)] == IF i = 0 THEN 0 ELSE (sum[i - 1] + b[i]) % BASE
            IN  sum[Len(b)]

-----------------------------------------------------------------------------

Stop(why) ==
  /\ pc' = why
  /\ UNCHANGED <<mallocVars, mem, file_address, rsdp_paddr>>

\* Fault: the alignment is taken as it is.
AlignAsked(align) == align

\* do_alloc: at least MIN_ALIGN.
AlignUsed(align) == IF align < MIN_ALIGN THEN MIN_ALIGN ELSE align

\* Fault: the test of the zone is the wrong way round.
IsRsdpAnyZone(c) == c.file \in RsdpFiles /\ c.zone # "FSEG"

\* do_alloc: the file is the RSDP and the zone is the one it is looked for in.
IsRsdp(c) == c.file \in RsdpFiles /\ c.zone = "FSEG"

\* do_alloc.  A name that is not in the directory panics.
do_alloc(c) ==
  IF c.file \notin Files THEN Stop("panic")
  ELSE LET n     == Len(Blob[c.file])
           align == AlignUsed(c.align)
           p     == IF c.zone = "FSEG" THEN FsegAddr(n, align)
                    ELSE HighAddr(n, align)
       IN  /\ IF c.zone = "FSEG" THEN malloc_fseg_align(n, align)
              ELSE malloc_align(n, align)
           /\ file_address' = [file_address EXCEPT ![c.file] = p]
           /\ mem' = Store(p, Blob[c.file])
           /\ rsdp_paddr' = IF IsRsdp(c) THEN p ELSE rsdp_paddr
           /\ UNCHANGED pc

\* Faults: only the lowest byte is added to; all bytes of the union are stored.
PatchedLow(b, p, size) == [b EXCEPT ![1] = (@ + p) % BASE]
PatchedWide(b, p, size) == ToBytes(Value(b) + p, size + 1)

\* do_ptr: the bytes of a field b of a given size after adding an address.
Patched(b, p, size) == ToBytes(Value(b) + p, size)

\* do_ptr.  No check that the field is inside the destination.
do_ptr(c) ==
  LET p == file_address[c.src]
      q == file_address[c.dest]
  IN  IF p = 0 \/ q = 0 THEN Stop("panic")
      ELSE /\ mem' = Store(q + c.offset,
                           Patched(Load(q + c.offset, c.size), p, c.size))
           /\ UNCHANGED <<mallocVars, file_address, rsdp_paddr, pc>>

\* Fault: the old byte is replaced.
FixedReplaced(old, sum) == (0 - sum) % BASE

\* do_checksum: the new checksum byte.
Fixed(old, sum) == (old - sum) % BASE

\* do_checksum, with its check of the range.
do_checksum(c) ==
  LET p == file_address[c.file]
      n == Len(Blob[c.file])
  IN  IF p = 0 \/ c.offset >= n \/ n < c.start \/ c.len > n - c.start
      THEN Stop("panic")
      ELSE /\ mem' = Store(p + c.offset,
                           <<Fixed(mem[(p + c.offset) % ADDR_SPACE],
                                   csum8(Load(p + c.start, c.len)))>>)
           /\ UNCHANGED <<mallocVars, file_address, rsdp_paddr, pc>>

-----------------------------------------------------------------------------
(* The script.                                                             *)

Of(cmd) == {c \in executed : c.cmd = cmd}

\* Offsets in a file that a command reads for good, or writes.
PtrBytes(c) == c.offset .. c.offset + c.size - 1
Covered(c) == c.start .. c.start + c.len - 1

\* No checksum in the file covers any of the bytes already.
Unsealed(file, offsets) ==
  \A s \in Of("CHECKSUM") : s.file = file => Covered(s) \cap offsets = {}

\* QEMU allocates a file once, patches a field once and inside its file, and
\* takes a checksum, whose byte is in the range it covers, after the fields in
\* it are patched.
WellFormed(c) ==
  /\ c \notin executed
  /\ CASE c.cmd = "ALLOC" -> \A a \in Of("ALLOC") : a.file # c.file
       [] c.cmd = "PTR" ->
            /\ \A i \in PtrBytes(c) : i < Len(Blob[c.dest])
            /\ Unsealed(c.dest, PtrBytes(c))
            /\ \A d \in Of("PTR") :
                 d.dest = c.dest => PtrBytes(d) \cap PtrBytes(c) = {}
       [] c.cmd = "CHECKSUM" ->
            /\ c.offset \in Covered(c)
            /\ Unsealed(c.file, {c.offset})
            /\ \A d \in Of("PTR") : d.dest = c.file => c.offset \notin PtrBytes(d)
       [] OTHER -> TRUE

\* One round of the loop of extract_acpi.
Step(c) ==
  /\ pc = "run"
  /\ WellFormed(c)
  /\ executed' = executed \cup {c}
  /\ \/ c.cmd = "ALLOC" /\ do_alloc(c)
     \/ c.cmd = "PTR" /\ do_ptr(c)
     \/ c.cmd = "CHECKSUM" /\ do_checksum(c)
     \/ c.cmd = "QUIT" /\ Stop("done")
     \/ c.cmd \notin {"ALLOC", "PTR", "CHECKSUM", "QUIT"} /\ Stop("panic")

\* The script ends without CMD_QUIT, or there is none.
EndOfScript == pc = "run" /\ Stop("done") /\ UNCHANGED executed

LoaderInit ==
  /\ MallocInit
  /\ mem = [a \in Addresses |-> 0]
  /\ file_address = [f \in Files |-> 0]
  /\ rsdp_paddr = 0
  /\ pc = "run" /\ executed = {}

LoaderNext == (\E c \in Commands : Step(c)) \/ EndOfScript

LoaderSpec == LoaderInit /\ [][LoaderNext]_vars

-----------------------------------------------------------------------------

Placed == {f \in Files : file_address[f] # 0}
Fit == \A z \in Zones : Fits(z)

\* Field [dest, offset, size] holds what QEMU put there plus the address of the
\* table it points to, carries included, and goes on to hold it through every
\* later allocation and patch.
PointersPatched ==
  Fit /\ pc # "panic" =>
    \A c \in Of("PTR") :
      Value(Load(file_address[c.dest] + c.offset, c.size)) =
        (Value(SubSeq(Blob[c.dest], c.offset + 1, c.offset + c.size))
           + file_address[c.src]) % Modulus(c.size)

\* Whatever is allocated, patched or summed up later, a range whose checksum
\* was taken goes on summing to zero.
ChecksumsHold ==
  Fit /\ pc # "panic" =>
    \A c \in Of("CHECKSUM") : csum8(Load(file_address[c.file] + c.start, c.len)) = 0

\* Every other byte of a table is as QEMU sent it: no table is placed over
\* another and no handler writes outside its field.
BytesKept ==
  Fit /\ pc # "panic" =>
    \A f \in Placed : \A i \in 0 .. Len(Blob[f]) - 1 :
      \/ mem[file_address[f] + i] = Blob[f][i + 1]
      \/ \E c \in Of("PTR") : c.dest = f /\ i \in PtrBytes(c)
      \/ \E c \in Of("CHECKSUM") : c.file = f /\ i = c.offset

\* A PVH kernel that follows start_info.rsdp_paddr finds the RSDP, and is given
\* an address whenever the RSDP was put in the F segment.
RsdpFound ==
  \A f \in RsdpFiles :
    (\E c \in Of("ALLOC") : c.file = f /\ c.zone = "FSEG")
      => /\ rsdp_paddr = file_address[f]
         /\ Fit => rsdp_paddr \in EDATA .. FSEG_END

\* Each step of the loader is an allocation as Malloc has it, with an alignment
\* and a size Malloc knows, or none: what is shown of malloc.c holds of tables.
AllocationsAreMalloc == MallocSpec

=============================================================================
