------------------------------ MODULE MpTable ------------------------------
(***************************************************************************)
(* mptable.c: the MP floating pointer and configuration table that         *)
(* setup_mptable writes, entry by entry, at the start of the EBDA, over    *)
(* whatever the memory held.  checksum is summed up along the way, while   *)
(* the header it goes to is not complete before the end.                   *)
(***************************************************************************)
EXTENDS Integers, SequencesExt, Bytes

CONSTANTS
  EBDA,         \* where it starts: 0x9fc00
  EBDA_END,     \* where the memory map says it ends
  MEM_END,      \* end of the memory that is modelled
  Cpus,         \* numbers of CPUs a machine may have
  CpuIds,       \* what CPUID returns: pairs of signature and features, as bytes
  OldBytes      \* bytes memory may hold before

Memory == EBDA .. MEM_END - 1

ASSUME MpAssumption ==
  /\ EBDA \in Nat /\ EBDA_END \in EBDA .. EBDA + 1024   \* the last KB below 640K
  /\ MEM_END \in Nat /\ EBDA_END <= MEM_END /\ MEM_END <= 1048576
  /\ Cpus \subseteq Nat /\ OldBytes \subseteq Byte
  /\ \A c \in CpuIds : {c[1], c[2]} \subseteq [1 .. 4 -> Byte]

VARIABLES
  num_cpus, irq0_override,   \* from fw_cfg
  cpuid,                     \* from the CPU
  ebda,                      \* the EBDA and what follows it
  old,                       \* history: what ebda held at the start
  offset, checksum, i,       \* locals of setup_mptable
  mp_pc

mpVars == <<num_cpus, irq0_override, cpuid, ebda, old, offset, checksum, i, mp_pc>>
mpInputs == <<num_cpus, irq0_override, cpuid, old>>

-----------------------------------------------------------------------------

\* The same loop as csum8's, in an int that is cut off where it is used.
mptable_checksum(b) == csum8(b)

\* The byte that makes up for sum: 0 -= sum in 8 bits.
Negated(sum) == (0 - sum) % 256

-----------------------------------------------------------------------------
(* The structures.  Entries start with their type.                         *)

\* Fault: a paragraph too far.
MPTABLE_START_NEXT == EBDA + 16

MPTABLE_START == EBDA

MPF == 16
HEADER == 44

Mpf(sum) == <<95, 77, 80, 95>> \o LE(MPTABLE_START + MPF, 4)
              \o <<1, 4, sum>> \o Zeros(5)

\* "PCMP", "QBOOT   " and "000000000000"; the APIC at 0xfee00000.
Header(length, sum) ==
  <<80, 67, 77, 80>> \o LE(length, 2) \o <<4, sum>>
    \o <<81, 66, 79, 79, 84, 32, 32, 32>> \o [k \in 1 .. 12 |-> 48]
    \o Zeros(8) \o <<0, 0, 224, 254>> \o Zeros(4)

CpuFlag(n) == IF n = 0 THEN 3 ELSE 1

Cpu(n) == <<0, n % 256, 20, CpuFlag(n)>> \o cpuid[1] \o cpuid[2] \o Zeros(8)

Bus == <<1, 0>> \o <<73, 83, 65, 32, 32, 32>>

ApicId == (num_cpus + 1) % 256

IoApic == <<2, ApicId, 20, 1>> \o <<0, 0, 192, 254>>

Pin(n) == IF irq0_override /\ n = 0 THEN 2 ELSE n

Intsrc(n) == <<3, 0>> \o LE(0, 2) \o <<0, n, ApicId, Pin(n)>>

ExtInt == <<4, 3>> \o LE(0, 2) \o <<0, 0, 0, 0>>
Nmi == <<4, 1>> \o LE(0, 2) \o <<0, 0, 255, 1>>

-----------------------------------------------------------------------------
(* setup_mptable.                                                          *)

\* Store b at offset; add it to the checksum and advance.
Put(b) ==
  /\ ebda' = Stored(ebda, MPTABLE_START + offset, b)
  /\ offset' = offset + Len(b)
  /\ checksum' = (checksum + mptable_checksum(b)) % 256

\* The floating pointer, and the header as far as it is known.
mpf ==
  /\ mp_pc = "mpf"
  /\ ebda' = Stored(ebda, MPTABLE_START, Mpf(Negated(mptable_checksum(Mpf(0)))) \o Header(0, 0))
  /\ offset' = MPF + HEADER
  /\ mp_pc' = "cpu"
  /\ UNCHANGED <<mpInputs, checksum, i>>

cpu ==
  /\ mp_pc = "cpu"
  /\ IF i < num_cpus
     THEN Put(Cpu(i)) /\ i' = i + 1 /\ mp_pc' = mp_pc
     ELSE mp_pc' = "bus" /\ UNCHANGED <<ebda, offset, checksum, i>>
  /\ UNCHANGED mpInputs

bus == mp_pc = "bus" /\ Put(Bus) /\ mp_pc' = "ioapic" /\ UNCHANGED <<mpInputs, i>>

ioapic == mp_pc = "ioapic" /\ Put(IoApic) /\ i' = 0 /\ mp_pc' = "intsrc" /\ UNCHANGED mpInputs

\* Fault: the entry for IRQ 2 stays.
SkippedNot(n) == FALSE

\* IRQ 2 has no entry when IRQ 0 has its pin.
Skipped(n) == irq0_override /\ n = 2

\* The entry is written before it is known to be skipped.
intsrc ==
  /\ mp_pc = "intsrc"
  /\ CASE i = 16 -> mp_pc' = "lintsrc" /\ UNCHANGED <<ebda, offset, checksum, i>>
       [] i < 16 /\ Skipped(i) ->
            /\ ebda' = Stored(ebda, MPTABLE_START + offset, Intsrc(i))
            /\ i' = i + 1
            /\ UNCHANGED <<offset, checksum, mp_pc>>
       [] OTHER -> Put(Intsrc(i)) /\ i' = i + 1 /\ mp_pc' = mp_pc
  /\ UNCHANGED mpInputs

extint == mp_pc = "lintsrc" /\ Put(ExtInt) /\ mp_pc' = "nmi" /\ UNCHANGED <<mpInputs, i>>

\* No memset here: every field is stored.
nmi == mp_pc = "nmi" /\ Put(Nmi) /\ mp_pc' = "length" /\ UNCHANGED <<mpInputs, i>>

TableLength == offset - MPF

\* Fault: the header is summed up before it has its length.
HeaderSumEarly == mptable_checksum(Header(0, 0))

HeaderSum == mptable_checksum(Header(TableLength, 0))

\* The length, then the header's share of the sum, then the checksum.
finish ==
  /\ mp_pc = "length"
  /\ checksum' = (checksum + HeaderSum) % 256
  /\ ebda' = Stored(ebda, MPTABLE_START + MPF,
                   Header(TableLength, Negated(checksum')))
  /\ mp_pc' = "done"
  /\ UNCHANGED <<mpInputs, offset, i>>

MpInit ==
  /\ num_cpus \in Cpus /\ irq0_override \in BOOLEAN /\ cpuid \in CpuIds
  /\ \E b \in OldBytes : ebda = [x \in Memory |-> b]
  /\ old = ebda
  /\ offset = 0 /\ checksum = 0 /\ i = 0
  /\ mp_pc = "mpf"

MpNext == mpf \/ cpu \/ bus \/ ioapic \/ intsrc \/ extint \/ nmi \/ finish

-----------------------------------------------------------------------------

\* The structures fit the EBDA: 40 CPUs do in 1024 bytes.
CpusFit == MPF + HEADER + 20 * num_cpus + 8 * (2 + 16 + 2) <= EBDA_END - EBDA

\* What a kernel reads: the table's address and length, and the addresses of
\* the entries it steps over from the end of the header.
TableAddr == Word(ebda, MPTABLE_START + 4)
TableEnd == TableAddr + Half(ebda, TableAddr + 4)
Entries == LET end == TableEnd
               from[a \in EBDA .. MEM_END + 20] ==
                 IF a >= end \/ a >= MEM_END THEN {}
                 ELSE {a} \cup from[a + IF ebda[a] = 0 THEN 20 ELSE 8]
           IN  from[TableAddr + HEADER]

\* Both sums are zero in the end, whatever the memory held before and
\* whichever entries were skipped: the table's is collected while the entries
\* are written and the header only counts once it has its length.
ChecksumsHold ==
  CpusFit /\ mp_pc = "done" =>
    /\ mptable_checksum(Load(ebda, MPTABLE_START, MPF)) = 0
    /\ mptable_checksum(Load(ebda, TableAddr, TableEnd - TableAddr)) = 0

\* A kernel that walks the table finds the CPUs by number, the first of them
\* the boot processor, one I/O APIC whose identifier no CPU has, every
\* interrupt source sent to that APIC, each ISA interrupt and each pin at
\* most once, and only IRQ 2 missing, only when IRQ 0 takes its pin.
EntriesTrue ==
  CpusFit /\ mp_pc = "done" =>
    LET all   == Entries
        cpus  == {a \in all : ebda[a] = 0}
        apics == {a \in all : ebda[a] = 2}
        irqs  == {a \in all : ebda[a] = 3}
    IN  /\ {ebda[a + 1] : a \in cpus} = 0 .. num_cpus - 1
        /\ \A a \in cpus : ebda[a + 3] >= 2 <=> ebda[a + 1] = 0
        /\ \E io \in apics :
             /\ apics = {io}
             /\ \A a \in cpus : ebda[a + 1] # ebda[io + 1]
             /\ \A a \in irqs : ebda[a + 6] = ebda[io + 1]
        /\ \A a, b \in irqs : a # b => ebda[a + 5] # ebda[b + 5] /\ ebda[a + 7] # ebda[b + 7]
        /\ {ebda[a + 5] : a \in irqs} = 0 .. 15 \ IF irq0_override THEN {2} ELSE {}
        /\ \A a \in irqs : ebda[a + 7] # ebda[a + 5] => irq0_override /\ ebda[a + 5] = 0

\* Nothing is written past the memory that extract_e820 reserves for the EBDA,
\* if the structures fit there: nothing in setup_mptable looks at its end.
TableInEbda == CpusFit => \A x \in EBDA_END .. MEM_END - 1 : ebda[x] = old[x]

=============================================================================
