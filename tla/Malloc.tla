------------------------------- MODULE Malloc -------------------------------
(***************************************************************************)
(* The two bump allocators of malloc.c.  malloc_align hands out blocks     *)
(* downwards from the start of the firmware's code (stext, 0xf0000 in      *)
(* flat.lds); malloc_fseg_align hands them out upwards from the end of its *)
(* data (edata).  Nothing is ever freed and neither allocator looks at a   *)
(* limit: what keeps their blocks apart, and inside the memory that        *)
(* extract_e820 (main.c) reports as the firmware's, is that the demand is  *)
(* small enough.  This module says how small.                              *)
(***************************************************************************)
EXTENDS Integers

CONSTANTS
  STEXT,      \* &stext, where the firmware image starts (flat.lds)
  EDATA,      \* &edata, where it ends
  HIGH_BASE,  \* lowest address of the "ACPI tables" entry of the e820 map
  FSEG_END,   \* &sinit, where the shadowed reset code starts
  ADDR_SPACE  \* number of addresses: 2^32 in the code

ASSUME LayoutAssumption ==
  /\ {STEXT, EDATA, HIGH_BASE, FSEG_END, ADDR_SPACE} \subseteq Nat
  /\ HIGH_BASE < STEXT
  /\ STEXT < EDATA
  /\ EDATA < FSEG_END
  /\ FSEG_END < ADDR_SPACE

CONSTANTS
  Sizes,      \* block sizes callers ask for
  Aligns      \* alignments callers ask for: powers of two

ASSUME RequestAssumption ==
  /\ Sizes \subseteq Nat
  /\ Aligns \subseteq Nat \ {0}

VARIABLES
  fseg_base,  \* malloc.c: next free byte of the F segment
  malloc_top, \* malloc.c: lowest byte handed out below stext
  blocks,     \* history: the blocks handed out so far
  calls,      \* history: how many, which tells two equal blocks apart
  demand      \* history: bytes asked for in each zone, worst padding included

mallocVars == <<fseg_base, malloc_top, blocks, calls, demand>>

Zones == {"HIGH", "FSEG"}

\* x & -a for a power of two a: x rounded down to a multiple of a.
AlignDown(x, a) == (x \div a) * a

MallocInit ==
  /\ fseg_base = EDATA
  /\ malloc_top = STEXT
  /\ blocks = {}
  /\ calls = 0
  /\ demand = [z \in Zones |-> 0]

\* What every allocation records: the block, and the n bytes and align-1 bytes
\* of padding it may have cost its zone.
Hand(z, p, n, align) ==
  /\ blocks' = blocks \cup {[id |-> calls, zone |-> z, addr |-> p, size |-> n,
                             align |-> align]}
  /\ calls' = calls + 1
  /\ demand' = [demand EXCEPT ![z] = @ + n + align - 1]

\* Fault: the block is not given room of its own.
HighAddrTakesNoRoom(n, align) == AlignDown(malloc_top, align)

\* Fault: round down first, then make room for the block.
HighAddrRoundsTooEarly(n, align) == AlignDown(malloc_top, align) - n

\* The block malloc_align returns; pointer arithmetic wraps.
HighAddr(n, align) == AlignDown((malloc_top - n) % ADDR_SPACE, align)

\* Fault: round down instead of up.
FsegAddrRoundsDown(n, align) == AlignDown(fseg_base, align)

\* The block malloc_fseg_align returns.
FsegAddr(n, align) == AlignDown((fseg_base + align - 1) % ADDR_SPACE, align)

malloc_align(n, align) ==
  /\ malloc_top' = HighAddr(n, align)
  /\ Hand("HIGH", malloc_top', n, align)
  /\ UNCHANGED fseg_base

malloc_fseg_align(n, align) ==
  /\ fseg_base' = (FsegAddr(n, align) + n) % ADDR_SPACE
  /\ Hand("FSEG", FsegAddr(n, align), n, align)
  /\ UNCHANGED malloc_top

MallocNext ==
  \E n \in Sizes, align \in Aligns :
    malloc_align(n, align) \/ malloc_fseg_align(n, align)

MallocSpec == MallocInit /\ [][MallocNext]_mallocVars

-----------------------------------------------------------------------------

Block == [id : Nat, zone : Zones, addr : Nat, size : Sizes, align : Aligns]

\* The allocator pointers stay addresses even when a zone is exhausted.
MallocTypeOK ==
  /\ fseg_base \in 0 .. ADDR_SPACE - 1
  /\ malloc_top \in 0 .. ADDR_SPACE - 1
  /\ blocks \subseteq Block
  /\ calls \in Nat
  /\ demand \in [Zones -> Nat]

\* The memory each zone may use: below the image, what extract_e820 reports as
\* ACPI NVS; above it, what is left of the F segment before the reset code.
ZoneLow(z)  == IF z = "HIGH" THEN HIGH_BASE ELSE EDATA
ZoneHigh(z) == IF z = "HIGH" THEN STEXT ELSE FSEG_END

Fits(z) == demand[z] <= ZoneHigh(z) - ZoneLow(z)

Inside(b) == ZoneLow(b.zone) <= b.addr /\ b.addr + b.size <= ZoneHigh(b.zone)

Aligned(b) == \E q \in 0 .. b.addr : b.addr = q * b.align

\* No byte belongs to both blocks.
Apart(b, c) == b.addr + b.size <= c.addr \/ c.addr + c.size <= b.addr

\* malloc.c checks no limit.  As long as the demand on each zone, worst-case
\* padding included, is at most the zone's size, every block handed out is
\* inside its zone (so no allocation runs into the firmware image, the reset
\* code or memory the e820 map calls usable).
BlocksInside ==
  (\A z \in Zones : Fits(z)) => \A b \in blocks : Inside(b)

\* Under the same condition no two blocks share a byte, whichever of the two
\* allocators handed them out and in whatever order the calls were made.
BlocksApart ==
  (\A z \in Zones : Fits(z)) => \A b, c \in blocks : b # c => Apart(b, c)

BlocksAligned == \A b \in blocks : Aligned(b)

\* Exhausted zone or not, the pointers stay addresses and every block starts at a
\* multiple of the alignment asked for (e820_seg = e820 >> 4 in main.c loses no
\* bits because of it).
AddressesRight == MallocTypeOK /\ BlocksAligned

=============================================================================
