---------------------------- MODULE MallocProofs ----------------------------
(***************************************************************************)
(* What Malloc promises for every layout, every set of sizes and every set *)
(* of alignments; and the facts about numbers and recursive functions that *)
(* the proofs about its users share.                                       *)
(***************************************************************************)
EXTENDS Malloc, WellFoundedInduction, TLAPS

\* Rounding down to a multiple of a stays within a of the argument.
LEMMA AlignDownBounds ==
  ASSUME NEW x \in Nat, NEW a \in Nat \ {0}
  PROVE  /\ AlignDown(x, a) \in Nat
         /\ AlignDown(x, a) <= x
         /\ x - a < AlignDown(x, a)
  BY DEF AlignDown

\* Rounding down gives a multiple of a, by a quotient no larger than itself.
LEMMA AlignDownMultiple ==
  ASSUME NEW x \in Nat, NEW a \in Nat \ {0}
  PROVE  \E q \in 0 .. AlignDown(x, a) : AlignDown(x, a) = q * a
<1> DEFINE q == x \div a
<1>1. q \in Nat
  OBVIOUS
<1>2. q * a \in Nat /\ q <= q * a
  BY <1>1
<1>3. QED
  BY <1>1, <1>2 DEF AlignDown

-----------------------------------------------------------------------------

InZone(z) == {b \in blocks : b.zone = z}

\* What a zone still has for its next block, as long as it has not been asked
\* for too much: the high zone's blocks fill [malloc_top, STEXT), the F
\* segment's fill [EDATA, fseg_base), and the padding is paid for by demand.
HighInv ==
  Fits("HIGH") =>
    /\ STEXT - demand["HIGH"] <= malloc_top
    /\ malloc_top <= STEXT
    /\ \A b \in InZone("HIGH") :
         malloc_top <= b.addr /\ b.addr + b.size <= STEXT
    /\ \A b, c \in InZone("HIGH") : b # c => Apart(b, c)

FsegInv ==
  Fits("FSEG") =>
    /\ EDATA <= fseg_base
    /\ fseg_base <= EDATA + demand["FSEG"]
    /\ \A b \in InZone("FSEG") :
         EDATA <= b.addr /\ b.addr + b.size <= fseg_base
    /\ \A b, c \in InZone("FSEG") : b # c => Apart(b, c)

MallocIInv == MallocTypeOK /\ HighInv /\ FsegInv /\ BlocksAligned

\* The constants as plain numbers, for the arithmetic below.
LEMMA Numbers ==
  /\ STEXT \in Nat /\ EDATA \in Nat /\ HIGH_BASE \in Nat
  /\ FSEG_END \in Nat /\ ADDR_SPACE \in Nat
  /\ HIGH_BASE < STEXT /\ STEXT < EDATA /\ EDATA < FSEG_END
  /\ FSEG_END < ADDR_SPACE
  BY LayoutAssumption

\* The fields of a block that has been handed out.
LEMMA BlockFields ==
  ASSUME MallocTypeOK, NEW b \in blocks
  PROVE  /\ b.zone \in Zones /\ b.addr \in Nat /\ b.size \in Nat
         /\ b.align \in Nat \ {0}
  BY RequestAssumption DEF MallocTypeOK, Block

\* The inductive invariant gives the two properties that need the demand to
\* fit: blocks of one zone are apart by the invariant, blocks of different
\* zones because the image lies between the zones.
LEMMA IInvImplies == MallocIInv => BlocksInside /\ BlocksApart
<1> SUFFICES ASSUME MallocIInv, \A z \in Zones : Fits(z)
             PROVE  /\ \A b \in blocks : Inside(b)
                    /\ \A b, c \in blocks : b # c => Apart(b, c)
  BY DEF BlocksInside, BlocksApart
<1>0. /\ MallocTypeOK /\ HighInv /\ FsegInv
      /\ Fits("HIGH") /\ Fits("FSEG")
  BY DEF MallocIInv, Zones
<1>1. /\ demand["HIGH"] \in Nat /\ demand["HIGH"] <= STEXT - HIGH_BASE
      /\ demand["FSEG"] \in Nat /\ demand["FSEG"] <= FSEG_END - EDATA
      /\ malloc_top \in Nat /\ fseg_base \in Nat
  BY <1>0, Numbers DEF MallocTypeOK, Zones, Fits, ZoneLow, ZoneHigh
<1>2. ASSUME NEW b \in blocks, b.zone = "HIGH"
      PROVE  HIGH_BASE <= b.addr /\ b.addr + b.size <= STEXT
  BY <1>0, <1>1, <1>2, Numbers, BlockFields DEF HighInv, InZone
<1>3. ASSUME NEW b \in blocks, b.zone = "FSEG"
      PROVE  EDATA <= b.addr /\ b.addr + b.size <= FSEG_END
  BY <1>0, <1>1, <1>3, Numbers, BlockFields DEF FsegInv, InZone
<1>4. ASSUME NEW b \in blocks PROVE Inside(b)
  <2>1. b.zone = "HIGH" \/ b.zone = "FSEG"
    BY <1>0, BlockFields DEF Zones
  <2>2. QED
    BY <1>2, <1>3, <2>1 DEF Inside, ZoneLow, ZoneHigh
<1>5. ASSUME NEW b \in blocks, NEW c \in blocks, b # c
      PROVE  Apart(b, c)
  <2>1. /\ b.zone = "HIGH" \/ b.zone = "FSEG"
        /\ c.zone = "HIGH" \/ c.zone = "FSEG"
    BY <1>0, BlockFields DEF Zones
  <2>2. CASE b.zone = "HIGH" /\ c.zone = "HIGH"
    BY <1>0, <1>5, <2>2 DEF HighInv, InZone
  <2>3. CASE b.zone = "FSEG" /\ c.zone = "FSEG"
    BY <1>0, <1>5, <2>3 DEF FsegInv, InZone
  <2>4. CASE b.zone = "HIGH" /\ c.zone = "FSEG"
    BY <1>0, <1>2, <1>3, <2>4, Numbers, BlockFields DEF Apart
  <2>5. CASE b.zone = "FSEG" /\ c.zone = "HIGH"
    BY <1>0, <1>2, <1>3, <2>5, Numbers, BlockFields DEF Apart
  <2>6. QED
    BY <2>1, <2>2, <2>3, <2>4, <2>5
<1>6. QED
  BY <1>4, <1>5

\* An address below the end of the address space is its own remainder.
LEMMA ModSmall ==
  ASSUME NEW y \in Nat, NEW m \in Nat, y < m
  PROVE  y % m = y
  OBVIOUS

\* A remainder is an address.
LEMMA ModRange ==
  ASSUME NEW y \in Int, NEW m \in Nat \ {0}
  PROVE  y % m \in 0 .. m - 1
  OBVIOUS

-----------------------------------------------------------------------------

\* malloc_align preserves the inductive invariant: the new block lies just below
\* the old malloc_top, the F segment is not touched.
LEMMA HighStep ==
  ASSUME MallocIInv, NEW n \in Sizes, NEW a \in Aligns, malloc_align(n, a)
  PROVE  MallocIInv'
<1> DEFINE x == (malloc_top - n) % ADDR_SPACE
           p == AlignDown(x, a)
           new == [id |-> calls, zone |-> "HIGH", addr |-> p, size |-> n, align |-> a]
<1>1. /\ MallocTypeOK /\ HighInv /\ FsegInv /\ BlocksAligned
      /\ n \in Nat /\ a \in Nat \ {0}
      /\ malloc_top \in 0 .. ADDR_SPACE - 1
      /\ demand["HIGH"] \in Nat /\ demand["FSEG"] \in Nat
      /\ demand \in [Zones -> Nat] /\ calls \in Nat
  BY RequestAssumption DEF MallocIInv, MallocTypeOK, Zones
<1>2. x \in 0 .. ADDR_SPACE - 1
  <2>1. malloc_top - n \in Int /\ ADDR_SPACE \in Nat \ {0}
    BY <1>1, Numbers
  <2>2. QED
    BY <2>1, ModRange
<1> HIDE DEF x
<1>3. /\ p \in Nat /\ p <= x /\ x - a < p
      /\ \E q \in 0 .. p : p = q * a
  <2>1. x \in Nat
    BY <1>2, Numbers
  <2>2. QED
    BY <1>1, <2>1, AlignDownBounds, AlignDownMultiple
<1>4. /\ malloc_top' = p
      /\ fseg_base' = fseg_base
      /\ blocks' = blocks \cup {new}
      /\ calls' = calls + 1
      /\ demand' = [demand EXCEPT !["HIGH"] = @ + n + a - 1]
  BY DEF malloc_align, HighAddr, Hand, x
<1>5. /\ demand'["HIGH"] = demand["HIGH"] + n + a - 1
      /\ demand'["FSEG"] = demand["FSEG"]
      /\ demand' \in [Zones -> Nat]
  BY <1>1, <1>4 DEF Zones
<1> HIDE DEF p
<1>6. MallocTypeOK'
  <2>1. new \in Block
    BY <1>1, <1>3 DEF Block, Zones
  <2>2. QED
    BY <1>1, <1>2, <1>3, <1>4, <1>5, <2>1, Numbers DEF MallocTypeOK
<1>7. HighInv'
  <2> SUFFICES ASSUME Fits("HIGH")'
               PROVE  /\ STEXT - demand'["HIGH"] <= malloc_top'
                      /\ malloc_top' <= STEXT
                      /\ \A b \in InZone("HIGH")' :
                           malloc_top' <= b.addr /\ b.addr + b.size <= STEXT
                      /\ \A b, c \in InZone("HIGH")' : b # c => Apart(b, c)
    BY DEF HighInv, Apart
  <2>1. demand["HIGH"] + n + a - 1 <= STEXT - HIGH_BASE
    BY <1>5 DEF Fits, ZoneLow, ZoneHigh
  <2>2. Fits("HIGH")
    BY <2>1, <1>1, Numbers DEF Fits, ZoneLow, ZoneHigh
  <2>3. STEXT - demand["HIGH"] <= malloc_top /\ malloc_top <= STEXT
    BY <1>1, <2>2 DEF HighInv
  <2>4. x = malloc_top - n
    <3>1. malloc_top - n \in Nat /\ malloc_top - n < ADDR_SPACE
      BY <1>1, <2>1, <2>3, Numbers
    <3>2. QED
      BY <3>1, Numbers, ModSmall DEF x
  <2>5. STEXT - demand'["HIGH"] <= p /\ p + n <= malloc_top /\ p <= STEXT
    BY <1>1, <1>3, <1>5, <2>1, <2>3, <2>4, Numbers
  <2>6. ASSUME NEW b \in InZone("HIGH")
        PROVE  /\ malloc_top <= b.addr /\ b.addr + b.size <= STEXT
               /\ b.addr \in Nat /\ b.size \in Nat
    BY <1>1, <2>2, BlockFields DEF HighInv, InZone
  <2>7. InZone("HIGH")' = InZone("HIGH") \cup {new}
    BY <1>4 DEF InZone
  <2>8. \A b \in InZone("HIGH")' :
          malloc_top' <= b.addr /\ b.addr + b.size <= STEXT
    BY <1>1, <1>3, <1>4, <2>3, <2>5, <2>6, <2>7, Numbers
  <2>9. ASSUME NEW b \in InZone("HIGH")', NEW c \in InZone("HIGH")', b # c
        PROVE  Apart(b, c)
    <3>1. CASE b \in InZone("HIGH") /\ c \in InZone("HIGH")
      BY <1>1, <2>2, <2>9, <3>1 DEF HighInv
    <3>2. CASE b = new /\ c \in InZone("HIGH")
      BY <1>1, <1>3, <2>5, <2>6, <3>2 DEF Apart
    <3>3. CASE c = new /\ b \in InZone("HIGH")
      BY <1>1, <1>3, <2>5, <2>6, <3>3 DEF Apart
    <3>4. QED
      BY <2>7, <2>9, <3>1, <3>2, <3>3
  <2>10. QED
    BY <1>4, <2>5, <2>8, <2>9
<1>8. FsegInv'
  <2>1. InZone("FSEG")' = InZone("FSEG")
    BY <1>4 DEF InZone
  <2>2. Fits("FSEG")' <=> Fits("FSEG")
    BY <1>5 DEF Fits, ZoneLow, ZoneHigh
  <2>3. QED
    BY <1>1, <1>4, <1>5, <2>1, <2>2 DEF FsegInv, Apart
<1>9. BlocksAligned'
  <2>1. Aligned(new)
    BY <1>3 DEF Aligned
  <2>2. QED
    BY <1>1, <1>4, <2>1 DEF BlocksAligned, Aligned
<1>10. QED
  BY <1>6, <1>7, <1>8, <1>9 DEF MallocIInv

\* The block of malloc_fseg_align lies above the old fseg_base, and no address
\* of it wraps, as long as the demand fits.
LEMMA FsegRoom ==
  ASSUME MallocIInv, NEW n \in Sizes, NEW a \in Aligns,
         demand["FSEG"] + n + a - 1 <= FSEG_END - EDATA
  PROVE  LET p == FsegAddr(n, a)
         IN  /\ p \in Nat /\ EDATA <= fseg_base /\ fseg_base <= p
             /\ p + n <= EDATA + (demand["FSEG"] + n + a - 1) /\ p + n <= FSEG_END
             /\ (p + n) % ADDR_SPACE = p + n
<1> DEFINE x == (fseg_base + a - 1) % ADDR_SPACE
           p == AlignDown(x, a)
<1>1. /\ FsegInv /\ n \in Nat /\ a \in Nat \ {0} /\ fseg_base \in Nat
      /\ demand["FSEG"] \in Nat
  BY RequestAssumption, Numbers DEF MallocIInv, MallocTypeOK, Zones
<1>2. Fits("FSEG")
  BY <1>1, Numbers DEF Fits, ZoneLow, ZoneHigh
<1>3. EDATA <= fseg_base /\ fseg_base <= EDATA + demand["FSEG"]
  BY <1>1, <1>2 DEF FsegInv
<1>4. x = fseg_base + a - 1
  <2>1. fseg_base + a - 1 \in Nat /\ fseg_base + a - 1 < ADDR_SPACE
    BY <1>1, <1>3, Numbers
  <2>2. QED
    BY <2>1, Numbers, ModSmall
<1> HIDE DEF x
<1>5. p \in Nat /\ p <= x /\ x - a < p
  <2>1. x \in Nat
    BY <1>1, <1>4
  <2>2. QED
    BY <1>1, <2>1, AlignDownBounds
<1>6. p = FsegAddr(n, a)
  BY DEF FsegAddr, x
<1> HIDE DEF p
<1>7. /\ fseg_base <= p /\ p + n <= EDATA + (demand["FSEG"] + n + a - 1)
      /\ p + n <= FSEG_END
  BY <1>1, <1>3, <1>4, <1>5, Numbers
<1>8. (p + n) % ADDR_SPACE = p + n
  <2>1. p + n \in Nat /\ p + n < ADDR_SPACE
    BY <1>1, <1>5, <1>7, Numbers
  <2>2. QED
    BY <2>1, Numbers, ModSmall
<1>9. QED
  BY <1>3, <1>5, <1>6, <1>7, <1>8

\* malloc_fseg_align preserves it: the new block lies just above the old
\* fseg_base, the high zone is not touched.
LEMMA FsegStep ==
  ASSUME MallocIInv, NEW n \in Sizes, NEW a \in Aligns, malloc_fseg_align(n, a)
  PROVE  MallocIInv'
<1> DEFINE x == (fseg_base + a - 1) % ADDR_SPACE
           p == AlignDown(x, a)
           top == (p + n) % ADDR_SPACE
           new == [id |-> calls, zone |-> "FSEG", addr |-> p, size |-> n, align |-> a]
<1>1. /\ MallocTypeOK /\ HighInv /\ FsegInv /\ BlocksAligned
      /\ n \in Nat /\ a \in Nat \ {0}
      /\ fseg_base \in 0 .. ADDR_SPACE - 1
      /\ demand["HIGH"] \in Nat /\ demand["FSEG"] \in Nat
      /\ demand \in [Zones -> Nat] /\ calls \in Nat
  BY RequestAssumption DEF MallocIInv, MallocTypeOK, Zones
<1>2. x \in 0 .. ADDR_SPACE - 1
  <2>1. fseg_base + a - 1 \in Int /\ ADDR_SPACE \in Nat \ {0}
    BY <1>1, Numbers
  <2>2. QED
    BY <2>1, ModRange
<1> HIDE DEF x
<1>3. /\ p \in Nat /\ p <= x /\ x - a < p
      /\ \E q \in 0 .. p : p = q * a
  <2>1. x \in Nat
    BY <1>2, Numbers
  <2>2. QED
    BY <1>1, <2>1, AlignDownBounds, AlignDownMultiple
<1>4. /\ fseg_base' = top
      /\ malloc_top' = malloc_top
      /\ blocks' = blocks \cup {new}
      /\ calls' = calls + 1
      /\ demand' = [demand EXCEPT !["FSEG"] = @ + n + a - 1]
  BY DEF malloc_fseg_align, FsegAddr, Hand, x
<1>5. /\ demand'["FSEG"] = demand["FSEG"] + n + a - 1
      /\ demand'["HIGH"] = demand["HIGH"]
      /\ demand' \in [Zones -> Nat]
  BY <1>1, <1>4 DEF Zones
<1> HIDE DEF p
<1>6. top \in 0 .. ADDR_SPACE - 1
  <2>1. p + n \in Int /\ ADDR_SPACE \in Nat \ {0}
    BY <1>1, <1>3, Numbers
  <2>2. QED
    BY <2>1, ModRange
<1>7. MallocTypeOK'
  <2>1. new \in Block
    BY <1>1, <1>3 DEF Block, Zones
  <2>2. QED
    BY <1>1, <1>4, <1>5, <1>6, <2>1 DEF MallocTypeOK
<1>8. HighInv'
  <2>1. InZone("HIGH")' = InZone("HIGH")
    BY <1>4 DEF InZone
  <2>2. Fits("HIGH")' <=> Fits("HIGH")
    BY <1>5 DEF Fits, ZoneLow, ZoneHigh
  <2>3. QED
    BY <1>1, <1>4, <1>5, <2>1, <2>2 DEF HighInv, Apart
<1>9. FsegInv'
  <2> SUFFICES ASSUME Fits("FSEG")'
               PROVE  /\ EDATA <= fseg_base'
                      /\ fseg_base' <= EDATA + demand'["FSEG"]
                      /\ \A b \in InZone("FSEG")' :
                           EDATA <= b.addr /\ b.addr + b.size <= fseg_base'
                      /\ \A b, c \in InZone("FSEG")' : b # c => Apart(b, c)
    BY DEF FsegInv, Apart
  <2>1. demand["FSEG"] + n + a - 1 <= FSEG_END - EDATA
    BY <1>5 DEF Fits, ZoneLow, ZoneHigh
  <2>2. Fits("FSEG")
    BY <2>1, <1>1, Numbers DEF Fits, ZoneLow, ZoneHigh
  <2>3. /\ EDATA <= fseg_base /\ fseg_base <= p
        /\ p + n <= EDATA + demand'["FSEG"]
        /\ top = p + n
    <3>1. p = FsegAddr(n, a)
      BY DEF FsegAddr, x, p
    <3>2. QED
      BY <1>5, <2>1, <3>1, FsegRoom
  <2>4. ASSUME NEW b \in InZone("FSEG")
        PROVE  /\ EDATA <= b.addr /\ b.addr + b.size <= fseg_base
               /\ b.addr \in Nat /\ b.size \in Nat
    BY <1>1, <2>2, BlockFields DEF FsegInv, InZone
  <2>5. InZone("FSEG")' = InZone("FSEG") \cup {new}
    BY <1>4 DEF InZone
  <2> HIDE DEF top
  <2>6. \A b \in InZone("FSEG")' :
          EDATA <= b.addr /\ b.addr + b.size <= fseg_base'
    BY <1>1, <1>3, <1>4, <2>3, <2>4, <2>5, Numbers
  <2>7. ASSUME NEW b \in InZone("FSEG")', NEW c \in InZone("FSEG")', b # c
        PROVE  Apart(b, c)
    <3>1. CASE b \in InZone("FSEG") /\ c \in InZone("FSEG")
      BY <1>1, <2>2, <2>7, <3>1 DEF FsegInv
    <3>2. CASE b = new /\ c \in InZone("FSEG")
      BY <1>1, <1>3, <2>3, <2>4, <3>2 DEF Apart
    <3>3. CASE c = new /\ b \in InZone("FSEG")
      BY <1>1, <1>3, <2>3, <2>4, <3>3 DEF Apart
    <3>4. QED
      BY <2>5, <2>7, <3>1, <3>2, <3>3
  <2>8. QED
    BY <1>1, <1>3, <1>4, <2>3, <2>6, <2>7, Numbers
<1>10. BlocksAligned'
  <2>1. Aligned(new)
    BY <1>3 DEF Aligned
  <2>2. QED
    BY <1>1, <1>4, <2>1 DEF BlocksAligned, Aligned
<1>11. QED
  BY <1>7, <1>8, <1>9, <1>10 DEF MallocIInv

\* Neither is called.
LEMMA MallocStutter == MallocIInv /\ UNCHANGED mallocVars => MallocIInv'
  BY DEF mallocVars, MallocIInv, MallocTypeOK, HighInv, FsegInv, BlocksAligned, Aligned,
         Apart, InZone, Fits, Block

\* At first.
LEMMA MallocInitInv == MallocInit => MallocIInv
  BY Numbers
     DEF MallocInit, MallocIInv, MallocTypeOK, HighInv, FsegInv, BlocksAligned,
         InZone, Zones, Fits, ZoneLow, ZoneHigh

\* The allocators of malloc.c, called in any order with any sizes and
\* alignments: the pointers stay addresses and the inductive invariant holds.
THEOREM MallocInvariant == MallocSpec => []MallocIInv
<1>1. MallocInit => MallocIInv
  BY MallocInitInv
<1>2. MallocIInv /\ [MallocNext]_mallocVars => MallocIInv'
  <2> SUFFICES ASSUME MallocIInv, [MallocNext]_mallocVars
               PROVE  MallocIInv'
    OBVIOUS
  <2>1. ASSUME NEW n \in Sizes, NEW a \in Aligns, malloc_align(n, a)
        PROVE  MallocIInv'
    BY <2>1, HighStep
  <2>2. ASSUME NEW n \in Sizes, NEW a \in Aligns, malloc_fseg_align(n, a)
        PROVE  MallocIInv'
    BY <2>2, FsegStep
  <2>3. CASE UNCHANGED mallocVars
    BY <2>3, MallocStutter
  <2>4. QED
    BY <2>1, <2>2, <2>3 DEF MallocNext
<1>3. QED
  BY <1>1, <1>2, PTL DEF MallocSpec

\* malloc.c never hands out a byte outside the zone it serves while the demand
\* on each zone fits it.
THEOREM MallocInside == MallocSpec => []BlocksInside
  BY MallocInvariant, IInvImplies, PTL

\* malloc.c never hands out a byte twice while the demand on each zone fits it.
THEOREM MallocApart == MallocSpec => []BlocksApart
  BY MallocInvariant, IInvImplies, PTL

\* The allocator pointers of malloc.c are always addresses, and every block is
\* aligned as its caller asked.
THEOREM MallocAligned == MallocSpec => []AddressesRight
<1>1. MallocIInv => AddressesRight
  BY DEF MallocIInv, AddressesRight
<1>2. QED
  BY <1>1, MallocInvariant, PTL

-----------------------------------------------------------------------------
(* Numbers and recursive functions.                                        *)

\* The order of numbers as a relation.
LEMMA LessThan ==
  ASSUME NEW m \in Nat, NEW n \in Nat, m < n
  PROVE  <<m, n>> \in OpToRel(<, Nat)
<1>1. OpToRel(<, Nat) = {r \in Nat \X Nat : r[1] < r[2]}
  BY Zenon DEF OpToRel
<1>2. <<m, n>> \in {r \in Nat \X Nat : r[1] < r[2]}
  OBVIOUS
<1>3. QED
  BY <1>1, <1>2

\* A set of numbers has a least one.
LEMMA LeastNumber ==
  ASSUME NEW S, S \subseteq Nat, S # {}
  PROVE  \E n \in S : \A m \in S : n <= m
<1>1. \E n \in S : \A m \in S : ~(<<m, n>> \in OpToRel(<, Nat))
  BY WFMin, NatLessThanWellFounded
<1>2. PICK n \in S : \A m \in S : ~(<<m, n>> \in OpToRel(<, Nat))
  BY <1>1
<1>3. ASSUME NEW m \in S, m < n
      PROVE  FALSE
  <2>1. m \in Nat /\ n \in Nat
    OBVIOUS
  <2>2. <<m, n>> \in OpToRel(<, Nat)
    BY <1>3, <2>1, LessThan
  <2>3. QED
    BY <1>2, <2>2
<1>4. QED
  BY <1>3

\* What starts at 0 and goes on from each number up to n to the next, reaches n.
LEMMA Counting ==
  ASSUME NEW n \in Nat, NEW S, 0 \in S, \A i \in 1 .. n : i - 1 \in S => i \in S
  PROVE  0 .. n \subseteq S
<1> DEFINE Bad == {i \in 0 .. n : i \notin S}
<1>1. ASSUME Bad # {}
      PROVE  FALSE
  <2>1. Bad \subseteq Nat
    OBVIOUS
  <2>2. PICK i \in Bad : \A j \in Bad : i <= j
    <3> HIDE DEF Bad
    <3>1. QED
      BY <1>1, <2>1, LeastNumber
  <2>3. i # 0 /\ i \in 1 .. n /\ i - 1 \in 0 .. n
    OBVIOUS
  <2>4. i - 1 \in S
    BY <2>2, <2>3
  <2>5. QED
    BY <2>3, <2>4
<1>2. QED
  BY <1>1

\* A function defined by recursion on the numbers up to n.
Recurs(g, z, rec, n) == \A i \in 0 .. n : g[i] = IF i = 0 THEN z ELSE rec[i][g[i - 1]]

\* There is one.
LEMMA Recursion ==
  ASSUME NEW n \in Nat, NEW T, NEW z \in T, NEW rec \in [1 .. n -> [T -> T]]
  PROVE  \E g \in [0 .. n -> T] : Recurs(g, z, rec, n)
<1> DEFINE Good(m, g) == \A i \in 0 .. m : g[i] = IF i = 0 THEN z ELSE rec[i][g[i - 1]]
           S == {m \in 0 .. n : \E g \in [0 .. m -> T] : Good(m, g)}
<1>1. 0 \in S
  <2>1. [i \in 0 .. 0 |-> z] \in [0 .. 0 -> T] /\ Good(0, [i \in 0 .. 0 |-> z])
    OBVIOUS
  <2> HIDE DEF Good
  <2>2. \E g \in [0 .. 0 -> T] : Good(0, g)
    BY <2>1
  <2>3. QED
    BY <2>2
<1>2. ASSUME NEW m \in 1 .. n, m - 1 \in S
      PROVE  m \in S
  <2>1. PICK g \in [0 .. m - 1 -> T] : Good(m - 1, g)
    BY <1>2
  <2> DEFINE h == [i \in 0 .. m |-> IF i = m THEN rec[m][g[m - 1]] ELSE g[i]]
  <2>2. h \in [0 .. m -> T]
    OBVIOUS
  <2>3. ASSUME NEW i \in 0 .. m
        PROVE  h[i] = IF i = 0 THEN z ELSE rec[i][h[i - 1]]
    <3>1. CASE i = m
      BY <3>1
    <3>2. CASE i # m
      BY <2>1, <3>2
    <3>3. QED
      BY <3>1, <3>2
  <2>4. Good(m, h)
    BY <2>3
  <2> HIDE DEF Good, h
  <2>5. QED
    BY <2>2, <2>4
<1>3. 0 .. n \subseteq S
  <2> HIDE DEF S
  <2>1. QED
    BY <1>1, <1>2, Counting
<1>4. QED
  BY <1>3 DEF Recurs

\* The arithmetic of a remainder r.
LEMMA Remainder ==
  ASSUME NEW m \in Nat \ {0}, NEW q \in Int, NEW r \in 0 .. m - 1
  PROVE  m * q + r \in Int /\ (m * q + r) \div m = q /\ (m * q + r) % m = r
<1> DEFINE v == m * q + r
<1>1. r \in Nat /\ r < m /\ v \in Int
  OBVIOUS
<1> DEFINE w == v \div m
           u == v % m
<1>2. w \in Int /\ u \in 0 .. m - 1 /\ v = m * w + u
  <2> HIDE DEF v
  <2>1. QED
    BY <1>1
<1>3. w = q
  <2>1. m * (w - q) = r - u
    BY <1>1, <1>2
  <2> HIDE DEF w, u, v
  <2>2. w - q < 1
    BY <1>1, <1>2, <2>1
  <2>3. w - q > -1
    BY <1>1, <1>2, <2>1
  <2>4. QED
    BY <1>2, <2>2, <2>3
<1>4. u = r
  <2> HIDE DEF w, u
  <2>1. QED
    BY <1>1, <1>2, <1>3
<1>5. QED
  BY <1>1, <1>3, <1>4

\* A number is its quotient and its remainder.
LEMMA Division ==
  ASSUME NEW v \in Int, NEW m \in Nat \ {0}
  PROVE  /\ v \div m \in Int /\ v % m \in 0 .. m - 1 /\ v = m * (v \div m) + (v % m)
         /\ v \in Nat => v \div m \in Nat
  OBVIOUS

\* The remainder of a sum is that of the sum with a remainder in it.
LEMMA SumOfRemainder ==
  ASSUME NEW m \in Nat \ {0}, NEW x \in Int, NEW y \in Int
  PROVE  ((x % m) + y) % m = (x + y) % m
<1> DEFINE q == x \div m
           r == x % m
           t == (r + y) \div m
           u == (r + y) % m
<1>1. q \in Int /\ r \in 0 .. m - 1 /\ x = m * q + r
  BY Division
<1> HIDE DEF q, r
<1>2. t \in Int /\ u \in 0 .. m - 1 /\ r + y = m * t + u
  <2>1. r + y \in Int
    BY <1>1
  <2>2. QED
    BY <2>1, Division
<1> HIDE DEF t, u
<1>3. q + t \in Int /\ x + y = m * (q + t) + u
  BY <1>1, <1>2
<1>4. (x + y) % m = u
  BY <1>2, <1>3, Remainder
<1>5. QED
  BY <1>4 DEF u, r
=============================================================================
