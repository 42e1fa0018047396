----------------------------- MODULE BootProofs -----------------------------
(***************************************************************************)
(* What a kernel finds.  Loading it, for every kernel QEMU may offer: the  *)
(* parts of a bzImage do not touch each other, the setup part is whole,    *)
(* and what the kernel is told of the rest is true.  Then the memory map.  *)
(***************************************************************************)
EXTENDS Handover, TLAPS

\* Where parse_bzimage puts the parts of a bzImage k, in terms of k alone.
Low(k) == k.protocol < 512 \/ ~k.loaded_high
Early(k) == Low(k) \/ k.protocol < 514
CmdlineTo(k) == IF Early(k) THEN AlignDown(630784 - k.cmdline_size, 16) ELSE 131072
KernelTo(k) == IF Low(k) THEN 65536 ELSE 1048576
InitrdTop(k) ==
  Lesser(IF k.protocol >= 515 THEN k.initrd_addr_max ELSE INITRD_MAX, k.lowmem - 1)
InitrdTo(k) == IF k.initrd_size = 0 THEN NONE
               ELSE AlignDown(InitrdTop(k) - k.initrd_size, 4096)

\* What it leaves in the header.
HeaderOf(k) ==
  [type_of_loader |-> k.protocol >= 512,
   can_use_heap  |-> k.protocol >= 513,
   cmd_line_ptr  |-> IF k.protocol >= 514 THEN CmdlineTo(k) ELSE NONE,
   cmd_line_off  |-> IF k.protocol < 514
                     THEN (CmdlineTo(k) - IF Early(k) THEN 589824 ELSE 65536) % 65536
                     ELSE NONE,
   heap_end      |-> IF k.protocol >= 513
                     THEN (CmdlineTo(k) - (IF Early(k) THEN 589824 ELSE 65536) - 512) % 65536
                     ELSE NONE,
   ramdisk_image |-> InitrdTo(k),
   ramdisk_size  |-> k.initrd_size]

\* The reads that load them, and those of a PVH kernel.
Keys == {"SETUP_DATA", "KERNEL_DATA", "CMDLINE_DATA", "INITRD_DATA"}
Load == [key : Keys, off : Int, addr : Int, len : Int]
L(key, off, addr, len) == [key |-> key, off |-> off, addr |-> addr, len |-> len]
Peek(k) == L("SETUP_DATA", 0, k.setup_addr, PEEK)
Rest(k) == L("SETUP_DATA", PEEK, k.setup_addr + PEEK, k.setup_size - PEEK)
Kern(k) == L("KERNEL_DATA", 0, KernelTo(k), k.kernel_size)
Cmdline(k, addr) == L("CMDLINE_DATA", 0, addr, k.cmdline_size)
Initrd(k, addr) == L("INITRD_DATA", 0, addr, k.initrd_size)
RestOf(k) == IF k.setup_size > PEEK THEN {Rest(k)} ELSE {}
InitrdOf(k, addr) == IF k.initrd_size > 0 THEN {Initrd(k, addr)} ELSE {}

\* A list of loads is the peek, then those in S.
IsLoaded(list, k, S) ==
  /\ list \in Seq(Load) /\ Len(list) >= 1 /\ list[1] = Peek(k)
  /\ {list[i] : i \in 2 .. Len(list)} = S

\* What has been loaded, besides the peek, when a bzImage has got to a step.
LoadedAt(k, at) ==
  CASE at = "rest"    -> {}
    [] at = "kernel"  -> RestOf(k)
    [] at = "cmdline" -> RestOf(k) \cup {Kern(k)}
    [] at = "initrd"  -> RestOf(k) \cup {Kern(k)} \cup {Cmdline(k, CmdlineTo(k))}
    [] at = "linux"   -> RestOf(k) \cup {Kern(k)} \cup {Cmdline(k, CmdlineTo(k))}
                           \cup InitrdOf(k, InitrdTo(k))

Linux == {"rest", "kernel", "cmdline", "initrd", "linux"}
Pvh == {"pvh_initrd", "pvh_map", "pvh"}

Args ==
  [setup_addr : Int, cmdline_addr : Int, kernel_addr : Int, initrd_addr : Int,
   setup_size : Int, kernel_size : Int, cmdline_size : Int, vmlinuz_size : Int,
   initrd_size : Int]

Modules == {<<>>} \cup [paddr : Int, size : Int, cmdline_paddr : Junk]

StartInfo ==
  [nr_modules : Int, cmdline_paddr : Int, memmap_paddr : Int, memmap_entries : Int,
   module : Modules]

TypeInv ==
  /\ kernel \in Kernels /\ args \in Args /\ start_info \in StartInfo
  /\ pc \in {"start", "parse", "mb_info", "multiboot", "panic"} \cup Linux \cup Pvh

\* Before it is known what kind of kernel it is.
EarlyInv ==
  /\ pc \in {"start", "parse"} => malloc_top = MALLOC_TOP
  /\ pc = "start" => loads = <<>>
  /\ pc = "parse" => IsLoaded(loads, kernel, {})
  /\ pc \in {"parse"} \cup Linux =>
       /\ args.setup_addr = kernel.setup_addr
       /\ args.cmdline_size = kernel.cmdline_size
       /\ args.initrd_size = kernel.initrd_size
  /\ pc \in {"parse", "rest"} =>
       cursor = [key |-> "SETUP_DATA", off |-> Lesser(PEEK, kernel.setup_size)]

LinuxInv ==
  pc \in Linux =>
    /\ kernel.magic = "HdrS" /\ header = HeaderOf(kernel) /\ patched = 1
    /\ args.setup_size = kernel.setup_size /\ args.kernel_addr = KernelTo(kernel)
    /\ args.cmdline_addr = CmdlineTo(kernel) /\ args.initrd_addr = InitrdTo(kernel)
    /\ IsLoaded(loads, kernel, LoadedAt(kernel, pc))

\* The command line is the last thing allocated until the memory map is.
PvhInv ==
  pc \in Pvh =>
    /\ kernel.magic = "ELF"
    /\ start_info.cmdline_paddr = AlignDown(MALLOC_TOP - kernel.cmdline_size, 16)
    /\ pc # "pvh" => malloc_top = start_info.cmdline_paddr
    /\ pc = "pvh" =>
         /\ start_info.memmap_paddr =
              AlignDown(start_info.cmdline_paddr - 24 * E820_ENTRIES, 16)
         /\ start_info.memmap_entries = E820_ENTRIES
    /\ IF pc = "pvh_initrd" \/ kernel.initrd_size = 0
       THEN start_info.nr_modules = 0
       ELSE /\ start_info.nr_modules = 1
            /\ start_info.module.paddr = kernel.initrd_addr
            /\ start_info.module.size = kernel.initrd_size
    /\ IsLoaded(loads, kernel,
         {Cmdline(kernel, start_info.cmdline_paddr)}
           \cup IF pc = "pvh_initrd" THEN {} ELSE InitrdOf(kernel, kernel.initrd_addr))

IInv == TypeInv /\ EarlyInv /\ LinuxInv /\ PvhInv

-----------------------------------------------------------------------------
(* Lists of loads.                                                         *)

\* A sequence with one element more.
LEMMA Appended ==
  ASSUME NEW S, NEW a \in Seq(S), NEW x \in S
  PROVE  /\ Append(a, x) \in Seq(S) /\ Len(Append(a, x)) = Len(a) + 1
         /\ Append(a, x)[Len(a) + 1] = x
         /\ \A k \in 1 .. Len(a) : Append(a, x)[k] = a[k]
OBVIOUS

\* The peek is the first load.
LEMMA FirstLoad ==
  ASSUME NEW k, Peek(k) \in Load
  PROVE  IsLoaded(Append(<<>>, Peek(k)), k, {})
<1> DEFINE list == Append(<<>>, Peek(k))
<1>1. list \in Seq(Load) /\ Len(list) = 1 /\ list[1] = Peek(k)
  <2>1. <<>> \in Seq(Load) /\ Len(<<>>) = 0
    OBVIOUS
  <2>2. list \in Seq(Load) /\ Len(list) = Len(<<>>) + 1 /\ list[Len(<<>>) + 1] = Peek(k)
    BY <2>1, Appended
  <2>3. QED
    BY <2>1, <2>2
<1> HIDE DEF list
<1>2. 2 .. Len(list) = {}
  BY <1>1
<1>3. {list[i] : i \in 2 .. Len(list)} = {}
  BY <1>2
<1>4. QED
  BY <1>1, <1>3 DEF IsLoaded, list

\* Another load adds itself.
LEMMA NextLoad ==
  ASSUME NEW k, NEW list, NEW S, NEW l \in Load, IsLoaded(list, k, S)
  PROVE  IsLoaded(Append(list, l), k, S \cup {l})
<1> DEFINE n == Len(list)
           all == Append(list, l)
<1>1. list \in Seq(Load) /\ n \in Nat /\ n >= 1 /\ list[1] = Peek(k)
  BY DEF IsLoaded
<1>2. /\ all \in Seq(Load) /\ Len(all) = n + 1 /\ all[n + 1] = l
      /\ \A i \in 1 .. n : all[i] = list[i]
  BY <1>1, Appended
<1>3. S = {list[i] : i \in 2 .. n}
  BY DEF IsLoaded
<1> HIDE DEF n, all
<1>4. all[1] = Peek(k)
  BY <1>1, <1>2
<1>5. ASSUME NEW x
      PROVE  x \in {all[i] : i \in 2 .. n + 1} <=> x \in S \cup {l}
  <2>1. ASSUME NEW i \in 2 .. n + 1, x = all[i]
        PROVE  x \in S \cup {l}
    <3>1. CASE i = n + 1
      BY <1>2, <2>1, <3>1
    <3>2. CASE i # n + 1
      <4>1. i \in 2 .. n /\ i \in 1 .. n
        BY <1>1, <3>2
      <4>2. x = list[i]
        BY <1>2, <2>1, <4>1
      <4>3. QED
        BY <1>3, <4>1, <4>2
    <3>3. QED
      BY <3>1, <3>2
  <2>2. ASSUME x \in S
        PROVE  x \in {all[i] : i \in 2 .. n + 1}
    <3>1. PICK i \in 2 .. n : x = list[i]
      BY <1>3, <2>2
    <3>2. i \in 2 .. n + 1 /\ i \in 1 .. n
      BY <1>1
    <3>3. x = all[i]
      BY <1>2, <3>1, <3>2
    <3>4. QED
      BY <3>2, <3>3
  <2>3. l \in {all[i] : i \in 2 .. n + 1}
    <3>1. n + 1 \in 2 .. n + 1
      BY <1>1
    <3>2. QED
      BY <1>2, <3>1
  <2>4. QED
    BY <2>1, <2>2, <2>3
<1>6. {all[i] : i \in 2 .. n + 1} = S \cup {l}
  BY <1>5
<1>7. Len(all) >= 1
  BY <1>1, <1>2
<1>8. {all[i] : i \in 2 .. Len(all)} = S \cup {l}
  BY <1>2, <1>6
<1>9. IsLoaded(all, k, S \cup {l})
  BY <1>2, <1>4, <1>7, <1>8 DEF IsLoaded
<1>10. QED
  BY <1>9 DEF all

\* With nothing after the peek there is only the peek.
LEMMA OnlyPeek ==
  ASSUME NEW k, NEW list, IsLoaded(list, k, {})
  PROVE  Len(list) = 1
<1>1. list \in Seq(Load) /\ Len(list) >= 1 /\ {list[i] : i \in 2 .. Len(list)} = {}
  BY DEF IsLoaded
<1>2. Len(list) \in Nat
  BY <1>1
<1>3. ASSUME 2 <= Len(list) PROVE FALSE
  <2>1. 2 \in 2 .. Len(list)
    BY <1>2, <1>3
  <2>2. list[2] \in {list[i] : i \in 2 .. Len(list)}
    BY <2>1
  <2>3. QED
    BY <1>1, <2>2
<1> DEFINE n == Len(list)
<1>4. n \in Nat /\ n >= 1 /\ ~(2 <= n)
  BY <1>1, <1>2, <1>3
<1> HIDE DEF n
<1>5. n = 1
  BY <1>4
<1>6. QED
  BY <1>5 DEF n

\* Every load is the peek or one of the others; and so are those of a key.
LEMMA EachLoad ==
  ASSUME NEW k, NEW list, NEW S, IsLoaded(list, k, S)
  PROVE  /\ list \in Seq(Load) /\ DOMAIN list = 1 .. Len(list) /\ Len(list) \in Nat
         /\ list[1] = Peek(k)
         /\ \A i \in 2 .. Len(list) : list[i] \in S
         /\ \A i \in DOMAIN list : list[i] \in {Peek(k)} \cup S
         /\ \A x \in {Peek(k)} \cup S : \E i \in DOMAIN list : list[i] = x
<1>1. /\ list \in Seq(Load) /\ Len(list) >= 1 /\ list[1] = Peek(k)
      /\ {list[i] : i \in 2 .. Len(list)} = S
  BY DEF IsLoaded
<1>2. Len(list) \in Nat /\ DOMAIN list = 1 .. Len(list)
  BY <1>1
<1>3. \A i \in 2 .. Len(list) : list[i] \in S
  BY <1>1
<1>4. ASSUME NEW i \in DOMAIN list PROVE list[i] \in {Peek(k)} \cup S
  <2>1. i = 1 \/ i \in 2 .. Len(list)
    BY <1>2
  <2>2. QED
    BY <1>1, <1>3, <2>1
<1>5. ASSUME NEW x \in {Peek(k)} \cup S PROVE \E i \in DOMAIN list : list[i] = x
  <2>1. CASE x = Peek(k)
    <3>1. 1 \in DOMAIN list
      BY <1>1, <1>2
    <3>2. QED
      BY <1>1, <2>1, <3>1
  <2>2. CASE x \in S
    <3>1. PICK i \in 2 .. Len(list) : x = list[i]
      BY <1>1, <2>2
    <3>2. i \in DOMAIN list
      BY <1>2
    <3>3. QED
      BY <3>1, <3>2
  <2>3. QED
    BY <2>1, <2>2
<1>6. QED
  BY <1>1, <1>2, <1>3, <1>4, <1>5

\* The loads of a key are the peek, if it has that key, and those of the others.
LEMMA LoadsOfKey ==
  ASSUME NEW S, IsLoaded(loads, kernel, S), NEW key
  PROVE  Loads(key) = {l \in {Peek(kernel)} \cup S : l.key = key}
<1>1. /\ \A i \in DOMAIN loads : loads[i] \in {Peek(kernel)} \cup S
      /\ \A x \in {Peek(kernel)} \cup S : \E i \in DOMAIN loads : loads[i] = x
  BY EachLoad
<1>2. ASSUME NEW l
      PROVE  l \in Loads(key) <=> l \in {m \in {Peek(kernel)} \cup S : m.key = key}
  <2>1. l \in Loads(key) <=> \E i \in DOMAIN loads : loads[i].key = key /\ loads[i] = l
    BY DEF Loads
  <2>2. QED
    BY <1>1, <2>1
<1>3. QED
  BY <1>2

-----------------------------------------------------------------------------
(* The layout.                                                             *)

\* Rounding down loses less than the alignment.
LEMMA Aligned ==
  ASSUME NEW x \in Int
  PROVE  /\ AlignDown(x, 16) \in Int /\ AlignDown(x, 16) <= x /\ x < AlignDown(x, 16) + 16
         /\ AlignDown(x, 4096) \in Int /\ AlignDown(x, 4096) <= x
         /\ x < AlignDown(x, 4096) + 4096
BY SMT DEF AlignDown

\* What is known of a kernel.
LEMMA Fields ==
  ASSUME NEW k \in Kernels
  PROVE  /\ k.protocol \in Nat /\ k.loaded_high \in BOOLEAN /\ k.initrd_addr_max \in Nat
         /\ k.setup_sects \in Nat /\ k.setup_size \in Nat /\ k.setup_addr \in Nat
         /\ k.kernel_size \in Nat /\ k.kernel_addr \in Nat /\ k.cmdline_size \in Nat
         /\ k.initrd_size \in Nat /\ k.initrd_addr \in Nat /\ k.lowmem \in Nat
         /\ k.magic \in {"HdrS", "ELF", "none"} /\ (k.magic = "HdrS" => IsBzImage(k))
<1>1. k \in Kernel
  BY KernelAssumption
<1>2. QED
  BY SMT, <1>1, KernelAssumption DEF Kernel

\* The setup part: at 0x90000 or 0x10000, and at most 32.5K.
LEMMA SetupPlace ==
  ASSUME NEW k \in Kernels, k.magic = "HdrS"
  PROVE  /\ k.setup_addr = IF Early(k) THEN 589824 ELSE 65536
         /\ k.setup_size \in Nat /\ 1024 <= k.setup_size /\ k.setup_size <= 33280
         /\ k.setup_size = ((IF k.setup_sects = 0 THEN 4 ELSE k.setup_sects) + 1) * 512
<1>1. /\ k.setup_size = 512 * (1 + IF k.setup_sects = 0 THEN 4 ELSE k.setup_sects)
      /\ k.setup_sects \in 0 .. 64
      /\ k.setup_addr = IF Early(k) THEN 589824 ELSE 65536
  BY SMT, Fields DEF IsBzImage, Early, Low
<1>2. k.setup_sects \in Nat
  BY SMT, Fields
<1>3. CASE k.setup_sects = 0
  BY SMT, <1>1, <1>3, Fields
<1>4. CASE k.setup_sects # 0
  <2>1. k.setup_size = 512 * (1 + k.setup_sects)
    BY SMT, <1>1, <1>4
  <2>2. k.setup_sects \in 1 .. 64
    BY SMT, <1>1, <1>2, <1>4
  <2>3. /\ 1024 <= k.setup_size /\ k.setup_size <= 33280
        /\ k.setup_size = (k.setup_sects + 1) * 512
    BY SMT, <1>2, <2>1, <2>2
  <2>4. (IF k.setup_sects = 0 THEN 4 ELSE k.setup_sects) = k.setup_sects
    BY <1>4
  <2>5. QED
    BY SMT, <1>1, <1>2, <2>3, <2>4, Fields
<1>5. QED
  BY SMT, <1>3, <1>4

\* The command line: between the setup part and the EBDA, or at 0x20000.
LEMMA CmdlinePlace ==
  ASSUME NEW k \in Kernels, k.magic = "HdrS"
  PROVE  /\ CmdlineTo(k) \in Int /\ k.cmdline_size \in Nat /\ k.cmdline_size >= 1
         /\ Early(k) => /\ CmdlineTo(k) > 624624
                        /\ CmdlineTo(k) + k.cmdline_size <= 630784
         /\ ~Early(k) => /\ CmdlineTo(k) = 131072 /\ k.cmdline_size <= 393216
<1>1. k.cmdline_size \in 1 .. IF Early(k) THEN 6144 ELSE 393216
  BY SMT, Fields DEF IsBzImage, Early, Low
<1>2. k.cmdline_size \in Nat /\ k.cmdline_size >= 1
  BY SMT, <1>1, Fields
<1>3. CASE Early(k)
  <2>1. CmdlineTo(k) = AlignDown(630784 - k.cmdline_size, 16)
    BY SMT, <1>3 DEF CmdlineTo
  <2>2. k.cmdline_size <= 6144
    BY SMT, <1>1, <1>3
  <2>3. 630784 - k.cmdline_size \in Int
    BY SMT, <1>2
  <2>4. QED
    BY SMT, <1>2, <1>3, <2>1, <2>2, <2>3, Aligned
<1>4. CASE ~Early(k)
  BY SMT, <1>1, <1>2, <1>4 DEF CmdlineTo
<1>5. QED
  BY SMT, <1>3, <1>4

\* The ramdisk: at the top of the memory it may be in, above the kernel, which
\* has 4K to spare.
LEMMA HighPlace ==
  ASSUME NEW k \in Kernels, k.magic = "HdrS"
  PROVE  /\ InitrdTop(k) \in Int /\ InitrdTop(k) < k.lowmem /\ 1052672 <= InitrdTop(k)
         /\ Low(k) => k.kernel_size <= 524288
         /\ ~Low(k) => 1048576 + k.kernel_size + 4096 <= InitrdTop(k) - k.initrd_size
         /\ k.initrd_size > 0 =>
              /\ InitrdTo(k) \in Int /\ InitrdTo(k) > 1048576
              /\ InitrdTo(k) + k.initrd_size <= InitrdTop(k)
              /\ ~Low(k) => 1048576 + k.kernel_size < InitrdTo(k)
<1> DEFINE top == IF k.protocol >= 515 /\ k.initrd_addr_max < k.lowmem
                  THEN k.initrd_addr_max
                  ELSE IF k.protocol < 515 /\ INITRD_MAX < k.lowmem THEN INITRD_MAX
                  ELSE k.lowmem - 1
<1>1. /\ k.kernel_size <= IF Low(k) THEN 524288 ELSE top - k.initrd_size - 1052672
      /\ k.initrd_size <= top - 1052672
  BY SMT, Fields DEF IsBzImage, Early, Low
<1>2. /\ k.protocol \in Nat /\ k.initrd_addr_max \in Nat /\ k.lowmem \in Nat
      /\ k.kernel_size \in Nat /\ k.initrd_size \in Nat
  BY SMT, Fields
<1>3. top = InitrdTop(k) /\ top \in Int /\ top < k.lowmem
  BY SMT, <1>2 DEF InitrdTop, Lesser, INITRD_MAX
<1> HIDE DEF top
<1>4. /\ Low(k) => k.kernel_size <= 524288
      /\ ~Low(k) => 1048576 + k.kernel_size + 4096 <= top - k.initrd_size
      /\ 1052672 <= top
  BY SMT, <1>1, <1>2, <1>3
<1>5. ASSUME k.initrd_size > 0
      PROVE  /\ InitrdTo(k) \in Int /\ InitrdTo(k) > 1048576
             /\ InitrdTo(k) + k.initrd_size <= top
             /\ ~Low(k) => 1048576 + k.kernel_size < InitrdTo(k)
  <2>1. InitrdTo(k) = AlignDown(top - k.initrd_size, 4096)
    BY SMT, <1>2, <1>3, <1>5 DEF InitrdTo
  <2>2. top - k.initrd_size \in Int
    BY SMT, <1>2, <1>3
  <2>3. /\ InitrdTo(k) \in Int /\ InitrdTo(k) <= top - k.initrd_size
        /\ top - k.initrd_size < InitrdTo(k) + 4096
    BY SMT, <2>1, <2>2, Aligned
  <2>4. top - k.initrd_size >= 1052672
    BY SMT, <1>1, <1>2, <1>3
  <2>5. InitrdTo(k) > 1048576
    BY SMT, <2>2, <2>3, <2>4
  <2>6. InitrdTo(k) + k.initrd_size <= top
    BY SMT, <1>2, <1>3, <2>3
  <2>7. ~Low(k) => 1048576 + k.kernel_size < InitrdTo(k)
    BY SMT, <1>2, <1>3, <1>4, <2>3
  <2>8. QED
    BY SMT, <2>3, <2>5, <2>6, <2>7
<1>6. QED
  BY SMT, <1>3, <1>4, <1>5

-----------------------------------------------------------------------------
(* The operators of the model, in terms of the kernel alone.               *)

\* What parse_bzimage works out depends on the kernel alone.
LEMMA Worked ==
  ASSUME args.cmdline_size = kernel.cmdline_size, args.initrd_size = kernel.initrd_size
  PROVE  /\ ProtAddr = KernelTo(kernel) /\ CmdlineAddr = CmdlineTo(kernel)
         /\ InitrdMax = InitrdTop(kernel) /\ InitrdAddr = InitrdTo(kernel)
         /\ PatchedHeader = HeaderOf(kernel)
<1>1. (IsLow <=> Low(kernel)) /\ (IsLow \/ IsOld <=> Early(kernel))
  BY DEF IsLow, IsOld, Low, Early
<1>2. /\ ProtAddr = KernelTo(kernel) /\ CmdlineAddr = CmdlineTo(kernel)
      /\ RealAddr = IF Early(kernel) THEN 589824 ELSE 65536
  BY SMT, <1>1 DEF ProtAddr, KernelTo, CmdlineAddr, CmdlineTo, RealAddr, AlignDown
<1>3. InitrdMax = InitrdTop(kernel) /\ InitrdAddr = InitrdTo(kernel)
  BY SMT DEF InitrdMax, InitrdTop, InitrdAddr, InitrdTo
<1>4. PatchedHeader = HeaderOf(kernel)
  BY SMT, <1>2, <1>3 DEF PatchedHeader, HeaderOf, CmdlineOffset
<1>5. QED
  BY <1>2, <1>3, <1>4

\* Reading an item from its start.
LEMMA EntryRead ==
  ASSUME NEW key, NEW addr, NEW len, ReadEntry(key, addr, len)
  PROVE  loads' = Append(loads, L(key, 0, addr, len))
BY DEF ReadEntry, ReadAt, L

\* The loads are well formed.
LEMMA Parts ==
  ASSUME NEW k \in Kernels
  PROVE  /\ Peek(k) \in Load /\ Rest(k) \in Load
         /\ \A addr \in Int : Cmdline(k, addr) \in Load /\ Initrd(k, addr) \in Load
         /\ k.magic = "HdrS" => /\ Kern(k) \in Load /\ Cmdline(k, CmdlineTo(k)) \in Load
                                /\ k.initrd_size > 0 => Initrd(k, InitrdTo(k)) \in Load
<1>1. /\ k.setup_size \in Int /\ k.setup_addr \in Int /\ k.kernel_size \in Int
      /\ k.cmdline_size \in Int /\ k.initrd_size \in Int
  BY Fields
<1>2. KernelTo(k) \in Int
  BY SMT DEF KernelTo
<1>3. PEEK \in Int /\ k.setup_addr + PEEK \in Int /\ k.setup_size - PEEK \in Int
  BY <1>1 DEF PEEK
<1>4. ASSUME NEW key \in Keys, NEW off \in Int, NEW addr \in Int, NEW len \in Int
      PROVE  L(key, off, addr, len) \in Load
  BY DEF L, Load
<1>5. {"SETUP_DATA", "KERNEL_DATA", "CMDLINE_DATA", "INITRD_DATA"} \subseteq Keys /\ 0 \in Int
  BY DEF Keys
<1>6. Peek(k) \in Load /\ Rest(k) \in Load
  BY <1>1, <1>3, <1>4, <1>5 DEF Peek, Rest
<1>7. ASSUME NEW addr \in Int PROVE Cmdline(k, addr) \in Load /\ Initrd(k, addr) \in Load
  BY <1>1, <1>4, <1>5 DEF Cmdline, Initrd
<1>8. Kern(k) \in Load
  BY <1>1, <1>2, <1>4, <1>5 DEF Kern
<1>9. k.magic = "HdrS" => CmdlineTo(k) \in Int
  BY CmdlinePlace
<1>10. k.magic = "HdrS" /\ k.initrd_size > 0 => InitrdTo(k) \in Int
  BY HighPlace
<1>11. QED
  BY <1>6, <1>7, <1>8, <1>9, <1>10

-----------------------------------------------------------------------------
(* The steps.                                                              *)

\* boot_from_fwcfg starts with nothing loaded.
LEMMA InitHolds == Init => IInv
<1> SUFFICES ASSUME Init PROVE IInv
  OBVIOUS
<1>1. TypeInv
  BY DEF Init, TypeInv, Args, StartInfo, Modules
<1>2. EarlyInv /\ LinuxInv /\ PvhInv
  BY DEF Init, EarlyInv, LinuxInv, PvhInv, Linux, Pvh
<1>3. QED
  BY <1>1, <1>2 DEF IInv

\* The peek, or main's panic when there is no kernel.
LEMMA PeekStep ==
  ASSUME IInv, peek
  PROVE  IInv'
<1>1. /\ kernel \in Kernels /\ args \in Args /\ start_info \in StartInfo
      /\ loads = <<>> /\ malloc_top = MALLOC_TOP
  BY DEF IInv, TypeInv, EarlyInv, peek
<1>2. /\ kernel' = kernel /\ malloc_top' = malloc_top /\ start_info' = start_info
      /\ args' = [args EXCEPT !.cmdline_size = kernel.cmdline_size,
                              !.initrd_size  = kernel.initrd_size,
                              !.vmlinuz_size = kernel.kernel_size + kernel.setup_size,
                              !.setup_addr   = kernel.setup_addr]
  BY DEF peek
<1>3. /\ kernel.cmdline_size \in Int /\ kernel.initrd_size \in Int
      /\ kernel.setup_addr \in Int /\ kernel.kernel_size + kernel.setup_size \in Int
  BY <1>1, Fields
<1>4. /\ args' \in Args /\ args'.setup_addr = kernel.setup_addr
      /\ args'.cmdline_size = kernel.cmdline_size /\ args'.initrd_size = kernel.initrd_size
  BY <1>1, <1>2, <1>3 DEF Args
<1>5. CASE pc' = "panic"
  <2>1. TypeInv'
    BY <1>1, <1>2, <1>4, <1>5 DEF TypeInv
  <2>2. EarlyInv' /\ LinuxInv' /\ PvhInv'
    BY <1>5 DEF EarlyInv, LinuxInv, PvhInv, Linux, Pvh
  <2>3. QED
    BY <2>1, <2>2 DEF IInv
<1>6. CASE pc' = "parse" /\ ReadEntry("SETUP_DATA", kernel.setup_addr, PEEK)
  <2>1. loads' = Append(<<>>, Peek(kernel))
    BY <1>1, <1>6, EntryRead DEF Peek
  <2>2. cursor' = [key |-> "SETUP_DATA", off |-> Lesser(PEEK, kernel.setup_size)]
    BY <1>6 DEF ReadEntry, ReadAt, ItemSize, PEEK
  <2>3. IsLoaded(loads', kernel', {})
    BY <1>1, <1>2, <2>1, Parts, FirstLoad
  <2>4. TypeInv'
    BY <1>1, <1>2, <1>4, <1>6 DEF TypeInv
  <2>5. EarlyInv'
    BY <1>1, <1>2, <1>4, <1>6, <2>2, <2>3 DEF EarlyInv
  <2>6. LinuxInv' /\ PvhInv'
    BY <1>6 DEF LinuxInv, PvhInv, Linux, Pvh
  <2>7. QED
    BY <2>4, <2>5, <2>6 DEF IInv
<1>7. QED
  BY <1>5, <1>6 DEF peek

\* parse_bzimage: the places, the header, and nothing loaded yet but the peek.
LEMMA ParseStep ==
  ASSUME IInv, parse_bzimage
  PROVE  IInv'
<1>1. /\ kernel \in Kernels /\ args \in Args /\ start_info \in StartInfo
      /\ args.setup_addr = kernel.setup_addr /\ args.cmdline_size = kernel.cmdline_size
      /\ args.initrd_size = kernel.initrd_size
      /\ cursor = [key |-> "SETUP_DATA", off |-> Lesser(PEEK, kernel.setup_size)]
      /\ kernel.magic = "HdrS" /\ IsLoaded(loads, kernel, {})
  BY DEF IInv, TypeInv, EarlyInv, parse_bzimage
<1>2. /\ kernel' = kernel /\ start_info' = start_info /\ cursor' = cursor /\ loads' = loads
      /\ header' = PatchedHeader /\ patched' = Len(loads) /\ pc' = "rest"
      /\ args' = [args EXCEPT !.setup_size   = (SetupSects + 1) * 512,
                              !.kernel_size  = args.vmlinuz_size - SetupSects,
                              !.initrd_addr  = InitrdAddr,
                              !.kernel_addr  = ProtAddr,
                              !.cmdline_addr = CmdlineAddr]
  BY DEF parse_bzimage
<1>3. /\ ProtAddr = KernelTo(kernel) /\ CmdlineAddr = CmdlineTo(kernel)
      /\ InitrdAddr = InitrdTo(kernel) /\ PatchedHeader = HeaderOf(kernel)
  BY <1>1, Worked
<1>4. (SetupSects + 1) * 512 = kernel.setup_size /\ kernel.setup_size \in Int
  BY SMT, <1>1, SetupPlace DEF SetupSects
<1>5. ProtAddr \in Int /\ CmdlineAddr \in Int
  BY SMT, <1>1, <1>3, CmdlinePlace DEF KernelTo
<1>6. InitrdAddr \in Int
  <2>1. CASE kernel.initrd_size = 0
    BY <1>3, <2>1 DEF InitrdTo, NONE
  <2>2. CASE kernel.initrd_size # 0
    <3>1. kernel.initrd_size > 0
      BY <1>1, <2>2, Fields
    <3>2. QED
      BY <1>1, <1>3, <3>1, HighPlace
  <2>3. QED
    BY <2>1, <2>2
<1>7. args.vmlinuz_size - SetupSects \in Int
  <2>1. SetupSects \in Int
    BY <1>1, Fields DEF SetupSects
  <2>2. QED
    BY <1>1, <2>1 DEF Args
<1>8. /\ args' \in Args /\ args'.setup_addr = args.setup_addr
      /\ args'.cmdline_size = args.cmdline_size /\ args'.initrd_size = args.initrd_size
      /\ args'.setup_size = (SetupSects + 1) * 512 /\ args'.kernel_addr = ProtAddr
      /\ args'.cmdline_addr = CmdlineAddr /\ args'.initrd_addr = InitrdAddr
  <2> DEFINE a == ProtAddr
             b == CmdlineAddr
             c == InitrdAddr
             d == args.vmlinuz_size - SetupSects
             e == (SetupSects + 1) * 512
  <2>1. /\ a \in Int /\ b \in Int /\ c \in Int /\ d \in Int /\ e \in Int
        /\ args' = [args EXCEPT !.setup_size = e, !.kernel_size = d, !.initrd_addr = c,
                                !.kernel_addr = a, !.cmdline_addr = b]
    BY <1>2, <1>4, <1>5, <1>6, <1>7
  <2> HIDE DEF a, b, c, d, e
  <2>2. /\ args' \in Args /\ args'.setup_addr = args.setup_addr
        /\ args'.cmdline_size = args.cmdline_size /\ args'.initrd_size = args.initrd_size
        /\ args'.setup_size = e /\ args'.kernel_addr = a
        /\ args'.cmdline_addr = b /\ args'.initrd_addr = c
    BY <1>1, <2>1 DEF Args
  <2>3. QED
    BY <2>2 DEF a, b, c, d, e
<1>9. patched' = 1
  BY <1>1, <1>2, OnlyPeek
<1>10. TypeInv'
  BY <1>1, <1>2, <1>8 DEF TypeInv, Linux
<1>11. EarlyInv'
  BY <1>1, <1>2, <1>8 DEF EarlyInv
<1>12. LinuxInv'
  <2>1. LoadedAt(kernel', pc') = {}
    BY <1>2 DEF LoadedAt
  <2>2. IsLoaded(loads', kernel', LoadedAt(kernel', pc'))
    BY <1>1, <1>2, <2>1
  <2>3. /\ kernel'.magic = "HdrS" /\ header' = HeaderOf(kernel') /\ patched' = 1
        /\ args'.setup_size = kernel'.setup_size /\ args'.kernel_addr = KernelTo(kernel')
        /\ args'.cmdline_addr = CmdlineTo(kernel') /\ args'.initrd_addr = InitrdTo(kernel')
    BY <1>1, <1>2, <1>3, <1>4, <1>8, <1>9
  <2>4. QED
    BY <2>2, <2>3 DEF LinuxInv
<1>13. PvhInv'
  BY <1>2 DEF PvhInv, Pvh
<1>14. QED
  BY <1>10, <1>11, <1>12, <1>13 DEF IInv

\* A step of a bzImage after its header is patched, which only loads.
LEMMA LinuxStep ==
  ASSUME IInv, pc \in Linux, pc' \in Linux \ {"rest"},
         UNCHANGED <<kernel, args, header, patched, start_info>>,
         IsLoaded(loads', kernel, LoadedAt(kernel, pc'))
  PROVE  IInv'
<1>1. /\ kernel' = kernel /\ args' = args /\ header' = header /\ patched' = patched
      /\ start_info' = start_info
  OBVIOUS
<1>2. /\ kernel.magic = "HdrS" /\ header = HeaderOf(kernel) /\ patched = 1
      /\ args.setup_size = kernel.setup_size /\ args.kernel_addr = KernelTo(kernel)
      /\ args.cmdline_addr = CmdlineTo(kernel) /\ args.initrd_addr = InitrdTo(kernel)
  BY DEF IInv, LinuxInv
<1>3. TypeInv'
  BY <1>1 DEF IInv, TypeInv
<1>4. EarlyInv'
  <2>1. pc' \notin {"start", "parse", "rest"}
    BY DEF Linux
  <2>2. /\ args.setup_addr = kernel.setup_addr /\ args.cmdline_size = kernel.cmdline_size
        /\ args.initrd_size = kernel.initrd_size
    BY DEF IInv, EarlyInv
  <2>3. QED
    BY <1>1, <2>1, <2>2 DEF EarlyInv
<1>5. LinuxInv'
  <2>1. IsLoaded(loads', kernel', LoadedAt(kernel', pc'))
    BY <1>1
  <2>2. /\ kernel'.magic = "HdrS" /\ header' = HeaderOf(kernel') /\ patched' = 1
        /\ args'.setup_size = kernel'.setup_size /\ args'.kernel_addr = KernelTo(kernel')
        /\ args'.cmdline_addr = CmdlineTo(kernel') /\ args'.initrd_addr = InitrdTo(kernel')
    BY <1>1, <1>2
  <2>3. QED
    BY <2>1, <2>2 DEF LinuxInv
<1>6. PvhInv'
  BY DEF PvhInv, Pvh, Linux
<1>7. QED
  BY <1>3, <1>4, <1>5, <1>6 DEF IInv

\* What the invariant says while a bzImage is being loaded.
LEMMA InLinux ==
  ASSUME IInv, pc \in Linux
  PROVE  /\ kernel \in Kernels /\ kernel.magic = "HdrS" /\ patched = 1
         /\ header = HeaderOf(kernel)
         /\ args.setup_addr = kernel.setup_addr /\ args.setup_size = kernel.setup_size
         /\ args.cmdline_size = kernel.cmdline_size /\ args.initrd_size = kernel.initrd_size
         /\ args.kernel_addr = KernelTo(kernel) /\ args.cmdline_addr = CmdlineTo(kernel)
         /\ args.initrd_addr = InitrdTo(kernel)
         /\ IsLoaded(loads, kernel, LoadedAt(kernel, pc))
BY DEF IInv, TypeInv, EarlyInv, LinuxInv

\* The rest of the setup part goes on where the peek ended, if there is any.
LEMMA RestStep ==
  ASSUME IInv, read_rest
  PROVE  IInv'
<1>1. /\ pc = "rest" /\ pc' = "kernel" /\ pc \in Linux /\ pc' \in Linux \ {"rest"}
      /\ UNCHANGED <<kernel, args, header, patched, start_info>>
  BY DEF read_rest, Linux
<1>2. /\ kernel \in Kernels /\ args.setup_addr = kernel.setup_addr
      /\ args.setup_size = kernel.setup_size /\ IsLoaded(loads, kernel, LoadedAt(kernel, pc))
  BY <1>1, InLinux
<1>3. cursor = [key |-> "SETUP_DATA", off |-> Lesser(PEEK, kernel.setup_size)]
  BY <1>1 DEF IInv, EarlyInv
<1>4. LoadedAt(kernel, pc) = {} /\ LoadedAt(kernel, pc') = RestOf(kernel)
  BY <1>1 DEF LoadedAt
<1>5. IsLoaded(loads, kernel, {})
  BY <1>2, <1>4
<1>6. CASE HasRest
  <2>1. kernel.setup_size > PEEK /\ kernel.setup_size \in Nat
    BY <1>2, <1>6, Fields DEF HasRest
  <2>2. cursor.key = "SETUP_DATA" /\ cursor.off = PEEK
    BY <1>3, <2>1 DEF Lesser, PEEK
  <2>3. loads' = Append(loads, Rest(kernel))
    BY <1>2, <1>6, <2>2 DEF read_rest, ReadRest, ReadAt, RestAddr, Rest, L
  <2>4. IsLoaded(loads', kernel, {} \cup {Rest(kernel)})
    BY <1>2, <1>5, <2>3, NextLoad, Parts
  <2>5. LoadedAt(kernel, pc') = {} \cup {Rest(kernel)}
    BY <1>4, <2>1 DEF RestOf
  <2>6. QED
    BY <1>1, <2>4, <2>5, LinuxStep
<1>7. CASE ~HasRest
  <2>1. loads' = loads
    BY <1>7 DEF read_rest
  <2>2. ~(kernel.setup_size > PEEK)
    BY <1>2, <1>7 DEF HasRest
  <2>3. LoadedAt(kernel, pc') = {}
    BY <1>4, <2>2 DEF RestOf
  <2>4. IsLoaded(loads', kernel, LoadedAt(kernel, pc'))
    BY <1>5, <2>1, <2>3
  <2>5. QED
    BY <1>1, <2>4, LinuxStep
<1>8. QED
  BY <1>6, <1>7

\* The protected mode part.
LEMMA KernelStep ==
  ASSUME IInv, read_kernel
  PROVE  IInv'
<1>1. /\ pc = "kernel" /\ pc' = "cmdline" /\ pc \in Linux /\ pc' \in Linux \ {"rest"}
      /\ UNCHANGED <<kernel, args, header, patched, start_info>>
      /\ ReadEntry("KERNEL_DATA", args.kernel_addr, kernel.kernel_size)
  BY DEF read_kernel, Linux
<1>2. /\ kernel \in Kernels /\ kernel.magic = "HdrS" /\ args.kernel_addr = KernelTo(kernel)
      /\ IsLoaded(loads, kernel, LoadedAt(kernel, pc))
  BY <1>1, InLinux
<1>3. loads' = Append(loads, Kern(kernel)) /\ Kern(kernel) \in Load
  BY <1>1, <1>2, EntryRead, Parts DEF Kern
<1>4. IsLoaded(loads', kernel, LoadedAt(kernel, pc) \cup {Kern(kernel)})
  BY <1>2, <1>3, NextLoad
<1>5. LoadedAt(kernel, pc') = LoadedAt(kernel, pc) \cup {Kern(kernel)}
  BY <1>1 DEF LoadedAt
<1>6. QED
  BY <1>1, <1>4, <1>5, LinuxStep

\* The command line.
LEMMA CmdlineStep ==
  ASSUME IInv, read_cmdline
  PROVE  IInv'
<1> DEFINE l == Cmdline(kernel, CmdlineTo(kernel))
<1>1. /\ pc = "cmdline" /\ pc' = "initrd" /\ pc \in Linux /\ pc' \in Linux \ {"rest"}
      /\ UNCHANGED <<kernel, args, header, patched, start_info>>
      /\ ReadEntry("CMDLINE_DATA", args.cmdline_addr, args.cmdline_size)
  BY DEF read_cmdline, Linux
<1>2. /\ kernel \in Kernels /\ kernel.magic = "HdrS" /\ args.cmdline_addr = CmdlineTo(kernel)
      /\ args.cmdline_size = kernel.cmdline_size
      /\ IsLoaded(loads, kernel, LoadedAt(kernel, pc))
  BY <1>1, InLinux
<1>3. loads' = Append(loads, l) /\ l \in Load
  BY <1>1, <1>2, EntryRead, Parts DEF Cmdline
<1>4. LoadedAt(kernel, pc') = LoadedAt(kernel, pc) \cup {l}
  BY <1>1 DEF LoadedAt
<1> HIDE DEF l
<1>5. IsLoaded(loads', kernel, LoadedAt(kernel, pc) \cup {l})
  BY <1>2, <1>3, NextLoad
<1>6. QED
  BY <1>1, <1>4, <1>5, LinuxStep

\* The ramdisk, if there is one.
LEMMA InitrdStep ==
  ASSUME IInv, read_initrd
  PROVE  IInv'
<1> DEFINE l == Initrd(kernel, InitrdTo(kernel))
<1>1. /\ pc = "initrd" /\ pc' = "linux" /\ pc \in Linux /\ pc' \in Linux \ {"rest"}
      /\ UNCHANGED <<kernel, args, header, patched, start_info>>
  BY DEF read_initrd, Linux
<1>2. /\ kernel \in Kernels /\ kernel.magic = "HdrS" /\ args.initrd_addr = InitrdTo(kernel)
      /\ args.initrd_size = kernel.initrd_size
      /\ IsLoaded(loads, kernel, LoadedAt(kernel, pc))
  BY <1>1, InLinux
<1>3. LoadedAt(kernel, pc') = LoadedAt(kernel, pc) \cup InitrdOf(kernel, InitrdTo(kernel))
  BY <1>1 DEF LoadedAt
<1>4. CASE kernel.initrd_size > 0
  <2>1. ReadEntry("INITRD_DATA", args.initrd_addr, args.initrd_size)
    BY <1>2, <1>4 DEF read_initrd
  <2>2. loads' = Append(loads, l) /\ l \in Load
    BY <1>2, <1>4, <2>1, EntryRead, Parts DEF Initrd
  <2>3. LoadedAt(kernel, pc') = LoadedAt(kernel, pc) \cup {l}
    BY <1>3, <1>4 DEF InitrdOf
  <2> HIDE DEF l
  <2>4. IsLoaded(loads', kernel, LoadedAt(kernel, pc) \cup {l})
    BY <1>2, <2>2, NextLoad
  <2>5. QED
    BY <1>1, <2>3, <2>4, LinuxStep
<1>5. CASE ~(kernel.initrd_size > 0)
  <2>1. loads' = loads
    BY <1>2, <1>5 DEF read_initrd
  <2>2. LoadedAt(kernel, pc') = LoadedAt(kernel, pc)
    BY <1>3, <1>5 DEF InitrdOf
  <2>3. IsLoaded(loads', kernel, LoadedAt(kernel, pc'))
    BY <1>2, <2>1, <2>2
  <2>4. QED
    BY <1>1, <2>3, LinuxStep
<1>6. QED
  BY <1>4, <1>5

\* Storing two fields of a start_info.
WithCmdline(s, n, addr) == [s EXCEPT !.nr_modules = n, !.cmdline_paddr = addr]
WithModule(s, n, module) == [s EXCEPT !.nr_modules = n, !.module = module]

\* The command line's address is stored.
LEMMA StoreCmdline ==
  ASSUME NEW s \in StartInfo, NEW n \in Int, NEW addr \in Int
  PROVE  /\ WithCmdline(s, n, addr) \in StartInfo
         /\ WithCmdline(s, n, addr).nr_modules = n
         /\ WithCmdline(s, n, addr).cmdline_paddr = addr
BY DEF StartInfo, WithCmdline

\* A module is stored.
LEMMA StoreModule ==
  ASSUME NEW s \in StartInfo, NEW n \in Int, NEW module \in Modules
  PROVE  /\ WithModule(s, n, module) \in StartInfo
         /\ WithModule(s, n, module).nr_modules = n
         /\ WithModule(s, n, module).module = module
         /\ WithModule(s, n, module).cmdline_paddr = s.cmdline_paddr
BY DEF StartInfo, WithModule

\* boot_pvh_from_fw_cfg: the command line goes to newly allocated memory.
LEMMA PvhCmdlineStep ==
  ASSUME IInv, pvh_cmdline
  PROVE  IInv'
<1> DEFINE addr == AlignDown(MALLOC_TOP - kernel.cmdline_size, 16)
<1>1. /\ kernel \in Kernels /\ args \in Args /\ start_info \in StartInfo
      /\ malloc_top = MALLOC_TOP /\ IsLoaded(loads, kernel, {})
  BY DEF IInv, TypeInv, EarlyInv, pvh_cmdline
<1>2. /\ kernel' = kernel /\ args' = args /\ pc' = "pvh_initrd" /\ malloc_top' = addr
      /\ kernel.magic = "ELF"
      /\ ReadEntry("CMDLINE_DATA", malloc_top', kernel.cmdline_size)
      /\ start_info' = [start_info EXCEPT !.nr_modules = 0, !.cmdline_paddr = malloc_top']
  BY <1>1 DEF pvh_cmdline, malloc
<1>3. addr \in Int
  <2>1. MALLOC_TOP - kernel.cmdline_size \in Int
    BY <1>1, Fields, KernelAssumption
  <2>2. QED
    BY <2>1, Aligned
<1> HIDE DEF addr
<1>4. /\ start_info' \in StartInfo /\ start_info'.nr_modules = 0
      /\ start_info'.cmdline_paddr = addr
  <2>1. start_info' = WithCmdline(start_info, 0, addr)
    BY <1>2 DEF WithCmdline
  <2>2. QED
    <3>1. /\ WithCmdline(start_info, 0, addr) \in StartInfo
          /\ WithCmdline(start_info, 0, addr).nr_modules = 0
          /\ WithCmdline(start_info, 0, addr).cmdline_paddr = addr
      BY <1>1, <1>3, StoreCmdline
    <3>2. QED
      BY <2>1, <3>1
<1>5. loads' = Append(loads, Cmdline(kernel, addr)) /\ Cmdline(kernel, addr) \in Load
  BY <1>1, <1>2, <1>3, EntryRead, Parts DEF Cmdline
<1>6. IsLoaded(loads', kernel, {} \cup {Cmdline(kernel, addr)})
  BY <1>1, <1>5, NextLoad
<1>7. TypeInv'
  BY <1>1, <1>2, <1>4 DEF TypeInv, Pvh
<1>8. EarlyInv' /\ LinuxInv'
  BY <1>2 DEF EarlyInv, LinuxInv, Linux
<1>9. PvhInv'
  <2>1. IsLoaded(loads', kernel', {Cmdline(kernel', start_info'.cmdline_paddr)} \cup {})
    BY <1>2, <1>4, <1>6
  <2>2. start_info'.cmdline_paddr = AlignDown(MALLOC_TOP - kernel'.cmdline_size, 16)
    BY <1>2, <1>4 DEF addr
  <2>3. QED
    BY <1>2, <1>4, <2>1, <2>2 DEF PvhInv
<1>10. QED
  BY <1>7, <1>8, <1>9 DEF IInv

\* boot_pvh_from_fw_cfg: the ramdisk, if there is one, and the module for it.
LEMMA PvhInitrdStep ==
  ASSUME IInv, pvh_initrd
  PROVE  IInv'
<1> DEFINE cmdline == {Cmdline(kernel, start_info.cmdline_paddr)}
<1>1. /\ kernel \in Kernels /\ args \in Args /\ start_info \in StartInfo
  BY DEF IInv, TypeInv
<1>2. /\ start_info.cmdline_paddr = AlignDown(MALLOC_TOP - kernel.cmdline_size, 16)
      /\ malloc_top = start_info.cmdline_paddr /\ start_info.nr_modules = 0
      /\ IsLoaded(loads, kernel, cmdline \cup {}) /\ kernel.magic = "ELF"
  BY DEF IInv, PvhInv, pvh_initrd, Pvh
<1>3. /\ kernel' = kernel /\ args' = args /\ pc' = "pvh_map" /\ malloc_top' = malloc_top
  BY DEF pvh_initrd
<1>4. EarlyInv' /\ LinuxInv'
  BY <1>3 DEF EarlyInv, LinuxInv, Linux
<1>5. CASE kernel.initrd_size = 0
  <2>1. loads' = loads /\ start_info' = start_info
    BY <1>5 DEF pvh_initrd
  <2>2. InitrdOf(kernel, kernel.initrd_addr) = {}
    BY <1>5 DEF InitrdOf
  <2>3. TypeInv'
    BY <1>1, <1>3, <2>1 DEF TypeInv, Pvh
  <2>4. IsLoaded(loads', kernel', {Cmdline(kernel', start_info'.cmdline_paddr)}
                                    \cup InitrdOf(kernel', kernel'.initrd_addr))
    BY <1>2, <1>3, <2>1, <2>2
  <2>5. /\ start_info'.cmdline_paddr = AlignDown(MALLOC_TOP - kernel'.cmdline_size, 16)
        /\ malloc_top' = start_info'.cmdline_paddr /\ start_info'.nr_modules = 0
    BY <1>2, <1>3, <2>1
  <2>6. PvhInv'
    BY <1>2, <1>3, <1>5, <2>4, <2>5 DEF PvhInv
  <2>7. QED
    BY <1>4, <2>3, <2>6 DEF IInv
<1>6. CASE kernel.initrd_size # 0
  <2> DEFINE l == Initrd(kernel, kernel.initrd_addr)
  <2>1. PICK junk \in Junk :
          start_info' = [start_info EXCEPT
            !.nr_modules = 1,
            !.module = [paddr |-> kernel.initrd_addr, size |-> kernel.initrd_size,
                        cmdline_paddr |-> junk]]
    BY <1>6 DEF pvh_initrd
  <2>2. ReadEntry("INITRD_DATA", kernel.initrd_addr, kernel.initrd_size)
    BY <1>6 DEF pvh_initrd
  <2>3. /\ kernel.initrd_addr \in Int /\ kernel.initrd_size \in Int
        /\ kernel.initrd_size > 0
    BY <1>1, <1>6, Fields
  <2>4. /\ start_info' \in StartInfo /\ start_info'.nr_modules = 1
        /\ start_info'.cmdline_paddr = start_info.cmdline_paddr
        /\ start_info'.module = [paddr |-> kernel.initrd_addr, size |-> kernel.initrd_size,
                                 cmdline_paddr |-> junk]
    <3> DEFINE module == [paddr |-> kernel.initrd_addr, size |-> kernel.initrd_size,
                          cmdline_paddr |-> junk]
    <3>1. module \in Modules
      BY <2>3 DEF Modules
    <3>2. start_info' = WithModule(start_info, 1, module) /\ 1 \in Int
      BY <2>1 DEF WithModule
    <3> HIDE DEF module
    <3>3. /\ WithModule(start_info, 1, module) \in StartInfo
          /\ WithModule(start_info, 1, module).nr_modules = 1
          /\ WithModule(start_info, 1, module).cmdline_paddr = start_info.cmdline_paddr
          /\ WithModule(start_info, 1, module).module = module
      BY <1>1, <3>1, <3>2, StoreModule
    <3>4. QED
      BY <3>2, <3>3 DEF module
  <2>5. loads' = Append(loads, l) /\ l \in Load
    BY <1>1, <2>2, <2>3, EntryRead, Parts DEF Initrd
  <2>6. InitrdOf(kernel, kernel.initrd_addr) = {l}
    BY <2>3 DEF InitrdOf
  <2> HIDE DEF l, cmdline
  <2>7. IsLoaded(loads', kernel, cmdline \cup {l})
    <3>1. IsLoaded(loads, kernel, cmdline)
      BY <1>2
    <3>2. QED
      BY <2>5, <3>1, NextLoad
  <2>8. TypeInv'
    BY <1>1, <1>3, <2>4 DEF TypeInv, Pvh
  <2>9. IsLoaded(loads', kernel', {Cmdline(kernel', start_info'.cmdline_paddr)}
                                    \cup InitrdOf(kernel', kernel'.initrd_addr))
    BY <1>3, <2>4, <2>6, <2>7 DEF cmdline
  <2>10. /\ start_info'.cmdline_paddr = AlignDown(MALLOC_TOP - kernel'.cmdline_size, 16)
         /\ malloc_top' = start_info'.cmdline_paddr /\ start_info'.nr_modules = 1
         /\ start_info'.module.paddr = kernel'.initrd_addr
         /\ start_info'.module.size = kernel'.initrd_size
    BY <1>2, <1>3, <2>4
  <2>11. PvhInv'
    BY <1>2, <1>3, <1>6, <2>9, <2>10 DEF PvhInv
  <2>12. QED
    BY <1>4, <2>8, <2>11 DEF IInv
<1>7. QED
  BY <1>5, <1>6

\* pvh_e820_setup: the memory map is allocated below the command line.
LEMMA PvhStartStep ==
  ASSUME IInv, pvh_start
  PROVE  IInv'
<1> DEFINE addr == AlignDown(malloc_top - 24 * E820_ENTRIES, 16)
<1>1. /\ kernel \in Kernels /\ args \in Args /\ start_info \in StartInfo
      /\ pc = "pvh_map"
  BY DEF IInv, TypeInv, pvh_start
<1>2. /\ start_info.cmdline_paddr = AlignDown(MALLOC_TOP - kernel.cmdline_size, 16)
      /\ malloc_top = start_info.cmdline_paddr /\ kernel.magic = "ELF"
      /\ IF kernel.initrd_size = 0
         THEN start_info.nr_modules = 0
         ELSE /\ start_info.nr_modules = 1
              /\ start_info.module.paddr = kernel.initrd_addr
              /\ start_info.module.size = kernel.initrd_size
      /\ IsLoaded(loads, kernel, {Cmdline(kernel, start_info.cmdline_paddr)}
                                   \cup InitrdOf(kernel, kernel.initrd_addr))
  BY <1>1 DEF IInv, PvhInv, Pvh
<1>3. /\ kernel' = kernel /\ args' = args /\ loads' = loads
      /\ malloc_top' = addr /\ pc' \in {"pvh", "panic"}
      /\ start_info' = [start_info EXCEPT !.memmap_paddr = addr,
                                          !.memmap_entries = E820_ENTRIES]
  BY DEF pvh_start, malloc, MemmapSize
<1>4. addr \in Int /\ E820_ENTRIES \in Int
  <2>1. malloc_top \in Int /\ E820_ENTRIES \in Nat
    BY <1>1, <1>2, KernelAssumption DEF StartInfo
  <2>2. malloc_top - 24 * E820_ENTRIES \in Int
    BY <2>1
  <2>3. QED
    BY <2>1, <2>2, Aligned
<1>5. addr = AlignDown(start_info.cmdline_paddr - 24 * E820_ENTRIES, 16)
  BY <1>2
<1> HIDE DEF addr
<1>6. /\ start_info' \in StartInfo /\ start_info'.memmap_paddr = addr
      /\ start_info'.memmap_entries = E820_ENTRIES
      /\ start_info'.cmdline_paddr = start_info.cmdline_paddr
      /\ start_info'.nr_modules = start_info.nr_modules
      /\ start_info'.module = start_info.module
  BY <1>1, <1>3, <1>4 DEF StartInfo
<1>7. TypeInv'
  BY <1>1, <1>3, <1>6 DEF TypeInv, Pvh
<1>8. EarlyInv' /\ LinuxInv'
  BY <1>3 DEF EarlyInv, LinuxInv, Linux
<1>9. CASE pc' = "pvh"
  <2>1. IsLoaded(loads', kernel', {Cmdline(kernel', start_info'.cmdline_paddr)}
                                    \cup InitrdOf(kernel', kernel'.initrd_addr))
    BY <1>2, <1>3, <1>6
  <2>2. /\ start_info'.cmdline_paddr = AlignDown(MALLOC_TOP - kernel'.cmdline_size, 16)
        /\ start_info'.memmap_paddr =
             AlignDown(start_info'.cmdline_paddr - 24 * E820_ENTRIES, 16)
        /\ start_info'.memmap_entries = E820_ENTRIES
    BY <1>2, <1>3, <1>5, <1>6
  <2>3. IF kernel'.initrd_size = 0
        THEN start_info'.nr_modules = 0
        ELSE /\ start_info'.nr_modules = 1
             /\ start_info'.module.paddr = kernel'.initrd_addr
             /\ start_info'.module.size = kernel'.initrd_size
    BY <1>2, <1>3, <1>6
  <2>4. PvhInv'
    BY <1>2, <1>3, <1>9, <2>1, <2>2, <2>3 DEF PvhInv
  <2>5. QED
    BY <1>7, <1>8, <2>4 DEF IInv
<1>10. CASE pc' = "panic"
  <2>1. PvhInv'
    BY <1>10 DEF PvhInv, Pvh
  <2>2. QED
    BY <1>7, <1>8, <2>1 DEF IInv
<1>11. QED
  BY <1>3, <1>9, <1>10

\* The multiboot steps leave what the invariant speaks of.
LEMMA MultibootStep ==
  ASSUME IInv, multiboot_kernel \/ multiboot_info
  PROVE  IInv'
<1>1. /\ kernel' = kernel /\ args' = args /\ start_info' = start_info
      /\ pc' \in {"panic", "mb_info", "multiboot"}
  BY DEF multiboot_kernel, multiboot_info
<1>2. TypeInv'
  BY <1>1 DEF IInv, TypeInv
<1>3. EarlyInv' /\ LinuxInv' /\ PvhInv'
  BY <1>1 DEF EarlyInv, LinuxInv, PvhInv, Linux, Pvh
<1>4. QED
  BY <1>2, <1>3 DEF IInv

\* Nothing changes.
LEMMA StutterStep ==
  ASSUME IInv, UNCHANGED vars
  PROVE  IInv'
BY DEF vars, IInv, TypeInv, EarlyInv, LinuxInv, PvhInv

\* Every step preserves the invariant.
LEMMA NextHolds == IInv /\ [Next]_vars => IInv'
<1> SUFFICES ASSUME IInv, [Next]_vars PROVE IInv'
  OBVIOUS
<1>1. CASE peek
  BY <1>1, PeekStep
<1>2. CASE parse_bzimage
  BY <1>2, ParseStep
<1>3. CASE read_rest
  BY <1>3, RestStep
<1>4. CASE read_kernel
  BY <1>4, KernelStep
<1>5. CASE read_cmdline
  BY <1>5, CmdlineStep
<1>6. CASE read_initrd
  BY <1>6, InitrdStep
<1>7. CASE pvh_cmdline
  BY <1>7, PvhCmdlineStep
<1>8. CASE pvh_initrd
  BY <1>8, PvhInitrdStep
<1>9. CASE pvh_start
  BY <1>9, PvhStartStep
<1>10. CASE multiboot_kernel \/ multiboot_info
  BY <1>10, MultibootStep
<1>11. CASE Finished \/ UNCHANGED vars
  BY <1>11, StutterStep DEF Finished
<1>12. QED
  BY <1>1, <1>2, <1>3, <1>4, <1>5, <1>6, <1>7, <1>8, <1>9, <1>10, <1>11 DEF Next

\* For every kernel: what has been loaded so far, where, and what the header or
\* start_info says of it, at every step (boot_from_fwcfg).
THEOREM BootInvariant == Spec => []IInv
<1>1. QED
  BY InitHolds, NextHolds, PTL DEF Spec

-----------------------------------------------------------------------------
(* A bzImage that is loaded.                                               *)

\* Where the parts lie, by key; the setup part at its longest.
From(k, key) ==
  CASE key = "SETUP_DATA"   -> k.setup_addr
    [] key = "KERNEL_DATA"  -> KernelTo(k)
    [] key = "CMDLINE_DATA" -> CmdlineTo(k)
    [] key = "INITRD_DATA"  -> InitrdTo(k)

To(k, key) ==
  CASE key = "SETUP_DATA"   -> k.setup_addr + 33280
    [] key = "KERNEL_DATA"  -> KernelTo(k) + k.kernel_size
    [] key = "CMDLINE_DATA" -> CmdlineTo(k) + k.cmdline_size
    [] key = "INITRD_DATA"  -> InitrdTo(k) + k.initrd_size

\* The keys of what there is to load.
Present(k) == {key \in Keys : key = "INITRD_DATA" => k.initrd_size > 0}

\* The bounds of each part, key by key.
LEMMA Regions ==
  ASSUME NEW k \in Kernels
  PROVE  /\ From(k, "SETUP_DATA") = k.setup_addr /\ To(k, "SETUP_DATA") = k.setup_addr + 33280
         /\ From(k, "KERNEL_DATA") = KernelTo(k)
         /\ To(k, "KERNEL_DATA") = KernelTo(k) + k.kernel_size
         /\ From(k, "CMDLINE_DATA") = CmdlineTo(k)
         /\ To(k, "CMDLINE_DATA") = CmdlineTo(k) + k.cmdline_size
         /\ From(k, "INITRD_DATA") = InitrdTo(k)
         /\ To(k, "INITRD_DATA") = InitrdTo(k) + k.initrd_size
BY SMT DEF From, To

\* The whole layout: where each region starts and ends, in each of the three
\* arrangements.
LEMMA Layout ==
  ASSUME NEW k \in Kernels, k.magic = "HdrS"
  PROVE  /\ \A key \in Present(k) : From(k, key) \in Int /\ To(k, key) \in Int
         /\ Early(k) => /\ From(k, "SETUP_DATA") = 589824 /\ To(k, "SETUP_DATA") = 623104
                        /\ From(k, "CMDLINE_DATA") > 624624
                        /\ To(k, "CMDLINE_DATA") <= 630784
         /\ ~Early(k) => /\ From(k, "SETUP_DATA") = 65536 /\ To(k, "SETUP_DATA") = 98816
                         /\ From(k, "CMDLINE_DATA") = 131072
                         /\ To(k, "CMDLINE_DATA") <= 524288
         /\ Low(k) => /\ Early(k) /\ From(k, "KERNEL_DATA") = 65536
                      /\ To(k, "KERNEL_DATA") <= 589824
         /\ ~Low(k) => From(k, "KERNEL_DATA") = 1048576
         /\ k.lowmem \in Nat /\ To(k, "CMDLINE_DATA") < k.lowmem
         /\ To(k, "SETUP_DATA") < k.lowmem /\ To(k, "KERNEL_DATA") < k.lowmem
         /\ k.initrd_size > 0 =>
              /\ From(k, "INITRD_DATA") > 1048576
              /\ To(k, "INITRD_DATA") <= InitrdTop(k) /\ To(k, "INITRD_DATA") < k.lowmem
              /\ ~Low(k) => To(k, "KERNEL_DATA") < From(k, "INITRD_DATA")
<1>1. /\ k.kernel_size \in Nat /\ k.cmdline_size \in Nat /\ k.initrd_size \in Nat
      /\ k.lowmem \in Nat /\ k.setup_addr \in Nat
  BY Fields
<1>2. /\ InitrdTop(k) \in Int /\ InitrdTop(k) < k.lowmem /\ 1052672 <= InitrdTop(k)
      /\ Low(k) => k.kernel_size <= 524288
      /\ ~Low(k) => 1048576 + k.kernel_size + 4096 <= InitrdTop(k) - k.initrd_size
      /\ k.initrd_size > 0 =>
           /\ InitrdTo(k) \in Int /\ InitrdTo(k) > 1048576
           /\ InitrdTo(k) + k.initrd_size <= InitrdTop(k)
           /\ ~Low(k) => 1048576 + k.kernel_size < InitrdTo(k)
  BY HighPlace
<1>3. /\ CmdlineTo(k) \in Int
      /\ Early(k) => CmdlineTo(k) > 624624 /\ CmdlineTo(k) + k.cmdline_size <= 630784
      /\ ~Early(k) => CmdlineTo(k) = 131072 /\ k.cmdline_size <= 393216
  BY CmdlinePlace
<1>4. k.setup_addr = IF Early(k) THEN 589824 ELSE 65536
  BY SetupPlace
<1>5. /\ Low(k) => Early(k) /\ KernelTo(k) = 65536
      /\ ~Low(k) => KernelTo(k) = 1048576
      /\ KernelTo(k) \in Int
  BY SMT DEF Early, KernelTo
<1>6. ASSUME NEW key \in Present(k)
      PROVE  From(k, key) \in Int /\ To(k, key) \in Int
  <2>1. key \in Keys /\ (key = "INITRD_DATA" => InitrdTo(k) \in Int)
    BY <1>2 DEF Present
  <2>2. CASE key = "SETUP_DATA"
    BY SMT, <1>1, <2>2, Regions
  <2>3. CASE key = "KERNEL_DATA"
    BY SMT, <1>1, <1>5, <2>3, Regions
  <2>4. CASE key = "CMDLINE_DATA"
    BY SMT, <1>1, <1>3, <2>4, Regions
  <2>5. CASE key = "INITRD_DATA"
    BY SMT, <1>1, <2>1, <2>5, Regions
  <2>6. QED
    BY <2>1, <2>2, <2>3, <2>4, <2>5 DEF Keys
<1>7. Early(k) => /\ From(k, "SETUP_DATA") = 589824 /\ To(k, "SETUP_DATA") = 623104
                  /\ From(k, "CMDLINE_DATA") > 624624
                  /\ To(k, "CMDLINE_DATA") <= 630784
  BY SMT, <1>1, <1>3, <1>4, Regions
<1>8. ~Early(k) => /\ From(k, "SETUP_DATA") = 65536 /\ To(k, "SETUP_DATA") = 98816
                   /\ From(k, "CMDLINE_DATA") = 131072
                   /\ To(k, "CMDLINE_DATA") <= 524288
  BY SMT, <1>1, <1>3, <1>4, Regions
<1>9. /\ Low(k) => /\ Early(k) /\ From(k, "KERNEL_DATA") = 65536
                   /\ To(k, "KERNEL_DATA") <= 589824
      /\ ~Low(k) => From(k, "KERNEL_DATA") = 1048576
  BY SMT, <1>1, <1>2, <1>5, Regions
<1>10. /\ To(k, "CMDLINE_DATA") < k.lowmem /\ To(k, "SETUP_DATA") < k.lowmem
  <2>1. To(k, "CMDLINE_DATA") = CmdlineTo(k) + k.cmdline_size
    BY Regions
  <2>2. CASE Early(k)
    BY SMT, <1>1, <1>2, <1>3, <1>7, <2>1, <2>2
  <2>3. CASE ~Early(k)
    BY SMT, <1>1, <1>2, <1>3, <1>8, <2>1, <2>3
  <2>4. QED
    BY <2>2, <2>3
<1>11. To(k, "KERNEL_DATA") < k.lowmem
  <2>1. To(k, "KERNEL_DATA") = KernelTo(k) + k.kernel_size
    BY Regions
  <2>2. CASE Low(k)
    BY SMT, <1>1, <1>2, <1>5, <2>1, <2>2
  <2>3. CASE ~Low(k)
    BY SMT, <1>1, <1>2, <1>5, <2>1, <2>3
  <2>4. QED
    BY <2>2, <2>3
<1>12. k.initrd_size > 0 =>
         /\ From(k, "INITRD_DATA") > 1048576
         /\ To(k, "INITRD_DATA") <= InitrdTop(k) /\ To(k, "INITRD_DATA") < k.lowmem
         /\ ~Low(k) => To(k, "KERNEL_DATA") < From(k, "INITRD_DATA")
  BY SMT, <1>1, <1>2, <1>5, Regions
<1>13. QED
  BY <1>1, <1>6, <1>7, <1>8, <1>9, <1>10, <1>11, <1>12

\* Region a ends before region b starts.
Before(k, a, b) == To(k, a) <= From(k, b)

\* Of two parts, one ends before the other starts.
LEMMA RegionsDisjoint ==
  ASSUME NEW k \in Kernels, k.magic = "HdrS",
         NEW a \in Present(k), NEW b \in Present(k), a # b
  PROVE  Before(k, a, b) \/ Before(k, b, a)
<1> DEFINE s == "SETUP_DATA"
           n == "KERNEL_DATA"
           c == "CMDLINE_DATA"
           i == "INITRD_DATA"
<1>1. /\ From(k, s) \in Int /\ To(k, s) \in Int /\ From(k, n) \in Int /\ To(k, n) \in Int
      /\ From(k, c) \in Int /\ To(k, c) \in Int
      /\ k.initrd_size > 0 => From(k, i) \in Int /\ To(k, i) \in Int
  <2>1. {s, n, c} \subseteq Present(k) /\ (k.initrd_size > 0 => i \in Present(k))
    BY DEF Present, Keys
  <2>2. QED
    BY <2>1, Layout
<1>2. Before(k, s, c)
  <2>1. CASE Early(k)
    BY SMT, <1>1, <2>1, Layout DEF Before
  <2>2. CASE ~Early(k)
    BY SMT, <1>1, <2>2, Layout DEF Before
  <2>3. QED
    BY <2>1, <2>2
<1>3. Before(k, n, s) \/ Before(k, s, n)
  <2>1. CASE Low(k)
    BY SMT, <1>1, <2>1, Layout DEF Before
  <2>2. CASE ~Low(k)
    BY SMT, <1>1, <2>2, Layout DEF Before
  <2>3. QED
    BY <2>1, <2>2
<1>4. Before(k, n, c) \/ Before(k, c, n)
  <2>1. CASE Low(k)
    BY SMT, <1>1, <2>1, Layout DEF Before
  <2>2. CASE ~Low(k)
    BY SMT, <1>1, <2>2, Layout DEF Before
  <2>3. QED
    BY <2>1, <2>2
<1>5. k.initrd_size > 0 => Before(k, s, i) /\ Before(k, c, i) /\ Before(k, n, i)
  <2> SUFFICES ASSUME k.initrd_size > 0
               PROVE  Before(k, s, i) /\ Before(k, c, i) /\ Before(k, n, i)
    OBVIOUS
  <2>1. Before(k, s, i) /\ Before(k, c, i)
    BY SMT, <1>1, Layout DEF Before
  <2>2. Before(k, n, i)
    BY SMT, <1>1, Layout DEF Before
  <2>3. QED
    BY <2>1, <2>2
<1>6. a \in {s, n, c, i} /\ b \in {s, n, c, i} /\ (a = i \/ b = i => k.initrd_size > 0)
  BY DEF Present, Keys
<1>7. QED
  BY <1>2, <1>3, <1>4, <1>5, <1>6

\* Every load of a loaded bzImage lies within the region of its part.
LEMMA Within ==
  ASSUME IInv, pc = "linux", NEW i \in DOMAIN loads
  PROVE  /\ loads[i].key \in Present(kernel)
         /\ loads[i].addr \in Int /\ loads[i].len \in Int
         /\ From(kernel, loads[i].key) <= loads[i].addr
         /\ loads[i].addr + loads[i].len <= To(kernel, loads[i].key)
<1> DEFINE l == loads[i]
           k == kernel
<1>1. /\ k \in Kernels /\ k.magic = "HdrS" /\ IsLoaded(loads, k, LoadedAt(k, "linux"))
  BY InLinux DEF Linux
<1>2. l \in {Peek(k)} \cup LoadedAt(k, "linux")
  BY <1>1, EachLoad
<1>3. LoadedAt(k, "linux") = RestOf(k) \cup {Kern(k)} \cup {Cmdline(k, CmdlineTo(k))}
                               \cup InitrdOf(k, InitrdTo(k))
  BY DEF LoadedAt
<1>4. /\ k.setup_addr \in Nat /\ k.setup_size \in Nat /\ k.setup_size <= 33280
      /\ k.kernel_size \in Nat /\ k.cmdline_size \in Nat /\ k.initrd_size \in Nat
  BY <1>1, Fields, SetupPlace
<1>5. KernelTo(k) \in Int /\ CmdlineTo(k) \in Int
  BY SMT, <1>1, CmdlinePlace DEF KernelTo
<1>6. CASE l = Peek(k)
  <2>1. l.key = "SETUP_DATA" /\ l.addr = k.setup_addr /\ l.len = 8192
    BY <1>6 DEF Peek, L, PEEK
  <2>2. QED
    BY <1>1, <1>4, <2>1, Regions DEF Present, Keys
<1>7. CASE k.setup_size > PEEK /\ l = Rest(k)
  <2>1. l.key = "SETUP_DATA" /\ l.addr = k.setup_addr + 8192 /\ l.len = k.setup_size - 8192
    BY <1>7 DEF Rest, L, PEEK
  <2>2. QED
    BY <1>1, <1>4, <2>1, Regions DEF Present, Keys
<1>8. CASE l = Kern(k)
  <2>1. l.key = "KERNEL_DATA" /\ l.addr = KernelTo(k) /\ l.len = k.kernel_size
    BY <1>8 DEF Kern, L
  <2>2. QED
    BY <1>1, <1>4, <1>5, <2>1, Regions DEF Present, Keys
<1>9. CASE l = Cmdline(k, CmdlineTo(k))
  <2>1. l.key = "CMDLINE_DATA" /\ l.addr = CmdlineTo(k) /\ l.len = k.cmdline_size
    BY <1>9 DEF Cmdline, L
  <2>2. QED
    BY <1>1, <1>4, <1>5, <2>1, Regions DEF Present, Keys
<1>10. CASE k.initrd_size > 0 /\ l = Initrd(k, InitrdTo(k))
  <2>1. l.key = "INITRD_DATA" /\ l.addr = InitrdTo(k) /\ l.len = k.initrd_size
    BY <1>10 DEF Initrd, L
  <2>2. InitrdTo(k) \in Int
    BY <1>1, <1>10, HighPlace
  <2>3. QED
    BY <1>1, <1>4, <1>10, <2>1, <2>2, Regions DEF Present, Keys
<1>11. QED
  BY <1>2, <1>3, <1>6, <1>7, <1>8, <1>9, <1>10 DEF RestOf, InitrdOf

\* And so loads of different parts do not overlap.
LEMMA PartsApart ==
  ASSUME IInv, pc = "linux", NEW i \in DOMAIN loads, NEW j \in DOMAIN loads,
         loads[i].key # loads[j].key
  PROVE  \/ loads[i].addr + loads[i].len <= loads[j].addr
         \/ loads[j].addr + loads[j].len <= loads[i].addr
<1> DEFINE a == loads[i].key
           b == loads[j].key
           m == loads[i].addr
           n == loads[j].addr
           p == loads[i].addr + loads[i].len
           q == loads[j].addr + loads[j].len
           fa == From(kernel, a)
           ta == To(kernel, a)
           fb == From(kernel, b)
           tb == To(kernel, b)
<1>1. kernel \in Kernels /\ kernel.magic = "HdrS"
  BY InLinux DEF Linux
<1>2. a \in Present(kernel) /\ b \in Present(kernel) /\ a # b
  BY Within
<1>3. ta <= fb \/ tb <= fa
  BY <1>1, <1>2, RegionsDisjoint DEF Before
<1>4. /\ fa \in Int /\ ta \in Int /\ fb \in Int /\ tb \in Int
      /\ m \in Int /\ n \in Int /\ p \in Int /\ q \in Int
  BY <1>1, <1>2, Layout, Within
<1>5. fa <= m /\ p <= ta /\ fb <= n /\ q <= tb
  BY Within
<1> HIDE DEF m, n, p, q, fa, ta, fb, tb
<1>6. p <= n \/ q <= m
  BY <1>3, <1>4, <1>5
<1>7. QED
  BY <1>6 DEF m, n, p, q

-----------------------------------------------------------------------------
(* The properties.                                                         *)

\* The invariant implies RegionsApart.
LEMMA RegionsOfInv == IInv => RegionsApart
<1> SUFFICES ASSUME IInv, pc = "linux", NEW i \in DOMAIN loads
             PROVE  /\ \A j \in DOMAIN loads :
                         loads[j].key # loads[i].key
                           => ~Overlaps(loads[i].addr, loads[i].len,
                                        loads[j].addr, loads[j].addr + loads[j].len)
                    /\ \A r \in Own : ~Overlaps(loads[i].addr, loads[i].len, r[1], r[2])
                    /\ loads[i].addr + loads[i].len <= kernel.lowmem
                    /\ loads[i].key = "INITRD_DATA"
                         => loads[i].addr + loads[i].len - 1 <= InitrdMax
  BY DEF RegionsApart
<1> DEFINE k == kernel
           a == loads[i].addr
           n == loads[i].len
           key == loads[i].key
           f == From(k, key)
           t == To(k, key)
<1>1. /\ k \in Kernels /\ k.magic = "HdrS" /\ InitrdMax = InitrdTop(k)
  BY InLinux, Worked DEF Linux
<1>2. /\ key \in Present(k) /\ a \in Int /\ n \in Int /\ f <= a /\ a + n <= t
  BY Within
<1>3. f \in Int /\ t \in Int
  BY <1>1, <1>2, Layout
<1>4. key \in Keys /\ (key = "INITRD_DATA" => k.initrd_size > 0)
  BY <1>2 DEF Present
<1>5. /\ 65536 <= f /\ (t <= 630784 \/ 1048576 <= f)
      /\ k.lowmem \in Nat /\ t < k.lowmem
  <2>1. CASE key = "SETUP_DATA" \/ key = "CMDLINE_DATA"
    <3>1. CASE Early(k)
      BY SMT, <1>1, <1>3, <2>1, <3>1, Layout
    <3>2. CASE ~Early(k)
      BY SMT, <1>1, <1>3, <2>1, <3>2, Layout
    <3>3. QED
      BY <3>1, <3>2
  <2>2. CASE key = "KERNEL_DATA"
    <3>1. CASE Low(k)
      BY SMT, <1>1, <1>3, <2>2, <3>1, Layout
    <3>2. CASE ~Low(k)
      BY SMT, <1>1, <1>3, <2>2, <3>2, Layout
    <3>3. QED
      BY <3>1, <3>2
  <2>3. CASE key = "INITRD_DATA"
    BY SMT, <1>1, <1>3, <1>4, <2>3, Layout
  <2>4. QED
    BY <1>4, <2>1, <2>2, <2>3 DEF Keys
<1>6. key = "INITRD_DATA" => t <= InitrdMax /\ InitrdMax \in Int
  BY <1>1, <1>4, Layout, HighPlace
<1>7. ASSUME NEW j \in DOMAIN loads, loads[j].key # loads[i].key
      PROVE  ~Overlaps(loads[i].addr, loads[i].len,
                       loads[j].addr, loads[j].addr + loads[j].len)
  <2> DEFINE b == loads[j].addr
             m == loads[j].len
  <2>1. b \in Int /\ m \in Int
    BY Within
  <2>2. a + n <= b \/ b + m <= a
    BY <1>7, PartsApart
  <2> HIDE DEF a, n, b, m
  <2>3. ~Overlaps(a, n, b, b + m)
    BY <1>2, <2>1, <2>2 DEF Overlaps
  <2>4. QED
    BY <2>3 DEF a, n, b, m
<1> HIDE DEF a, n, f, t
<1>8. ASSUME NEW r \in Own
      PROVE  ~Overlaps(a, n, r[1], r[2])
  <2>1. r = <<0, 31744>> \/ r = <<654336, 655360>> \/ r = <<851968, 1048576>>
    BY SMT DEF Own
  <2>2. ~Overlaps(a, n, 0, 31744)
    BY SMT, <1>2, <1>3, <1>5 DEF Overlaps
  <2>3. ~Overlaps(a, n, 654336, 655360)
    BY SMT, <1>2, <1>3, <1>5 DEF Overlaps
  <2>4. ~Overlaps(a, n, 851968, 1048576)
    BY SMT, <1>2, <1>3, <1>5 DEF Overlaps
  <2>5. QED
    BY SMT, <2>1, <2>2, <2>3, <2>4
<1>9. a + n <= k.lowmem
  BY <1>2, <1>3, <1>5
<1>10. key = "INITRD_DATA" => a + n - 1 <= InitrdMax
  BY <1>2, <1>3, <1>6
<1>11. QED
  BY <1>7, <1>8, <1>9, <1>10 DEF a, n

\* For every kernel and every size of memory: the parts of a bzImage are loaded
\* over neither each other nor qboot (parse_bzimage works out where).
THEOREM BootRegionsApart == Spec => []RegionsApart
<1>1. QED
  BY BootInvariant, RegionsOfInv, PTL

\* The invariant implies SetupWhole.
LEMMA SetupOfInv == IInv => SetupWhole
<1> SUFFICES ASSUME IInv, pc = "linux"
             PROVE  SetupWhole
  BY DEF SetupWhole
<1> DEFINE k == kernel
           parts == Loads("SETUP_DATA")
           later == LoadedAt(k, "linux")
<1>1. /\ k \in Kernels /\ k.magic = "HdrS" /\ IsLoaded(loads, k, later)
      /\ args.setup_addr = k.setup_addr /\ patched = 1
  BY InLinux DEF Linux
<1>2. later = RestOf(k) \cup {Kern(k)} \cup {Cmdline(k, CmdlineTo(k))}
                \cup InitrdOf(k, InitrdTo(k))
  BY DEF LoadedAt
<1>3. /\ Peek(k).key = "SETUP_DATA" /\ Rest(k).key = "SETUP_DATA"
      /\ Kern(k).key = "KERNEL_DATA" /\ Cmdline(k, CmdlineTo(k)).key = "CMDLINE_DATA"
      /\ Initrd(k, InitrdTo(k)).key = "INITRD_DATA"
  BY DEF Peek, Rest, Kern, Cmdline, Initrd, L
<1>4. /\ Peek(k).off = 0 /\ Peek(k).addr = k.setup_addr /\ Peek(k).len = 8192
      /\ Rest(k).off = 8192 /\ Rest(k).addr = k.setup_addr + 8192
      /\ Rest(k).len = k.setup_size - 8192
  BY DEF Peek, Rest, L, PEEK
<1>5. parts = {Peek(k)} \cup RestOf(k)
  <2>1. parts = {l \in {Peek(k)} \cup later : l.key = "SETUP_DATA"}
    BY <1>1, LoadsOfKey
  <2>2. ASSUME NEW l
        PROVE  l \in parts <=> l = Peek(k) \/ l \in RestOf(k)
    BY <1>2, <1>3, <2>1 DEF RestOf, InitrdOf
  <2>3. QED
    BY <2>2
<1>6. k.setup_addr \in Nat /\ k.setup_size \in Nat
  BY <1>1, Fields
<1> HIDE DEF parts
<1>7. \A l \in parts : l.addr - l.off = args.setup_addr
  <2>1. Peek(k).addr - Peek(k).off = k.setup_addr
    BY <1>4, <1>6
  <2>2. Rest(k).addr - Rest(k).off = k.setup_addr
    BY <1>4, <1>6
  <2>3. QED
    BY <1>1, <1>5, <2>1, <2>2 DEF RestOf
<1>8. ASSUME NEW end \in {0} \cup {l.off + l.len : l \in parts}
      PROVE  \/ end >= k.setup_size
             \/ \E l \in parts : l.off <= end /\ end < l.off + l.len
  <2>1. end = 0 \/ end = 8192 \/ (k.setup_size > 8192 /\ end = k.setup_size)
    <3>1. end = 0 \/ \E l \in parts : end = l.off + l.len
      OBVIOUS
    <3>2. Peek(k).off + Peek(k).len = 8192
      BY <1>4
    <3>3. Rest(k).off + Rest(k).len = k.setup_size
      BY <1>4, <1>6
    <3>4. QED
      BY <1>5, <3>1, <3>2, <3>3 DEF RestOf, PEEK
  <2>2. CASE end = 0
    <3>1. Peek(k) \in parts /\ Peek(k).off <= end /\ end < Peek(k).off + Peek(k).len
      BY <1>4, <1>5, <2>2
    <3>2. QED
      BY <3>1
  <2>3. CASE end = 8192
    <3>1. CASE k.setup_size > 8192
      <4>1. Rest(k) \in parts
        BY <1>5, <3>1 DEF RestOf, PEEK
      <4>2. Rest(k).off <= end /\ end < Rest(k).off + Rest(k).len
        BY <1>4, <1>6, <2>3, <3>1
      <4>3. QED
        BY <4>1, <4>2
    <3>2. CASE ~(k.setup_size > 8192)
      BY <1>6, <2>3, <3>2
    <3>3. QED
      BY <3>1, <3>2
  <2>4. CASE end = k.setup_size
    BY <1>6, <2>4
  <2>5. QED
    BY <2>1, <2>2, <2>3, <2>4
<1>9. ASSUME NEW i \in patched + 1 .. Len(loads)
      PROVE  ~Overlaps(loads[i].addr, loads[i].len, args.setup_addr + 32,
                       args.setup_addr + 560)
  <2> DEFINE l == loads[i]
             addr == loads[i].addr
             len == loads[i].len
             base == k.setup_addr
  <2>1. i \in 2 .. Len(loads) /\ 1 \in DOMAIN loads /\ i \in DOMAIN loads
    <3>1. Len(loads) \in Nat /\ DOMAIN loads = 1 .. Len(loads)
      BY <1>1, EachLoad
    <3>2. QED
      BY <1>1, <3>1
  <2>2. l \in later /\ loads[1] = Peek(k)
    BY <1>1, <2>1, EachLoad
  <2>3. addr \in Int /\ len \in Int /\ base \in Int
    BY <1>6, <2>1, Within
  <2>4. CASE l.key = "SETUP_DATA"
    <3>1. l = Rest(k)
      BY <1>2, <1>3, <2>2, <2>4 DEF RestOf, InitrdOf
    <3>2. addr = base + 8192
      BY <1>4, <3>1
    <3> HIDE DEF addr, len, base
    <3>3. ~Overlaps(addr, len, base + 32, base + 560)
      BY <2>3, <3>2 DEF Overlaps
    <3>4. QED
      BY <1>1, <3>3 DEF addr, len, base
  <2>5. CASE l.key # "SETUP_DATA"
    <3>1. loads[1].key = "SETUP_DATA" /\ loads[1].addr = base /\ loads[1].len = 8192
      BY <1>3, <1>4, <2>2
    <3>2. addr + len <= loads[1].addr \/ loads[1].addr + loads[1].len <= addr
      BY <2>1, <2>5, <3>1, PartsApart
    <3>3. addr + len <= base \/ base + 8192 <= addr
      BY <3>1, <3>2
    <3> HIDE DEF addr, len, base
    <3>4. ~Overlaps(addr, len, base + 32, base + 560)
      BY <2>3, <3>3 DEF Overlaps
    <3>5. QED
      BY <1>1, <3>4 DEF addr, len, base
  <2>6. QED
    BY <2>4, <2>5
<1>10. QED
  BY <1>7, <1>8, <1>9 DEF SetupWhole, parts

\* For every kernel: the two reads of the setup part leave it whole, and nothing
\* goes over the patched header (fw_cfg_read_entry, fw_cfg_read).
THEOREM BootSetupWhole == Spec => []SetupWhole
<1>1. QED
  BY BootInvariant, SetupOfInv, PTL

\* A number of 16 bits is left alone.
LEMMA SixteenBits ==
  ASSUME NEW x \in Int, 0 <= x, x < 65536
  PROVE  x % 65536 = x
BY SMT

\* The invariant implies HeaderTrue.
LEMMA HeaderOfInv == IInv => HeaderTrue
<1> SUFFICES ASSUME IInv, pc = "linux"
             PROVE  HeaderTrue
  BY DEF HeaderTrue
<1> DEFINE k == kernel
           later == LoadedAt(k, "linux")
           c == CmdlineTo(k)
           base == k.setup_addr
           d == c - base
<1>1. /\ k \in Kernels /\ k.magic = "HdrS" /\ IsLoaded(loads, k, later)
      /\ args.setup_addr = base /\ args.cmdline_addr = c /\ header = HeaderOf(k)
  BY InLinux DEF Linux
<1>2. later = RestOf(k) \cup {Kern(k)} \cup {Cmdline(k, c)} \cup InitrdOf(k, InitrdTo(k))
  BY DEF LoadedAt
<1>3. /\ Peek(k).key = "SETUP_DATA" /\ Rest(k).key = "SETUP_DATA"
      /\ Kern(k).key = "KERNEL_DATA" /\ Cmdline(k, c).key = "CMDLINE_DATA"
      /\ Initrd(k, InitrdTo(k)).key = "INITRD_DATA" /\ Cmdline(k, c).addr = c
      /\ Initrd(k, InitrdTo(k)).addr = InitrdTo(k)
      /\ Initrd(k, InitrdTo(k)).len = k.initrd_size
  BY DEF Peek, Rest, Kern, Cmdline, Initrd, L
<1>4. \A l \in Loads("CMDLINE_DATA") : l.addr = c
  BY <1>1, <1>2, <1>3, LoadsOfKey DEF RestOf, InitrdOf
<1>5. Loads("INITRD_DATA") = InitrdOf(k, InitrdTo(k))
  <2>1. Loads("INITRD_DATA") = {l \in {Peek(k)} \cup later : l.key = "INITRD_DATA"}
    BY <1>1, LoadsOfKey
  <2>2. ASSUME NEW l
        PROVE  l \in Loads("INITRD_DATA") <=> l \in InitrdOf(k, InitrdTo(k))
    BY <1>2, <1>3, <2>1 DEF RestOf, InitrdOf
  <2>3. QED
    BY <2>2
<1>6. /\ base \in Nat /\ k.setup_size \in Nat /\ k.setup_size <= 33280
      /\ k.protocol \in Nat /\ k.initrd_size \in Nat /\ c \in Int
  BY <1>1, Fields, SetupPlace, CmdlinePlace
<1>7. d \in Int /\ 34800 < d /\ d <= 65536 /\ (k.protocol < 514 => d < 65536)
      /\ base = (IF Early(k) THEN 589824 ELSE 65536)
  <2>1. base = IF Early(k) THEN 589824 ELSE 65536
    BY <1>1, SetupPlace
  <2>2. k.protocol < 514 => Early(k)
    BY DEF Early
  <2>3. /\ Early(k) => c > 624624 /\ c + k.cmdline_size <= 630784
        /\ ~Early(k) => c = 131072
        /\ k.cmdline_size \in Nat
    BY <1>1, CmdlinePlace
  <2>4. CASE Early(k)
    BY SMT, <1>6, <2>1, <2>3, <2>4
  <2>5. CASE ~Early(k)
    BY SMT, <1>6, <2>1, <2>2, <2>3, <2>5
  <2>6. QED
    BY <2>4, <2>5
<1>8. /\ header.cmd_line_ptr = (IF k.protocol >= 514 THEN c ELSE NONE)
      /\ header.cmd_line_off = (IF k.protocol < 514 THEN d % 65536 ELSE NONE)
      /\ header.heap_end = (IF k.protocol >= 513 THEN (d - 512) % 65536 ELSE NONE)
      /\ header.ramdisk_image = InitrdTo(k) /\ header.ramdisk_size = k.initrd_size
  BY SMT, <1>1, <1>7 DEF HeaderOf
<1> HIDE DEF d, c, base
<1>9. \A l \in Loads("CMDLINE_DATA") :
        l.addr = IF k.protocol >= 514 THEN header.cmd_line_ptr
                 ELSE args.setup_addr + header.cmd_line_off
  <2>1. CASE k.protocol >= 514
    BY <1>4, <1>8, <2>1
  <2>2. CASE ~(k.protocol >= 514)
    <3>1. k.protocol < 514 /\ d % 65536 = d
      <4>1. k.protocol < 514
        BY <1>6, <2>2
      <4>2. 0 <= d /\ d < 65536
        BY SMT, <1>7, <4>1
      <4>3. QED
        BY <1>7, <4>1, <4>2, SixteenBits
    <3>2. args.setup_addr + header.cmd_line_off = c
      BY <1>1, <1>6, <1>8, <3>1 DEF d
    <3>3. QED
      BY <1>4, <2>2, <3>2
  <2>3. QED
    BY <2>1, <2>2
<1>10. {<<l.addr, l.len>> : l \in Loads("INITRD_DATA")} =
         IF kernel.initrd_size = 0 THEN {}
         ELSE {<<header.ramdisk_image, header.ramdisk_size>>}
  <2>1. CASE k.initrd_size = 0
    BY <1>5, <2>1 DEF InitrdOf
  <2>2. CASE k.initrd_size # 0
    <3>1. Loads("INITRD_DATA") = {Initrd(k, InitrdTo(k))}
      BY <1>5, <1>6, <2>2 DEF InitrdOf
    <3>2. QED
      BY <1>3, <1>8, <2>2, <3>1
  <2>3. QED
    BY <2>1, <2>2
<1>11. StackPointer = d - 16
  <2>1. StackPointer = (d - 16) % 65536
    BY <1>1 DEF StackPointer, d
  <2>2. d - 16 \in Int /\ 0 <= d - 16 /\ d - 16 < 65536
    BY SMT, <1>7
  <2>3. QED
    BY <2>1, <2>2, SixteenBits
<1>12. /\ kernel.setup_size < StackPointer
       /\ args.setup_addr + StackPointer < args.cmdline_addr
  <2>1. k.setup_size < d - 16
    BY SMT, <1>6, <1>7
  <2>2. base + (d - 16) < c
    BY <1>6, <1>7 DEF d
  <2>3. QED
    BY <1>1, <1>11, <2>1, <2>2
<1>13. header.can_use_heap = (k.protocol >= 513)
  BY SMT, <1>1 DEF HeaderOf
<1>14. header.can_use_heap => /\ kernel.setup_size < header.heap_end
                              /\ header.heap_end < StackPointer
  <2> SUFFICES ASSUME k.protocol >= 513
               PROVE  kernel.setup_size < header.heap_end /\ header.heap_end < StackPointer
    BY Zenon, <1>13
  <2>1. d - 512 \in Int /\ 0 <= d - 512 /\ d - 512 < 65536
    BY SMT, <1>7
  <2>2. header.heap_end = d - 512
    BY <1>8, <2>1, SixteenBits
  <2>3. k.setup_size < d - 512 /\ d - 512 < d - 16
    BY SMT, <1>6, <1>7
  <2>4. QED
    BY <1>11, <2>2, <2>3
<1>15. QED
  BY <1>9, <1>10, <1>12, <1>14 DEF HeaderTrue

\* For every kernel: its header says where the command line and the ramdisk were
\* loaded, and leaves room for a heap and a stack (parse_bzimage, boot_bzimage).
THEOREM BootHeaderTrue == Spec => []HeaderTrue
<1>1. QED
  BY BootInvariant, HeaderOfInv, PTL

\* The invariant implies StartInfoTrue.
LEMMA StartInfoOfInv == IInv => StartInfoTrue
<1> SUFFICES ASSUME IInv, pc = "pvh"
             PROVE  StartInfoTrue
  BY DEF StartInfoTrue
<1> DEFINE k == kernel
           c == start_info.cmdline_paddr
           m == start_info.memmap_paddr
           S == {Cmdline(k, c)} \cup InitrdOf(k, k.initrd_addr)
<1>1. /\ k \in Kernels /\ c \in Int /\ m \in Int
  BY DEF IInv, TypeInv, StartInfo
<1>2. /\ c = AlignDown(MALLOC_TOP - k.cmdline_size, 16)
      /\ m = AlignDown(c - 24 * E820_ENTRIES, 16)
      /\ start_info.memmap_entries = E820_ENTRIES
      /\ IF k.initrd_size = 0
         THEN start_info.nr_modules = 0
         ELSE /\ start_info.nr_modules = 1
              /\ start_info.module.paddr = k.initrd_addr
              /\ start_info.module.size = k.initrd_size
      /\ IsLoaded(loads, k, S)
  BY DEF IInv, PvhInv, Pvh
<1>3. /\ k.cmdline_size \in Nat /\ k.initrd_size \in Nat
      /\ MALLOC_TOP \in Nat /\ E820_ENTRIES \in Nat
  BY <1>1, Fields, KernelAssumption
<1>4. /\ Peek(k).key = "SETUP_DATA" /\ Cmdline(k, c).key = "CMDLINE_DATA"
      /\ Initrd(k, k.initrd_addr).key = "INITRD_DATA" /\ Cmdline(k, c).addr = c
      /\ Initrd(k, k.initrd_addr).addr = k.initrd_addr
      /\ Initrd(k, k.initrd_addr).len = k.initrd_size
  BY DEF Peek, Cmdline, Initrd, L
<1>5. m + 24 * start_info.memmap_entries <= c
  <2> DEFINE x == c - 24 * E820_ENTRIES
  <2>1. x \in Int /\ x + 24 * E820_ENTRIES = c
    BY <1>1, <1>3
  <2>2. m <= x
    BY <1>2, <2>1, Aligned
  <2> HIDE DEF x, m, c
  <2>3. QED
    BY <1>1, <1>2, <1>3, <2>1, <2>2
<1>6. c + k.cmdline_size <= MALLOC_TOP
  <2> DEFINE x == MALLOC_TOP - k.cmdline_size
  <2>1. x \in Int /\ x + k.cmdline_size = MALLOC_TOP
    BY <1>3
  <2>2. c <= x
    BY <1>2, <2>1, Aligned
  <2> HIDE DEF x, c
  <2>3. QED
    BY <1>1, <1>3, <2>1, <2>2
<1>7. Loads("CMDLINE_DATA") = {Cmdline(k, c)}
      /\ Loads("INITRD_DATA") = InitrdOf(k, k.initrd_addr)
  <2>1. /\ Loads("CMDLINE_DATA") = {l \in {Peek(k)} \cup S : l.key = "CMDLINE_DATA"}
        /\ Loads("INITRD_DATA") = {l \in {Peek(k)} \cup S : l.key = "INITRD_DATA"}
    BY <1>2, LoadsOfKey
  <2>2. ASSUME NEW l
        PROVE  /\ l \in Loads("CMDLINE_DATA") <=> l = Cmdline(k, c)
               /\ l \in Loads("INITRD_DATA") <=> l \in InitrdOf(k, k.initrd_addr)
    BY <1>4, <2>1 DEF InitrdOf
  <2>3. QED
    BY <2>2
<1>8. {l.addr : l \in Loads("CMDLINE_DATA")} = {c}
  BY <1>4, <1>7
<1>9. {<<l.addr, l.len>> : l \in Loads("INITRD_DATA")} =
        IF start_info.nr_modules = 0 THEN {}
        ELSE {<<start_info.module.paddr, start_info.module.size>>}
  <2>1. CASE k.initrd_size = 0
    BY <1>2, <1>7, <2>1 DEF InitrdOf
  <2>2. CASE k.initrd_size # 0
    <3>1. Loads("INITRD_DATA") = {Initrd(k, k.initrd_addr)}
      BY <1>3, <1>7, <2>2 DEF InitrdOf
    <3>2. QED
      BY <1>2, <1>4, <2>2, <3>1
  <2>3. QED
    BY <2>1, <2>2
<1>10. start_info.nr_modules = 1 =>
         LET module == start_info.module
         IN  /\ ~Overlaps(module.paddr, module.size, m, m + 24 * start_info.memmap_entries)
             /\ ~Overlaps(module.paddr, module.size, c, c + k.cmdline_size)
  <2> SUFFICES ASSUME start_info.nr_modules = 1
               PROVE  /\ m + 24 * start_info.memmap_entries <= start_info.module.paddr
                      /\ c + k.cmdline_size <= start_info.module.paddr
    <3>1. k.initrd_size # 0 => /\ start_info.module.paddr = k.initrd_addr
                               /\ k.initrd_addr \in Nat
      BY <1>1, <1>2, Fields
    <3>2. start_info.nr_modules = 1 => k.initrd_size # 0
      BY <1>2
    <3> HIDE DEF c, m
    <3> QED BY <1>1, <1>2, <1>3, <3>1, <3>2 DEF Overlaps
  <2>1. k.initrd_size > 0 /\ start_info.module.paddr = k.initrd_addr
    BY <1>2, <1>3
  <2>2. k.magic = "ELF"
    BY DEF IInv, PvhInv, Pvh
  <2>3. k.initrd_addr >= 1048576 /\ MALLOC_TOP <= 983040 /\ k.initrd_addr \in Nat
    BY <1>1, <2>1, <2>2, Fields, PlaceAssumption DEF STEXT
  <2> HIDE DEF c, m
  <2> QED BY <1>1, <1>2, <1>3, <1>5, <1>6, <2>1, <2>3
<1>11. QED
  BY <1>5, <1>6, <1>8, <1>9, <1>10 DEF StartInfoTrue

\* For every ELF kernel: start_info says where its command line and its module
\* are, apart from each other, and the memory map covers neither
\* (boot_pvh_from_fw_cfg).
THEOREM BootStartInfoTrue == Spec => []StartInfoTrue
<1>1. QED
  BY BootInvariant, StartInfoOfInv, PTL

-----------------------------------------------------------------------------
(* The memory map, for every file that QEMU may offer: RAM is apart from    *)
(* everything else in it, and each boot protocol passes on all of it.      *)

\* The entries before those of the file.
Fixed == FixedEntries \o IF have_mmconfig THEN <<Mmconfig>> ELSE <<>>

\* Entry i of the file is the RAM below 4G.
IsLowRam(f, i) ==
  /\ i \in DOMAIN f
  /\ f[i].addr = 0 /\ f[i].size >= MB /\ f[i].type = "RAM"
  /\ \A j \in DOMAIN f \ {i} : f[j].addr >= MB

\* The map: head, then the file with that entry moved, then what may be junk.
IsMap(map, n, head, f, i) ==
  /\ map \in Seq(Entry) /\ n = Len(head) + Len(f) /\ n <= Len(map)
  /\ \A k \in 1 .. Len(head) : map[k] = head[k]
  /\ \A k \in 1 .. Len(f) : map[Len(head) + k] = IF k = i THEN Moved(f[k]) ELSE f[k]

MapMade ==
  /\ file # None
  /\ \E i \in DOMAIN file : /\ IsLowRam(file, i) /\ IsMap(e820, filled, Fixed, file, i)
                            /\ lowmem = file[i].size

MachineInv ==
  /\ have_mmconfig \in BOOLEAN /\ file \in Files
  /\ have_mmconfig /\ file # None => BesideMmconfig(file)

\* Before the map is made; while a Linux setup asks for it, an entry a call;
\* and when the kernel has it.
TableInv ==
  /\ map_pc \in {"start", "boot", "panic", "int15"} \cup Booted
  /\ regs \in [ebx : Nat, cf : BOOLEAN]
  /\ map_pc \in {"start", "panic"} => filled = 0
  /\ map_pc \notin {"start", "panic"} => MapMade
  /\ map_pc \in {"start", "boot"} => table = <<>> /\ regs.ebx = 0
  /\ map_pc = "int15" => /\ table \in Seq(Entry) /\ Len(table) = regs.ebx
                     /\ regs.ebx < Len(e820)
                     /\ \A k \in 1 .. regs.ebx : table[k] = e820[k]
  /\ map_pc \in Booted => table = e820
  /\ map_pc = "multiboot" => mem_upper = lowmem - MB

MapIInv == MachineInv /\ TableInv

-----------------------------------------------------------------------------
(* extract_e820.                                                           *)

\* What the head is made of.
LEMMA HeadEntries ==
  ASSUME have_mmconfig \in BOOLEAN
  PROVE  /\ Fixed \in Seq(Entry) /\ Len(Fixed) \in {4, 5} /\ (Len(Fixed) = 5 <=> have_mmconfig)
         /\ Fixed[1] = E(0, 639, "RAM") /\ Fixed[2] = E(639, 1, "RESERVED")
         /\ Fixed[3] = E(832, 128, "NVS") /\ Fixed[4] = E(960, 64, "RESERVED")
         /\ have_mmconfig => Fixed[5] = Mmconfig
<1> DEFINE fixed == <<E(0, 639, "RAM"), E(639, 1, "RESERVED"), E(832, 128, "NVS"),
                      E(960, 64, "RESERVED")>>
<1>1. /\ E(0, 639, "RAM") \in Entry /\ E(639, 1, "RESERVED") \in Entry
      /\ E(832, 128, "NVS") \in Entry /\ E(960, 64, "RESERVED") \in Entry
      /\ Mmconfig \in Entry
  BY DEF E, Entry, Types, Mmconfig
<1>2. /\ fixed \in Seq(Entry) /\ Len(fixed) = 4
      /\ fixed[1] = E(0, 639, "RAM") /\ fixed[2] = E(639, 1, "RESERVED")
      /\ fixed[3] = E(832, 128, "NVS") /\ fixed[4] = E(960, 64, "RESERVED")
  BY <1>1
<1>3. Fixed = fixed \o IF have_mmconfig THEN <<Mmconfig>> ELSE <<>>
  BY DEF Fixed, FixedEntries
<1> HIDE DEF fixed
<1>4. CASE have_mmconfig
  <2>1. Fixed = fixed \o <<Mmconfig>>
    BY <1>3, <1>4
  <2>2. /\ Fixed \in Seq(Entry) /\ Len(Fixed) = 5 /\ Fixed[5] = Mmconfig
        /\ \A k \in 1 .. 4 : Fixed[k] = fixed[k]
    <3>1. Fixed = Append(fixed, Mmconfig)
      BY <1>1, <1>2, <2>1
    <3> DEFINE all == Append(fixed, Mmconfig)
    <3>2. fixed \in Seq(Entry) /\ Mmconfig \in Entry
      BY <1>1, <1>2
    <3>3. /\ all \in Seq(Entry) /\ Len(all) = Len(fixed) + 1 /\ all[Len(fixed) + 1] = Mmconfig
          /\ \A k \in 1 .. Len(fixed) : all[k] = fixed[k]
      BY <3>2, Appended
    <3>4. Len(fixed) = 4 /\ Len(fixed) + 1 = 5
      BY <1>2
    <3>5. QED
      BY <3>1, <3>3, <3>4
  <2>3. QED
    BY <1>2, <1>4, <2>2
<1>5. CASE ~have_mmconfig
  <2>1. Fixed = fixed
    BY <1>2, <1>3, <1>5
  <2>2. Fixed \in Seq(Entry) /\ Len(Fixed) = 4
    BY <1>2, <2>1
  <2>3. Len(Fixed) \in {4, 5} /\ (Len(Fixed) = 5 <=> have_mmconfig)
    BY <1>5, <2>2
  <2>4. /\ Fixed[1] = E(0, 639, "RAM") /\ Fixed[2] = E(639, 1, "RESERVED")
        /\ Fixed[3] = E(832, 128, "NVS") /\ Fixed[4] = E(960, 64, "RESERVED")
    BY <1>2, <2>1
  <2>5. have_mmconfig => Fixed[5] = Mmconfig
    BY <1>5
  <2>6. QED
    BY <2>2, <2>3, <2>4, <2>5
<1>6. QED
  BY <1>4, <1>5

\* Of a file that is there.
LEMMA FileFacts ==
  ASSUME MachineInv, file # None
  PROVE  /\ file \in Seq(Entry)
         /\ \E i \in DOMAIN file : IsLowRam(file, i)
         /\ \A i, j \in DOMAIN file : i # j /\ file[i].type = "RAM" => Apart(file[i], file[j])
<1>1. IsFile(file)
  BY FileAssumption DEF MachineInv
<1>2. PICK i \in DOMAIN file :
        /\ file[i].addr = 0 /\ file[i].size >= MB /\ file[i].type = "RAM"
        /\ \A j \in DOMAIN file \ {i} : file[j].addr >= MB
  BY <1>1 DEF IsFile
<1>3. IsLowRam(file, i)
  BY <1>2 DEF IsLowRam
<1>4. QED
  BY <1>1, <1>3 DEF IsFile

\* The entry the loop stops at is the file's, whatever the junk behind it is.
LEMMA OneLow ==
  ASSUME NEW head \in Seq(Entry), NEW f \in Seq(Entry), NEW i, IsLowRam(f, i),
         NEW map \in Seq(Entry), Len(head) + Len(f) <= Len(map),
         \A k \in 1 .. Len(f) : map[Len(head) + k] = f[k]
  PROVE  LowRam(map, Len(head) + 1) = {Len(head) + i}
<1> DEFINE h == Len(head)
<1>1. /\ h \in Nat /\ i \in 1 .. Len(f) /\ f[i].addr = 0
      /\ \A j \in 1 .. Len(f) : j # i => f[j].addr >= MB
  BY DEF IsLowRam
<1>2. h + i \in h + 1 .. Len(map) /\ map[h + i].addr = 0
  BY <1>1
<1>3. ASSUME NEW j \in h + 1 .. h + i - 1
      PROVE  map[j].addr # 0
  <2>1. j - h \in 1 .. Len(f) /\ j - h # i /\ h + (j - h) = j
    BY <1>1
  <2>2. map[j] = f[j - h] /\ f[j - h].addr >= MB
    BY <1>1, <2>1
  <2>3. QED
    BY <2>2 DEF MB
<1>4. ASSUME NEW k \in h + 1 .. Len(map), map[k].addr = 0,
             \A j \in h + 1 .. k - 1 : map[j].addr # 0
      PROVE  k = h + i
  <2>1. CASE k < h + i
    <3>1. k \in h + 1 .. h + i - 1
      BY <1>1, <2>1
    <3>2. QED
      BY <1>3, <1>4, <3>1
  <2>2. CASE k > h + i
    <3>1. h + i \in h + 1 .. k - 1
      BY <1>1, <2>2
    <3>2. QED
      BY <1>2, <1>4, <3>1
  <2>3. QED
    BY <1>1, <2>1, <2>2
<1> HIDE DEF h
<1>5. LowRam(map, h + 1) = {h + i}
  <2>1. ASSUME NEW k \in LowRam(map, h + 1)
        PROVE  k = h + i
    BY <1>4 DEF LowRam
  <2>2. h + i \in LowRam(map, h + 1)
    <3> DEFINE p == h + i
    <3>1. /\ p \in h + 1 .. Len(map)
          /\ map[p].addr = 0 /\ \A j \in h + 1 .. p - 1 : map[j].addr # 0
      BY <1>1, <1>2, <1>3
    <3> HIDE DEF p
    <3>2. p \in LowRam(map, h + 1)
      BY <3>1, Zenon DEF LowRam
    <3>3. QED
      BY <3>2 DEF p
  <2>3. QED
    BY <2>1, <2>2
<1>6. QED
  BY <1>5 DEF h

\* The entry that is moved is one still.
LEMMA MovedEntry ==
  ASSUME NEW e \in Entry, e.size >= MB
  PROVE  /\ Moved(e) \in Entry /\ Moved(e).addr = MB /\ Moved(e).size = e.size - MB
         /\ Moved(e).type = e.type
<1>1. e.addr \in Nat /\ e.size \in Nat /\ e.type \in Types
  BY DEF Entry
<1>2. e.size - MB \in Nat /\ MB \in Nat
  BY <1>1 DEF MB
<1>3. Moved(e) = [e EXCEPT !.addr = MB, !.size = e.size - MB]
  BY DEF Moved
<1>4. Moved(e).addr = MB
  BY <1>3 DEF Entry
<1>5. Moved(e).size = e.size - MB
  BY <1>3 DEF Entry
<1>6. Moved(e).type = e.type
  BY <1>3 DEF Entry
<1>7. Moved(e) \in Entry
  BY <1>1, <1>2, <1>3 DEF Entry
<1>8. QED
  BY <1>4, <1>5, <1>6, <1>7

\* The map is made, or qboot panics for want of the file.
LEMMA ExtractStep ==
  ASSUME MapIInv, extract_e820
  PROVE  MapIInv'
<1>1. /\ map_pc = "start" /\ MachineInv
      /\ UNCHANGED <<have_mmconfig, file, regs, table, mem_upper>>
      /\ table = <<>> /\ regs.ebx = 0 /\ regs \in [ebx : Nat, cf : BOOLEAN] /\ filled = 0
  BY DEF extract_e820, MapIInv, TableInv
<1>2. MachineInv'
  BY <1>1 DEF MachineInv, BesideMmconfig
<1>3. CASE file = None
  <2>1. map_pc' = "panic" /\ filled' = 0
    BY <1>1, <1>3 DEF extract_e820
  <2>2. TableInv'
    BY <1>1, <2>1 DEF TableInv, Booted
  <2>3. QED
    BY <1>2, <2>2 DEF MapIInv
<1>4. CASE file # None
  <2> DEFINE loaded == Fixed \o file
  <2>1. PICK junk \in MapJunk :
          LET map == IF have_mmconfig THEN loaded ELSE Append(loaded, junk)
              low == LowRam(map, Len(Fixed) + 1)
          IN  /\ e820' = [i \in DOMAIN map |-> IF i \in low THEN Moved(map[i]) ELSE map[i]]
              /\ lowmem' = IF low = {} THEN lowmem ELSE map[CHOOSE i \in low : TRUE].size
              /\ filled' = Len(loaded)
              /\ map_pc' = "boot"
    BY <1>4 DEF extract_e820, Fixed
  <2> DEFINE map == IF have_mmconfig THEN loaded ELSE Append(loaded, junk)
             h == Len(Fixed)
  <2>2. /\ Fixed \in Seq(Entry) /\ file \in Seq(Entry) /\ junk \in Entry
    BY <1>1, <1>4, HeadEntries, FileFacts, FileAssumption DEF MachineInv
  <2>3. PICK i \in DOMAIN file : IsLowRam(file, i)
    BY <1>1, <1>4, FileFacts
  <2>4. /\ loaded \in Seq(Entry) /\ Len(loaded) = h + Len(file)
        /\ \A k \in 1 .. h : loaded[k] = Fixed[k]
        /\ \A k \in 1 .. Len(file) : loaded[h + k] = file[k]
    BY <2>2
  <2> HIDE DEF loaded
  <2>5. /\ map \in Seq(Entry) /\ Len(loaded) <= Len(map)
        /\ \A k \in 1 .. Len(loaded) : map[k] = loaded[k]
    BY <2>2, <2>4
  <2>6. h \in Nat /\ Len(file) \in Nat
    BY <2>2
  <2>7. /\ \A k \in 1 .. h : map[k] = Fixed[k]
        /\ \A k \in 1 .. Len(file) : map[h + k] = file[k]
    <3>1. /\ \A k \in 1 .. h : k \in 1 .. Len(loaded)
          /\ \A k \in 1 .. Len(file) : h + k \in 1 .. Len(loaded)
      BY <2>4, <2>6
    <3>2. QED
      BY <2>4, <2>5, <3>1
  <2> HIDE DEF map
  <2>8. LowRam(map, h + 1) = {h + i}
    <3>1. Len(Fixed) + Len(file) <= Len(map)
      BY <2>4, <2>5
    <3>2. QED
      BY <2>2, <2>3, <2>5, <2>7, <3>1, OneLow
  <2>9. /\ e820' = [k \in DOMAIN map |-> IF k \in {h + i} THEN Moved(map[k]) ELSE map[k]]
        /\ lowmem' = map[h + i].size /\ filled' = h + Len(file) /\ map_pc' = "boot"
    BY <2>1, <2>4, <2>8 DEF map
  <2> HIDE DEF h
  <2>10. i \in 1 .. Len(file) /\ h + i \in 1 .. Len(map) /\ map[h + i] = file[i]
    BY <2>2, <2>4, <2>5, <2>6, <2>7
  <2>11. Moved(map[h + i]) \in Entry
    <3>1. file[i] \in Entry /\ file[i].size >= MB
      BY <2>2, <2>3, <2>10 DEF IsLowRam
    <3>2. QED
      BY <2>10, <3>1, MovedEntry
  <2>12. e820' \in Seq(Entry) /\ Len(e820') = Len(map)
    <3>1. \A k \in 1 .. Len(map) : map[k] \in Entry
      BY <2>5
    <3>2. DOMAIN map = 1 .. Len(map) /\ Len(map) \in Nat
      BY <2>5
    <3>3. \A k \in 1 .. Len(map) : e820'[k] \in Entry
      BY <2>9, <2>11, <3>1, <3>2
    <3>4. e820' = [k \in 1 .. Len(map) |-> e820'[k]]
      BY <2>9, <3>2
    <3>5. e820' \in [1 .. Len(map) -> Entry]
      BY <3>3, <3>4
    <3>6. QED
      BY <3>2, <3>5
  <2>13. \A k \in 1 .. h : e820'[k] = Fixed[k]
    <3>1. \A k \in 1 .. h : k \in DOMAIN map /\ k # h + i
      BY <2>4, <2>5, <2>6, <2>10
    <3>2. QED
      BY <2>7, <2>9, <3>1
  <2>14. \A k \in 1 .. Len(file) : e820'[h + k] = IF k = i THEN Moved(file[k]) ELSE file[k]
    <3>1. \A k \in 1 .. Len(file) : h + k \in DOMAIN map /\ (h + k = h + i <=> k = i)
      BY <2>4, <2>5, <2>6, <2>10
    <3>2. QED
      BY <2>7, <2>9, <3>1
  <2>15. IsMap(e820', filled', Fixed, file, i)
    BY <2>4, <2>5, <2>9, <2>12, <2>13, <2>14 DEF IsMap, h
  <2>16. Fixed' = Fixed
    BY <1>1 DEF Fixed
  <2>17. MapMade'
    <3>1. lowmem' = file'[i].size
      BY <1>1, <2>9, <2>10
    <3>2. QED
      BY <1>1, <1>4, <2>3, <2>15, <2>16, <3>1 DEF MapMade
  <2>18. TableInv'
    BY <1>1, <2>9, <2>17 DEF TableInv, Booted
  <2>19. QED
    BY <1>2, <2>18 DEF MapIInv
<1>5. QED
  BY <1>3, <1>4

-----------------------------------------------------------------------------
(* The boot protocols.                                                     *)

\* They leave the map alone.
LEMMA MapKept ==
  ASSUME UNCHANGED <<have_mmconfig, file, e820, lowmem, filled>>
  PROVE  (MapMade' <=> MapMade) /\ (MachineInv' <=> MachineInv)
<1>1. Fixed' = Fixed
  BY DEF Fixed
<1>2. QED
  BY <1>1 DEF MapMade, MachineInv, BesideMmconfig

\* The map has an entry.
LEMMA MapLength ==
  ASSUME MapMade, MachineInv
  PROVE  e820 \in Seq(Entry) /\ Len(e820) \in Nat /\ 0 < Len(e820)
<1>1. PICK i \in DOMAIN file : IsMap(e820, filled, Fixed, file, i)
  BY DEF MapMade
<1>2. Fixed \in Seq(Entry) /\ Len(Fixed) > 0
  BY HeadEntries DEF MachineInv
<1>3. file \in Seq(Entry)
  BY FileFacts DEF MapMade
<1>4. QED
  BY <1>1, <1>2, <1>3 DEF IsMap

\* One call of int 15h/E820h.
LEMMA QueryStep ==
  ASSUME MapIInv, e820_query_map
  PROVE  MapIInv'
<1> DEFINE n == regs.ebx
<1>1. /\ map_pc = "int15" /\ UNCHANGED <<have_mmconfig, file, e820, lowmem, mem_upper, filled>>
      /\ regs' = [ebx |-> NextEbx(n + 1), cf |-> FALSE]
      /\ map_pc' = IF regs'.ebx = 0 THEN "linux" ELSE map_pc
      /\ table' = Append(table, IF n < Len(e820) THEN e820[n + 1] ELSE table[Len(table)])
  BY DEF e820_query_map
<1>2. /\ MachineInv /\ MapMade /\ n \in Nat /\ table \in Seq(Entry) /\ Len(table) = n
      /\ n < Len(e820) /\ \A k \in 1 .. n : table[k] = e820[k]
  BY <1>1 DEF MapIInv, TableInv
<1>3. e820 \in Seq(Entry) /\ Len(e820) \in Nat
  BY <1>2, MapLength
<1>4. table' = Append(table, e820[n + 1]) /\ e820[n + 1] \in Entry
  BY <1>1, <1>2, <1>3
<1>5. /\ table' \in Seq(Entry) /\ Len(table') = n + 1
      /\ \A k \in 1 .. n : table'[k] = table[k]
      /\ table'[n + 1] = e820[n + 1]
  BY <1>2, <1>4
<1> HIDE DEF n
<1>6. \A k \in 1 .. n + 1 : table'[k] = e820[k]
  BY <1>2, <1>5
<1>7. MachineInv' /\ MapMade'
  BY <1>1, <1>2, MapKept
<1>8. CASE n + 1 >= Len(e820)
  <2>1. n + 1 = Len(e820) /\ regs' = [ebx |-> 0, cf |-> FALSE] /\ map_pc' = "linux"
    BY <1>1, <1>2, <1>3, <1>8 DEF NextEbx
  <2>2. table' = e820
    BY <1>3, <1>5, <1>6, <2>1
  <2>3. TableInv'
    BY <1>1, <1>7, <2>1, <2>2 DEF TableInv, Booted
  <2>4. QED
    BY <1>7, <2>3 DEF MapIInv
<1>9. CASE ~(n + 1 >= Len(e820))
  <2>1. regs' = [ebx |-> n + 1, cf |-> FALSE] /\ map_pc' = "int15" /\ n + 1 \in Nat
    BY <1>1, <1>2, <1>3, <1>9 DEF NextEbx
  <2>2. TableInv'
    BY <1>1, <1>2, <1>3, <1>5, <1>6, <1>7, <1>9, <2>1 DEF TableInv, Booted
  <2>3. QED
    BY <1>7, <2>2 DEF MapIInv
<1>10. QED
  BY <1>8, <1>9

\* Every step keeps the invariant.
LEMMA MapStep ==
  ASSUME MapIInv, [MapNext]_mapVars
  PROVE  MapIInv'
<1>1. CASE extract_e820
  BY <1>1, ExtractStep
<1>2. CASE StartInt15
  <2>1. /\ map_pc = "boot" /\ map_pc' = "int15"
        /\ UNCHANGED <<have_mmconfig, file, e820, lowmem, regs, table, mem_upper, filled>>
    BY <1>2 DEF StartInt15
  <2>2. MachineInv /\ MapMade /\ table = <<>> /\ regs.ebx = 0
    BY <2>1 DEF MapIInv, TableInv
  <2>3. 0 < Len(e820)
    BY <2>2, MapLength
  <2>4. QED
    BY <2>1, <2>2, <2>3, MapKept DEF MapIInv, TableInv, Booted
<1>3. CASE int15_other
  <2>1. /\ map_pc = "int15" /\ regs' = [regs EXCEPT !.cf = TRUE]
        /\ UNCHANGED <<have_mmconfig, file, e820, lowmem, map_pc, table, mem_upper, filled>>
    BY <1>3 DEF int15_other
  <2>2. regs' \in [ebx : Nat, cf : BOOLEAN] /\ regs'.ebx = regs.ebx
    BY <2>1 DEF MapIInv, TableInv
  <2>3. QED
    BY <2>1, <2>2, MapKept DEF MapIInv, TableInv, Booted
<1>4. CASE e820_query_map
  BY <1>4, QueryStep
<1>5. CASE pvh_e820_setup \/ boot_multiboot
  <2>1. /\ map_pc = "boot" /\ table' = e820
        /\ UNCHANGED <<have_mmconfig, file, e820, lowmem, regs, filled>>
        /\ \/ map_pc' = "pvh"
           \/ map_pc' = "multiboot" /\ mem_upper' = lowmem - MB
    BY <1>5 DEF pvh_e820_setup, boot_multiboot, MemUpper
  <2>2. QED
    BY <2>1, MapKept DEF MapIInv, TableInv, Booted
<1>6. CASE MapFinished \/ UNCHANGED mapVars
  <2>1. UNCHANGED <<have_mmconfig, file, e820, lowmem, map_pc, regs, table, mem_upper, filled>>
    BY <1>6 DEF MapFinished, mapVars
  <2>2. QED
    BY <2>1, MapKept DEF MapIInv, TableInv
<1>7. QED
  BY <1>1, <1>2, <1>3, <1>4, <1>5, <1>6 DEF MapNext

\* What holds in every reachable state: the map is its fixed head, the file with
\* the low RAM moved and perhaps junk, and a kernel has as much of it as it has
\* asked for.
THEOREM MapInvariant == MapSpec => []MapIInv
<1>1. MapInit => MapIInv
  BY DEF MapInit, MapIInv, MachineInv, TableInv, Booted
<1>2. MapIInv /\ [MapNext]_mapVars => MapIInv'
  BY MapStep
<1>3. QED
  BY <1>1, <1>2, PTL DEF MapSpec

-----------------------------------------------------------------------------
(* What follows from it.                                                   *)

\* For every map that QEMU's file makes, a kernel gets it whole and in order,
\* whatever its boot protocol.
THEOREM MapReachesKernel == MapSpec => []KernelGetsMap
<1>1. MapIInv => KernelGetsMap
  BY DEF MapIInv, TableInv, KernelGetsMap
<1>2. QED
  BY <1>1, MapInvariant, PTL

\* An entry written by qboot is one of the head or one of the file.
LEMMA Entries ==
  ASSUME MachineInv, MapMade, NEW i, IsLowRam(file, i), IsMap(e820, filled, Fixed, file, i),
         NEW n \in 1 .. filled
  PROVE  \/ n \in 1 .. Len(Fixed) /\ e820[n] = Fixed[n]
         \/ \E k \in DOMAIN file :
              n = Len(Fixed) + k /\ e820[n] = IF k = i THEN Moved(file[k]) ELSE file[k]
<1>1. Len(Fixed) \in Nat /\ file \in Seq(Entry)
  BY HeadEntries, FileFacts DEF MachineInv, MapMade
<1>2. filled = Len(Fixed) + Len(file)
  BY DEF IsMap
<1>3. CASE n <= Len(Fixed)
  BY <1>1, <1>2, <1>3 DEF IsMap
<1>4. CASE ~(n <= Len(Fixed))
  <2>1. n - Len(Fixed) \in DOMAIN file /\ n = Len(Fixed) + (n - Len(Fixed))
    BY <1>1, <1>2, <1>4
  <2>2. QED
    BY <1>1, <2>1 DEF IsMap
<1>5. QED
  BY <1>3, <1>4

\* With multiboot, mem_upper is the size of the RAM at 1M in the table beside
\* it, on a machine of any size.
THEOREM MapMatchesUpper == MapSpec => []UpperMatchesMap
<1>1. ASSUME MapIInv
      PROVE  UpperMatchesMap
  <2> SUFFICES ASSUME map_pc = "multiboot"
               PROVE  \E n \in 1 .. filled : /\ table[n].addr = MB /\ table[n].type = "RAM"
                                             /\ table[n].size = mem_upper
    BY DEF UpperMatchesMap
  <2>1. MachineInv /\ MapMade /\ table = e820 /\ mem_upper = lowmem - MB
    BY <1>1 DEF MapIInv, TableInv, Booted
  <2>2. PICK i \in DOMAIN file : /\ IsLowRam(file, i) /\ IsMap(e820, filled, Fixed, file, i)
                                 /\ lowmem = file[i].size
    BY <2>1 DEF MapMade
  <2>3. Len(Fixed) \in Nat /\ file \in Seq(Entry)
    BY <2>1, HeadEntries, FileFacts DEF MachineInv, MapMade
  <2>4. e820[Len(Fixed) + i] = Moved(file[i]) /\ Len(Fixed) + i \in 1 .. filled
    BY <2>2, <2>3 DEF IsMap
  <2>5. file[i] \in Entry /\ file[i].size >= MB /\ file[i].type = "RAM"
    BY <2>2, <2>3 DEF IsLowRam
  <2>6. QED
    BY <2>1, <2>2, <2>4, <2>5, MovedEntry
<1>2. QED
  BY <1>1, MapInvariant, PTL

-----------------------------------------------------------------------------
(* RAM is apart.                                                           *)

\* Only the first entry of the head is RAM; all but mmconfig end at 1M.
LEMMA FixedSpan ==
  ASSUME MachineInv, NEW n \in 1 .. Len(Fixed)
  PROVE  /\ Fixed[n].addr \in Nat /\ Fixed[n].size \in Nat
         /\ n = 1 => Fixed[n].addr + Fixed[n].size = 639
         /\ n # 1 => Fixed[n].addr >= 639 /\ Fixed[n].type # "RAM"
         /\ \/ Fixed[n].addr + Fixed[n].size <= MB
            \/ have_mmconfig /\ Fixed[n] = Mmconfig
<1>1. /\ Len(Fixed) \in {4, 5} /\ (Len(Fixed) = 5 <=> have_mmconfig)
      /\ Fixed[1] = E(0, 639, "RAM") /\ Fixed[2] = E(639, 1, "RESERVED")
      /\ Fixed[3] = E(832, 128, "NVS") /\ Fixed[4] = E(960, 64, "RESERVED")
      /\ have_mmconfig => Fixed[5] = Mmconfig
  BY HeadEntries DEF MachineInv
<1>2. n \in {1, 2, 3, 4, 5} /\ (n = 5 => have_mmconfig)
  <2> DEFINE last == Len(Fixed)
  <2>1. last \in {4, 5} /\ (last = 5 <=> have_mmconfig) /\ n \in 1 .. last
    BY <1>1
  <2> HIDE DEF last
  <2>2. CASE last = 4
    BY <2>1, <2>2
  <2>3. CASE last = 5
    BY <2>1, <2>3
  <2>4. QED
    BY <2>1, <2>2, <2>3
<1>3. CASE n = 1
  BY <1>1, <1>3 DEF E, MB
<1>4. CASE n = 2
  BY <1>1, <1>4 DEF E, MB
<1>5. CASE n = 3
  BY <1>1, <1>5 DEF E, MB
<1>6. CASE n = 4
  BY <1>1, <1>6 DEF E, MB
<1>7. CASE n = 5
  BY <1>1, <1>2, <1>7 DEF E, Mmconfig
<1>8. QED
  BY <1>2, <1>3, <1>4, <1>5, <1>6, <1>7

\* An entry of the file is in the map from 1M on, and ends where it did.
LEMMA FileSpan ==
  ASSUME MachineInv, file # None, NEW i, IsLowRam(file, i), NEW k \in DOMAIN file
  PROVE  LET e == IF k = i THEN Moved(file[k]) ELSE file[k] IN
         /\ e.addr \in Nat /\ e.size \in Nat /\ e.type = file[k].type
         /\ file[k].addr \in Nat /\ file[k].size \in Nat
         /\ e.addr >= MB /\ e.addr >= file[k].addr
         /\ e.addr + e.size = file[k].addr + file[k].size
<1>1. file[k] \in Entry
  BY FileFacts
<1>2. file[k].addr \in Nat /\ file[k].size \in Nat /\ MB \in Nat
  BY <1>1 DEF Entry, MB
<1>3. CASE k = i
  <2>1. file[k].size >= MB /\ file[k].addr = 0
    BY <1>3 DEF IsLowRam
  <2>2. /\ Moved(file[k]).addr = MB /\ Moved(file[k]).size = file[k].size - MB
        /\ Moved(file[k]).type = file[k].type
    BY <1>1, <2>1, MovedEntry
  <2>3. QED
    BY <1>2, <1>3, <2>1, <2>2
<1>4. CASE k # i
  BY <1>2, <1>4 DEF IsLowRam
<1>5. QED
  BY <1>3, <1>4

\* What is apart stays so when it shrinks from below.
LEMMA StillApart ==
  ASSUME NEW a, NEW b, NEW c, NEW d, Apart(a, b),
         a.addr \in Nat, a.size \in Nat, b.addr \in Nat, b.size \in Nat,
         c.addr \in Nat, c.size \in Nat, d.addr \in Nat, d.size \in Nat,
         c.addr >= a.addr, c.addr + c.size = a.addr + a.size,
         d.addr >= b.addr, d.addr + d.size = b.addr + b.size
  PROVE  Apart(c, d)
  BY DEF Apart

\* For every file that QEMU may offer, what the map calls RAM is apart from
\* every other entry of it: from the EBDA, the tables and the firmware below 1M,
\* from mmconfig where the machine has it, and from the file's own entries.
THEOREM MapKeepsRamApart == MapSpec => []RamApart
<1>1. ASSUME MapIInv
      PROVE  RamApart
  <2> SUFFICES ASSUME NEW m \in 1 .. filled, NEW n \in 1 .. filled,
                      m # n, e820[m].type = "RAM"
               PROVE  Apart(e820[m], e820[n])
    BY DEF RamApart
  <2>1. MachineInv /\ TableInv
    BY <1>1 DEF MapIInv
  <2>2. MapMade
    <3>1. filled # 0
      OBVIOUS
    <3>2. QED
      BY <2>1, <3>1 DEF TableInv
  <2>3. PICK i \in DOMAIN file : IsLowRam(file, i) /\ IsMap(e820, filled, Fixed, file, i)
    BY <2>2 DEF MapMade
  <2>4. file # None
    BY <2>2 DEF MapMade
  <2> DEFINE Mine(x) == x \in 1 .. Len(Fixed) /\ e820[x] = Fixed[x]
             In(k) == IF k = i THEN Moved(file[k]) ELSE file[k]
             Its(x, k) == k \in DOMAIN file /\ x = Len(Fixed) + k /\ e820[x] = In(k)
  <2>5. /\ Mine(m) \/ \E k \in DOMAIN file : Its(m, k)
        /\ Mine(n) \/ \E k \in DOMAIN file : Its(n, k)
    BY <2>1, <2>2, <2>3, Entries
  <2>6. \A k \in DOMAIN file :
          /\ In(k).addr \in Nat /\ In(k).size \in Nat /\ In(k).type = file[k].type
          /\ file[k].addr \in Nat /\ file[k].size \in Nat
          /\ In(k).addr >= MB /\ In(k).addr >= file[k].addr
          /\ In(k).addr + In(k).size = file[k].addr + file[k].size
    BY <2>1, <2>3, <2>4, FileSpan
  <2> HIDE DEF In
  <2>7. CASE Mine(m)
    <3>1. e820[m].addr + e820[m].size = 639
      BY <2>1, <2>7, FixedSpan
    <3>2. CASE Mine(n)
      <4>1. e820[n].addr >= 639
        BY <2>1, <2>7, <3>2, FixedSpan
      <4>2. QED
        BY <3>1, <4>1 DEF Apart
    <3>3. CASE \E k \in DOMAIN file : Its(n, k)
      <4>1. e820[n].addr \in Nat /\ e820[n].addr >= MB
        BY <2>6, <3>3
      <4>2. QED
        BY <3>1, <4>1 DEF Apart, MB
    <3>4. QED
      BY <2>5, <3>2, <3>3
  <2>8. CASE \E k \in DOMAIN file : Its(m, k)
    <3>1. PICK k \in DOMAIN file : Its(m, k)
      BY <2>8
    <3>2. /\ e820[m] = In(k) /\ file[k].type = "RAM"
          /\ In(k).addr \in Nat /\ In(k).size \in Nat /\ In(k).addr >= MB
      BY <2>6, <3>1
    <3>3. CASE Mine(n)
      <4>1. CASE e820[n].addr + e820[n].size <= MB
        <5>1. e820[n].addr \in Nat /\ e820[n].size \in Nat
          BY <2>1, <3>3, FixedSpan
        <5>2. QED
          BY <3>2, <4>1, <5>1 DEF Apart, MB
      <4>2. CASE have_mmconfig /\ e820[n] = Mmconfig
        <5>1. Apart(file[k], Mmconfig)
          BY <2>1, <2>4, <3>2, <4>2 DEF MachineInv, BesideMmconfig
        <5>2. Mmconfig.addr \in Nat /\ Mmconfig.size \in Nat
          BY DEF Mmconfig, E
        <5>3. Apart(In(k), Mmconfig)
          BY <2>6, <5>1, <5>2, StillApart
        <5>4. QED
          BY <3>2, <4>2, <5>3
      <4>3. QED
        BY <2>1, <3>3, <4>1, <4>2, FixedSpan
    <3>4. CASE \E l \in DOMAIN file : Its(n, l)
      <4>1. PICK l \in DOMAIN file : Its(n, l)
        BY <3>4
      <4>2. k # l
        BY <3>1, <4>1
      <4>3. Apart(file[k], file[l])
        BY <2>1, <2>4, <3>2, <4>2, FileFacts
      <4>4. Apart(In(k), In(l))
        BY <2>6, <4>3, StillApart
      <4>5. QED
        BY <3>1, <4>1, <4>4
    <3>5. QED
      BY <2>5, <3>3, <3>4
  <2>9. QED
    BY <2>5, <2>7, <2>8
<1>2. QED
  BY <1>1, MapInvariant, PTL

-----------------------------------------------------------------------------
(* The two together.                                                       *)

\* main, which makes the map and then has boot_from_fwcfg load the kernel, does
\* with each of the two what its module says, or leaves it alone: what is proved
\* of the kernel and of the map above holds of main.
THEOREM HandoverImplements == HandoverSpec => Spec /\ MapSpec
<1>1. HandoverInit => Init /\ MapInit
  BY DEF HandoverInit
<1>2. ASSUME [HandoverNext]_handoverVars
      PROVE  [Next]_vars /\ [MapNext]_mapVars
  <2>1. CASE MakeMap
    BY <2>1 DEF MakeMap, MapNext
  <2>2. CASE LoadKernel
    BY <2>2 DEF LoadKernel, Next
  <2>3. CASE StartPvh
    BY <2>3 DEF StartPvh, Next, MapNext
  <2>4. CASE StartMultiboot
    BY <2>4 DEF StartMultiboot, Next, MapNext
  <2>5. CASE AskForMap
    BY <2>5 DEF AskForMap, MapNext
  <2>6. CASE HandoverFinished \/ UNCHANGED handoverVars
    BY <2>6 DEF HandoverFinished, handoverVars
  <2>7. QED
    BY <1>2, <2>1, <2>2, <2>3, <2>4, <2>5, <2>6 DEF HandoverNext
<1>3. QED
  BY <1>1, <1>2, PTL DEF HandoverSpec, Spec, MapSpec
=============================================================================
