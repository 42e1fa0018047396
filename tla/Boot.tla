-------------------------------- MODULE Boot --------------------------------
(***************************************************************************)
(* Loading and starting a kernel (boot_from_fwcfg and the functions it     *)
(* calls in fw_cfg.c, linuxboot.c).  A bzImage comes from QEMU in two      *)
(* parts; qboot peeks at the first, patches its header in place, reads the *)
(* rest of it from where the peek ended, and reads the other parts to      *)
(* addresses it works out itself without any check.  An ELF kernel is in   *)
(* memory already and is told of its surroundings by a start_info; any     *)
(* other is taken for multiboot.                                           *)
(*                                                                         *)
(* Addresses and sizes are in bytes.  Memory is the list of loads made     *)
(* into it; the fw_cfg cursor is that of FwCfgAbs.                         *)
(***************************************************************************)
EXTENDS Integers, Sequences

CONSTANTS
  Kernels,     \* the kernels, with what QEMU says of them
  MALLOC_TOP,  \* malloc_top when boot_from_fwcfg is called
  E820_ENTRIES,  \* e820->nr_map
  Junk         \* what an uninitialised local may hold

PEEK == 8192          \* HEADER_PEEK_SIZE
NONE == 0             \* no address
INITRD_MAX == 939524095   \* 0x37ffffff
STEXT == 983040       \* 1024K - 64K (flat.lds)

\* What QEMU says of a kernel, and what it finds in its header.
Kernel ==
  [magic : {"HdrS", "ELF", "none"}, protocol : Nat, loaded_high : BOOLEAN,
   initrd_addr_max : Nat, setup_sects : Nat, setup_size : Nat, setup_addr : Nat,
   kernel_size : Nat, kernel_addr : Nat, cmdline_size : Nat, initrd_size : Nat,
   initrd_addr : Nat, lowmem : Nat]

\* What qboot takes for granted: the setup part has the size its header says and
\* QEMU means it for the address the protocol asks for; the kernel, the command
\* line (6K for the old layout, which leaves the setup its 32.5K) and the initial
\* ramdisk fit into memory.
IsBzImage(k) ==
  LET low == k.protocol < 512 \/ ~k.loaded_high
      old == k.protocol < 514
      top == IF k.protocol >= 515 /\ k.initrd_addr_max < k.lowmem
             THEN k.initrd_addr_max
             ELSE IF k.protocol < 515 /\ INITRD_MAX < k.lowmem THEN INITRD_MAX
             ELSE k.lowmem - 1
  IN  /\ k.setup_size = 512 * (1 + IF k.setup_sects = 0 THEN 4 ELSE k.setup_sects)
      /\ k.setup_sects \in 0 .. 64
      /\ k.setup_addr = IF low \/ old THEN 589824 ELSE 65536
      /\ k.cmdline_size \in 1 .. IF low \/ old THEN 6144 ELSE 393216
      /\ k.kernel_size <= IF low THEN 524288 ELSE top - k.initrd_size - 1052672
      /\ k.initrd_size <= top - 1052672

ASSUME KernelAssumption ==
  /\ {MALLOC_TOP, E820_ENTRIES} \subseteq Nat /\ Kernels \subseteq Kernel
  /\ \A k \in Kernels : k.magic = "HdrS" => IsBzImage(k)

\* malloc_top starts at stext and only falls.  QEMU has the ramdisk of an ELF kernel,
\* like the kernel itself, in extended memory.
ASSUME PlaceAssumption ==
  /\ MALLOC_TOP <= STEXT
  /\ \A k \in Kernels : k.magic = "ELF" /\ k.initrd_size > 0 => k.initrd_addr >= 1048576

VARIABLES
  kernel,      \* the kernel; never changes
  cursor,      \* fw_cfg's cursor: [key, off]
  args,        \* struct linuxboot_args
  header,      \* the fields of the setup header that parse_bzimage writes
  loads,       \* the reads so far: [key, off, addr, len]
  patched,     \* how many there were when the header was patched
  malloc_top,
  start_info,  \* start_info and the module list it points to
  pc

vars == <<kernel, cursor, args, header, loads, patched, malloc_top, start_info, pc>>

-----------------------------------------------------------------------------
(* fw_cfg reads.                                                           *)

ItemSize(k) ==
  CASE k = "SETUP_DATA"   -> kernel.setup_size
    [] k = "KERNEL_DATA"  -> kernel.kernel_size
    [] k = "CMDLINE_DATA" -> kernel.cmdline_size
    [] k = "INITRD_DATA"  -> kernel.initrd_size

Lesser(a, b) == IF a < b THEN a ELSE b

\* fw_cfg_read at cursor c.
ReadAt(c, addr, len) ==
  /\ loads' = Append(loads, [key |-> c.key, off |-> c.off, addr |-> addr, len |-> len])
  /\ cursor' = [c EXCEPT !.off = Lesser(@ + len, ItemSize(c.key))]

\* fw_cfg_select followed by fw_cfg_read, and fw_cfg_read_entry.
ReadEntry(k, addr, len) == ReadAt([key |-> k, off |-> 0], addr, len)

AlignDown(x, a) == (x \div a) * a

-----------------------------------------------------------------------------
(* parse_bzimage.                                                          *)

IsLow  == kernel.protocol < 512 \/ ~kernel.loaded_high    \* 0x200
IsOld  == kernel.protocol < 514                           \* 0x202

\* Addresses of the setup, the command line and the protected mode part:
\* 0x90000, below 0x9a000, 0x10000 or 0x100000; 0x10000, 0x20000, 0x100000.
RealAddr == IF IsLow \/ IsOld THEN 589824 ELSE 65536
CmdlineAddr == IF IsLow \/ IsOld THEN AlignDown(630784 - args.cmdline_size, 16)
               ELSE 131072
ProtAddr == IF IsLow THEN 65536 ELSE 1048576

InitrdMax ==
  Lesser(IF kernel.protocol >= 515 THEN kernel.initrd_addr_max ELSE INITRD_MAX,
         kernel.lowmem - 1)

\* Fault: rounded up to a page.
InitrdAddrUp == IF args.initrd_size = 0 THEN NONE
                ELSE AlignDown(InitrdMax - args.initrd_size + 4095, 4096)

InitrdAddr == IF args.initrd_size = 0 THEN NONE
              ELSE AlignDown(InitrdMax - args.initrd_size, 4096)

SetupSects == IF kernel.setup_sects = 0 THEN 4 ELSE kernel.setup_sects

\* Fault: the offset is worked out from the address before it is rounded.
CmdlineOffsetUnrounded == (630784 - args.cmdline_size - RealAddr) % 65536

\* The 16 bit command line offset of the older protocols.
CmdlineOffset == (CmdlineAddr - RealAddr) % 65536

\* What parse_bzimage stores in the header.
PatchedHeader ==
  [type_of_loader |-> kernel.protocol >= 512,
   can_use_heap  |-> kernel.protocol >= 513,
   cmd_line_ptr  |-> IF kernel.protocol >= 514 THEN CmdlineAddr ELSE NONE,
   cmd_line_off  |-> IF kernel.protocol < 514 THEN CmdlineOffset ELSE NONE,
   heap_end      |-> IF kernel.protocol >= 513
                     THEN (CmdlineAddr - RealAddr - 512) % 65536 ELSE NONE,
   ramdisk_image |-> InitrdAddr,
   ramdisk_size  |-> args.initrd_size]

parse_bzimage ==
  /\ pc = "parse" /\ kernel.magic = "HdrS"
  /\ header' = PatchedHeader
  /\ patched' = Len(loads)
  /\ args' = [args EXCEPT !.setup_size   = (SetupSects + 1) * 512,
                          !.kernel_size  = args.vmlinuz_size - SetupSects,
                          !.initrd_addr  = InitrdAddr,
                          !.kernel_addr  = ProtAddr,
                          !.cmdline_addr = CmdlineAddr]
  /\ pc' = "rest"
  /\ UNCHANGED <<kernel, cursor, loads, malloc_top, start_info>>

-----------------------------------------------------------------------------
(* boot_from_fwcfg.                                                        *)

\* The sizes are read, then the peek.  With no kernel at all main panics.
peek ==
  /\ pc = "start"
  /\ args' = [args EXCEPT !.cmdline_size = kernel.cmdline_size,
                          !.initrd_size  = kernel.initrd_size,
                          !.vmlinuz_size = kernel.kernel_size + kernel.setup_size,
                          !.setup_addr   = kernel.setup_addr]
  /\ IF args'.vmlinuz_size = 0
     THEN pc' = "panic" /\ UNCHANGED <<cursor, loads>>
     ELSE pc' = "parse" /\ ReadEntry("SETUP_DATA", kernel.setup_addr, PEEK)
  /\ UNCHANGED <<kernel, header, patched, malloc_top, start_info>>

\* Fault: the rest goes to the start of the setup.
RestAddrStart == args.setup_addr

HasRest == args.setup_size > PEEK
RestAddr == args.setup_addr + PEEK

\* The item is still selected.
ReadRest == ReadAt(cursor, RestAddr, args.setup_size - PEEK)

read_rest ==
  /\ pc = "rest"
  /\ IF HasRest THEN ReadRest ELSE UNCHANGED <<cursor, loads>>
  /\ pc' = "kernel"
  /\ UNCHANGED <<kernel, args, header, patched, malloc_top, start_info>>

read_kernel ==
  /\ pc = "kernel"
  /\ ReadEntry("KERNEL_DATA", args.kernel_addr, kernel.kernel_size)
  /\ pc' = "cmdline"
  /\ UNCHANGED <<kernel, args, header, patched, malloc_top, start_info>>

read_cmdline ==
  /\ pc = "cmdline"
  /\ ReadEntry("CMDLINE_DATA", args.cmdline_addr, args.cmdline_size)
  /\ pc' = "initrd"
  /\ UNCHANGED <<kernel, args, header, patched, malloc_top, start_info>>

\* The last read, then boot_bzimage jumps.
read_initrd ==
  /\ pc = "initrd"
  /\ IF args.initrd_size > 0
     THEN ReadEntry("INITRD_DATA", args.initrd_addr, args.initrd_size)
     ELSE UNCHANGED <<cursor, loads>>
  /\ pc' = "linux"
  /\ UNCHANGED <<kernel, args, header, patched, malloc_top, start_info>>

\* boot_bzimage: the stack pointer in the setup's segment.
StackPointer == (args.cmdline_addr - args.setup_addr - 16) % 65536

-----------------------------------------------------------------------------
(* boot_pvh_from_fw_cfg.                                                   *)

malloc(n) == AlignDown(malloc_top - n, 16)

pvh_cmdline ==
  /\ pc = "parse" /\ kernel.magic = "ELF"
  /\ malloc_top' = malloc(kernel.cmdline_size)
  /\ ReadEntry("CMDLINE_DATA", malloc_top', kernel.cmdline_size)
  /\ start_info' = [start_info EXCEPT !.nr_modules = 0, !.cmdline_paddr = malloc_top']
  /\ pc' = "pvh_initrd"
  /\ UNCHANGED <<kernel, args, header, patched>>

\* Only paddr and size of the module are written.
pvh_initrd ==
  /\ pc = "pvh_initrd"
  /\ IF kernel.initrd_size = 0
     THEN UNCHANGED <<cursor, loads, start_info>>
     ELSE /\ ReadEntry("INITRD_DATA", kernel.initrd_addr, kernel.initrd_size)
          /\ \E junk \in Junk :
               start_info' = [start_info EXCEPT
                 !.nr_modules = 1,
                 !.module = [paddr |-> kernel.initrd_addr, size |-> kernel.initrd_size,
                             cmdline_paddr |-> junk]]
  /\ pc' = "pvh_map"
  /\ UNCHANGED <<kernel, args, header, patched, malloc_top>>

\* Fault: the size of an e820 entry.
MemmapSizeShort == 20 * E820_ENTRIES

\* sizeof(struct hvm_memmap_table_entry) * nr_map.
MemmapSize == 24 * E820_ENTRIES

\* pvh_e820_setup, then the jump.
pvh_start ==
  /\ pc = "pvh_map"
  /\ malloc_top' = malloc(MemmapSize)
  /\ start_info' = [start_info EXCEPT !.memmap_paddr = malloc_top',
                                      !.memmap_entries = E820_ENTRIES]
  /\ pc' = IF kernel.kernel_size = 0 THEN "panic" ELSE "pvh"
  /\ UNCHANGED <<kernel, cursor, args, header, loads, patched>>

-----------------------------------------------------------------------------
(* boot_multiboot_from_fw_cfg.                                             *)

multiboot_kernel ==
  /\ pc = "parse" /\ kernel.magic \notin {"HdrS", "ELF"}
  /\ IF kernel.kernel_size = 0 THEN pc' = "panic" /\ UNCHANGED <<cursor, loads>>
     ELSE /\ ReadEntry("KERNEL_DATA", kernel.kernel_addr, kernel.kernel_size)
          /\ pc' = "mb_info"
  /\ UNCHANGED <<kernel, args, header, patched, malloc_top, start_info>>

\* E820 has the memory map that follows.
multiboot_info ==
  /\ pc = "mb_info"
  /\ IF kernel.initrd_size = 0 THEN pc' = "panic" /\ UNCHANGED <<cursor, loads>>
     ELSE /\ ReadEntry("INITRD_DATA", kernel.initrd_addr, kernel.initrd_size)
          /\ pc' = "multiboot"
  /\ UNCHANGED <<kernel, args, header, patched, malloc_top, start_info>>

-----------------------------------------------------------------------------

Init ==
  /\ kernel \in Kernels
  /\ cursor = [key |-> "none", off |-> 0]
  /\ args = [setup_addr |-> 0, cmdline_addr |-> 0, kernel_addr |-> 0,
             initrd_addr |-> 0, setup_size |-> 0, kernel_size |-> 0,
             cmdline_size |-> 0, vmlinuz_size |-> 0, initrd_size |-> 0]
  /\ header = <<>> /\ loads = <<>> /\ patched = 0
  /\ malloc_top = MALLOC_TOP
  /\ start_info = [nr_modules |-> 0, cmdline_paddr |-> 0, memmap_paddr |-> 0,
                   memmap_entries |-> 0, module |-> <<>>]
  /\ pc = "start"

Final == {"linux", "pvh", "multiboot", "panic"}
Finished == pc \in Final /\ UNCHANGED vars

Next ==
  \/ peek \/ parse_bzimage \/ read_rest \/ read_kernel \/ read_cmdline
  \/ read_initrd \/ pvh_cmdline \/ pvh_initrd \/ pvh_start
  \/ multiboot_kernel \/ multiboot_info \/ Finished

Spec == Init /\ [][Next]_vars

-----------------------------------------------------------------------------

Loads(k) == {loads[i] : i \in {i \in DOMAIN loads : loads[i].key = k}}

Overlaps(addr, len, from, to) == addr < to /\ from < addr + len

\* Memory qboot itself still needs: interrupt vectors and stack, the MP table in
\* the EBDA, and from 0xd0000 to 1M its tables, data and code.
Own == {<<0, 31744>>, <<654336, 655360>>, <<851968, 1048576>>}

\* The parts of a bzImage are loaded over neither each other nor qboot, and end
\* below the top of memory and below the limit the kernel sets for its ramdisk,
\* for every protocol version and with no check at run time.
RegionsApart ==
  pc = "linux" =>
    \A i \in DOMAIN loads :
      LET l == loads[i] IN
      /\ \A j \in DOMAIN loads :
           loads[j].key # l.key
             => ~Overlaps(l.addr, l.len, loads[j].addr, loads[j].addr + loads[j].len)
      /\ \A r \in Own : ~Overlaps(l.addr, l.len, r[1], r[2])
      /\ l.addr + l.len <= kernel.lowmem
      /\ l.key = "INITRD_DATA" => l.addr + l.len - 1 <= InitrdMax

\* The two reads of the setup part, one before its size is known, leave every
\* byte of it where it belongs: "SETUP_DATA already selected" (fw_cfg.c); and
\* nothing loaded later goes over the header that parse_bzimage patched in it,
\* at 0x20 to 0x22f.
SetupWhole ==
  pc = "linux" =>
    LET parts == Loads("SETUP_DATA") IN
    /\ \A l \in parts : l.addr - l.off = args.setup_addr
    /\ \A end \in {0} \cup {l.off + l.len : l \in parts} :
         \/ end >= kernel.setup_size
         \/ \E l \in parts : l.off <= end /\ end < l.off + l.len
    /\ \A i \in patched + 1 .. Len(loads) :
         ~Overlaps(loads[i].addr, loads[i].len, args.setup_addr + 32, args.setup_addr + 560)

\* What the header tells the kernel is where things were loaded: the command
\* line, by address or by offset into the setup's segment, and the ramdisk.  Its
\* heap and its stack lie between the setup and the command line.
HeaderTrue ==
  pc = "linux" =>
    /\ \A l \in Loads("CMDLINE_DATA") :
         l.addr = IF kernel.protocol >= 514 THEN header.cmd_line_ptr
                  ELSE args.setup_addr + header.cmd_line_off
    /\ {<<l.addr, l.len>> : l \in Loads("INITRD_DATA")} =
         IF kernel.initrd_size = 0 THEN {}
         ELSE {<<header.ramdisk_image, header.ramdisk_size>>}
    /\ kernel.setup_size < StackPointer
    /\ args.setup_addr + StackPointer < args.cmdline_addr
    /\ header.can_use_heap => /\ kernel.setup_size < header.heap_end
                              /\ header.heap_end < StackPointer

\* What start_info tells a PVH kernel: the command line and the ramdisk are
\* where they were loaded, in parts of memory of their own, and the memory map,
\* written last, covers neither of them nor what malloc handed out before.
StartInfoTrue ==
  pc = "pvh" =>
    LET map_end     == start_info.memmap_paddr + 24 * start_info.memmap_entries
        cmdline     == start_info.cmdline_paddr
        cmdline_end == cmdline + kernel.cmdline_size
    IN  /\ {l.addr : l \in Loads("CMDLINE_DATA")} = {cmdline}
        /\ map_end <= cmdline /\ cmdline_end <= MALLOC_TOP
        /\ {<<l.addr, l.len>> : l \in Loads("INITRD_DATA")} =
             IF start_info.nr_modules = 0 THEN {}
             ELSE {<<start_info.module.paddr, start_info.module.size>>}
        /\ start_info.nr_modules = 1 =>
             LET module == start_info.module
             IN  /\ ~Overlaps(module.paddr, module.size, start_info.memmap_paddr, map_end)
                 /\ ~Overlaps(module.paddr, module.size, cmdline, cmdline_end)

\* "a 0 value in any of the address fields should be treated as not present"
\* (include/start_info.h): a module qboot gives no command line says so.
ModuleHasNoCmdline ==
  pc = "pvh" /\ start_info.nr_modules = 1 => start_info.module.cmdline_paddr = NONE
=============================================================================
