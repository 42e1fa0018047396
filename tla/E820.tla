-------------------------------- MODULE E820 --------------------------------
(***************************************************************************)
(* The memory map: extract_e820 (main.c) builds it from QEMU's file, and   *)
(* three boot protocols pass it on: int 15h/E820h (code16.c), called by a  *)
(* Linux setup once per entry, the PVH table and the multiboot table       *)
(* (fw_cfg.c).  Addresses and sizes are in KB.                             *)
(***************************************************************************)
EXTENDS Integers, Sequences

CONSTANTS
  Files,   \* contents etc/e820 may have; None: no such file
  None,
  MapJunk  \* what the memory behind the map may hold

Types == {"RAM", "RESERVED", "NVS", "unset"}
Entry == [addr : Nat, size : Nat, type : Types]

MB == 1024

Apart(e, f) == e.addr + e.size <= f.addr \/ f.addr + f.size <= e.addr

\* QEMU describes all its RAM below 4G by one entry at 0, of 1M or more; the
\* others are above 1M, and RAM is apart from every other entry.
IsFile(f) ==
  /\ f \in Seq(Entry)
  /\ \E i \in DOMAIN f :
       /\ f[i].addr = 0 /\ f[i].size >= MB /\ f[i].type = "RAM"
       /\ \A j \in DOMAIN f \ {i} : f[j].addr >= MB
  /\ \A i, j \in DOMAIN f : i # j /\ f[i].type = "RAM" => Apart(f[i], f[j])

ASSUME FileAssumption == MapJunk \subseteq Entry /\ \A f \in Files \ {None} : IsFile(f)

VARIABLES
  have_mmconfig,  \* main.c: the machine is a Q35
  file,           \* QEMU's etc/e820
  e820,           \* the map, nr_map entries long
  lowmem,         \* main.c
  map_pc,         \* "start", "boot", "panic", or the protocol the kernel uses
  regs,           \* the kernel's registers: [ebx, cf]
  table,          \* the map the kernel has got
  mem_upper,      \* mb_info.mem_upper
  filled          \* history: entries of the map that were written

mapVars == <<have_mmconfig, file, e820, lowmem, map_pc, regs, table, mem_upper, filled>>

E(addr, size, type) == [addr |-> addr, size |-> size, type |-> type]

\* Low RAM, EBDA, ACPI tables (malloc.c's blocks) and firmware.
FixedEntries ==
  <<E(0, 639, "RAM"), E(639, 1, "RESERVED"), E(832, 128, "NVS"),
    E(960, 64, "RESERVED")>>

\* PCIE_MMCONFIG_BASE and PCIE_MMCONFIG_SIZE.
Mmconfig == E(2883584, 262144, "RESERVED")

\* A Q35 has no RAM there; the older machine, without mmconfig, may.
BesideMmconfig(f) == \A i \in DOMAIN f : f[i].type = "RAM" => Apart(f[i], Mmconfig)

\* Fault: the size stays.
MovedWhole(e) == [e EXCEPT !.addr = MB]

\* The entry the loop of extract_e820 stops at: the first one at 0.
LowRam(map, from) ==
  {i \in from .. Len(map) : /\ map[i].addr = 0
                            /\ \A j \in from .. i - 1 : map[j].addr # 0}

\* What it makes of that entry: RAM from 1M on.
Moved(e) == [e EXCEPT !.addr = MB, !.size = @ - MB]

\* extract_e820.  The map has room for the fixed entries, the one for mmconfig
\* and the file's.  Without mmconfig the last one is not written, and nr_map of
\* the map has its old value all the same.
extract_e820 ==
  /\ map_pc = "start"
  /\ IF file = None
     THEN map_pc' = "panic" /\ UNCHANGED <<e820, lowmem, filled>>
     ELSE LET head   == FixedEntries \o IF have_mmconfig THEN <<Mmconfig>> ELSE <<>>
              loaded == head \o file
          IN  \E junk \in MapJunk :
                LET map == IF have_mmconfig THEN loaded ELSE Append(loaded, junk)
                    low == LowRam(map, Len(head) + 1)
                IN  /\ e820' = [i \in DOMAIN map |->
                                  IF i \in low THEN Moved(map[i]) ELSE map[i]]
                    /\ lowmem' = IF low = {} THEN lowmem
                                 ELSE map[CHOOSE i \in low : TRUE].size
                    /\ filled' = Len(loaded)
                    /\ map_pc' = "boot"
  /\ UNCHANGED <<have_mmconfig, file, regs, table, mem_upper>>

-----------------------------------------------------------------------------

\* A Linux setup starts asking: int 15h with EBX = 0 ...
StartInt15 ==
  /\ map_pc = "boot"
  /\ map_pc' = "int15"
  /\ UNCHANGED <<have_mmconfig, file, e820, lowmem, regs, table, mem_upper, filled>>

\* Fault: the end of the map is seen one call late.
NextEbxLate(ndx) == IF ndx > Len(e820) THEN 0 ELSE ndx

\* e820_query_map: the continuation value; 0 marks the end of the map.
NextEbx(ndx) == IF ndx >= Len(e820) THEN 0 ELSE ndx

\* e820_query_map by way of bios_int15 and int15_handler.  The kernel takes what
\* is in its buffer, which is what was there before when EBX is past the end.
e820_query_map ==
  /\ map_pc = "int15"
  /\ LET ndx == regs.ebx IN
     /\ table' = Append(table, IF ndx < Len(e820) THEN e820[ndx + 1]
                               ELSE table[Len(table)])
     /\ regs' = [ebx |-> NextEbx(ndx + 1), cf |-> FALSE]
  \* ... and goes on until EBX is 0 again.
  /\ map_pc' = IF regs'.ebx = 0 THEN "linux" ELSE map_pc
  /\ UNCHANGED <<have_mmconfig, file, e820, lowmem, mem_upper, filled>>

\* Before that it tries calls qboot does not have; int15_handler sets CF.
int15_other ==
  /\ map_pc = "int15" /\ table = <<>> /\ ~regs.cf
  /\ regs' = [regs EXCEPT !.cf = TRUE]
  /\ UNCHANGED <<have_mmconfig, file, e820, lowmem, map_pc, table, mem_upper, filled>>

\* pvh_e820_setup.
pvh_e820_setup ==
  /\ map_pc = "boot"
  /\ table' = e820
  /\ map_pc' = "pvh"
  /\ UNCHANGED <<have_mmconfig, file, e820, lowmem, regs, mem_upper, filled>>

\* Fault: lowmem is taken for memory above 1M.
MemUpperAll == lowmem

\* boot_multiboot_from_fw_cfg: KB of memory from 1M on.
MemUpper == lowmem - MB

\* The part of boot_multiboot_from_fw_cfg that passes on the map.
boot_multiboot ==
  /\ map_pc = "boot"
  /\ table' = e820
  /\ mem_upper' = MemUpper
  /\ map_pc' = "multiboot"
  /\ UNCHANGED <<have_mmconfig, file, e820, lowmem, regs, filled>>

MapInit ==
  /\ have_mmconfig \in BOOLEAN
  /\ file \in Files /\ (have_mmconfig /\ file # None => BesideMmconfig(file))
  /\ e820 = <<>> /\ lowmem = 0 /\ map_pc = "start" /\ regs = [ebx |-> 0, cf |-> FALSE]
  /\ table = <<>> /\ mem_upper = 0 /\ filled = 0

Booted == {"linux", "pvh", "multiboot"}

\* The kernel has its map, or qboot has panicked.
MapFinished == map_pc \in Booted \cup {"panic"} /\ UNCHANGED mapVars

MapNext ==
  \/ extract_e820 \/ StartInt15 \/ int15_other \/ e820_query_map
  \/ pvh_e820_setup \/ boot_multiboot \/ MapFinished

MapSpec == MapInit /\ [][MapNext]_mapVars

-----------------------------------------------------------------------------

\* A kernel that uses what the map calls RAM never touches qboot's code, the
\* tables malloc.c placed, the MP table in the EBDA, mmconfig or another entry
\* of the file, on machines of every size QEMU makes.
RamApart ==
  \A i, j \in 1 .. filled :
    i # j /\ e820[i].type = "RAM" => Apart(e820[i], e820[j])

\* The protocols agree: a kernel gets every entry of the map once and in order,
\* be it by a call per entry or in a table, and no other.
KernelGetsMap == map_pc \in Booted => table = e820

\* mb_info.mem_upper, computed from lowmem, is the size of the RAM entry that
\* starts at 1M in the table next to it.
UpperMatchesMap ==
  map_pc = "multiboot" =>
    \E i \in 1 .. filled :
      table[i].addr = MB /\ table[i].type = "RAM" /\ table[i].size = mem_upper

\* "Number of entries in the memmap table." (include/start_info.h): the entries
\* a PVH kernel is told of are entries qboot wrote.
EntriesWritten == map_pc = "pvh" => Len(table) = filled
=============================================================================
