------------------------------ MODULE Handover ------------------------------
(***************************************************************************)
(* What main does with the memory map and the kernel: extract_e820 makes   *)
(* the map, boot_from_fwcfg loads the kernel and hands it the map by the   *)
(* kernel's own protocol, and a Linux setup, once it runs, asks for it.    *)
(***************************************************************************)
EXTENDS E820, Boot

handoverVars == <<mapVars, vars>>

\* One machine: the memory below 4G that fw_cfg.c takes from extract_e820 for a
\* bzImage, and the number of entries pvh_e820_setup finds in the map.
SameMachine ==
  file # None =>
    /\ kernel.magic = "HdrS" =>
         \E i \in DOMAIN file : file[i].addr = 0 /\ file[i].size = kernel.lowmem \div 1024
    /\ kernel.magic = "ELF" => E820_ENTRIES = Len(FixedEntries) + 1 + Len(file)

\* main: the map comes first; no kernel is loaded without it.
MakeMap == extract_e820 /\ UNCHANGED vars

\* The parts of boot_from_fwcfg that leave the map alone.
LoadKernel ==
  /\ map_pc = "boot"
  /\ \/ peek \/ parse_bzimage \/ read_rest \/ read_kernel \/ read_cmdline \/ read_initrd
     \/ pvh_cmdline \/ pvh_initrd \/ multiboot_kernel
  /\ UNCHANGED mapVars

\* boot_pvh_from_fw_cfg calls pvh_e820_setup last, before it looks at the kernel's size.
StartPvh == pvh_start /\ pvh_e820_setup

\* boot_multiboot_from_fw_cfg passes the map on once it has the ramdisk, its module.
StartMultiboot ==
  /\ multiboot_info
  /\ IF pc' = "panic" THEN UNCHANGED mapVars ELSE boot_multiboot

\* A Linux setup runs and asks for the map.
AskForMap ==
  /\ pc = "linux"
  /\ StartInt15 \/ int15_other \/ e820_query_map
  /\ UNCHANGED vars

HandoverInit == MapInit /\ Init /\ SameMachine

\* The kernel has its map, or qboot has panicked.
HandoverFinished ==
  /\ map_pc \in Booted \cup {"panic"} \/ pc = "panic"
  /\ UNCHANGED handoverVars

HandoverNext ==
  \/ MakeMap \/ LoadKernel \/ StartPvh \/ StartMultiboot \/ AskForMap \/ HandoverFinished

HandoverSpec == HandoverInit /\ [][HandoverNext]_handoverVars
=============================================================================
