------------------------------- MODULE MCBoot -------------------------------
(***************************************************************************)
(* Boot with kernels of every protocol class, with setup parts shorter     *)
(* than, as long as and longer than the peek, command lines and ramdisks   *)
(* from the smallest to the largest QEMU lets through, on 32M and 1G, and  *)
(* some on 128M.                                                           *)
(***************************************************************************)
EXTENDS Boot

Sectors == {0, 15, 16, 64}

\* protocol, loaded high, limit for the ramdisk
Protocol == {<<511, FALSE, 0>>, <<512, FALSE, 0>>, <<513, TRUE, 0>>, <<514, TRUE, 0>>,
             <<515, TRUE, 33554431>>, <<524, TRUE, 2147483647>>}

BzImage ==
  {k \in {[magic |-> "HdrS", protocol |-> p[1], loaded_high |-> p[2],
           initrd_addr_max |-> p[3], setup_sects |-> s,
           setup_size |-> 512 * (1 + IF s = 0 THEN 4 ELSE s),
           setup_addr |-> IF p[1] < 514 THEN 589824 ELSE 65536,
           kernel_size |-> n, cmdline_size |-> c, initrd_size |-> i, lowmem |-> m,
           kernel_addr |-> 0, initrd_addr |-> 0] :
            p \in Protocol, s \in Sectors, n \in {1, 524288, 8000000},
            c \in {1, 6144, 393216}, i \in {0, 1, 4097, 24501758},
            m \in {33554432, 134217728, 1073741824}} :
     IsBzImage(k) /\ (k.lowmem = 134217728 => k.cmdline_size = 1 /\ k.initrd_size = 0)}

\* Kernels QEMU has parsed: ELF, and what is left for multiboot.
Other ==
  {[magic |-> g, protocol |-> 0, loaded_high |-> FALSE, initrd_addr_max |-> 0,
    setup_sects |-> 0, setup_size |-> s, setup_addr |-> 65536, kernel_size |-> n,
    cmdline_size |-> c, initrd_size |-> i, lowmem |-> 33554432,
    kernel_addr |-> 1048576, initrd_addr |-> 16777216] :
     g \in {"ELF", "none"}, s \in {0, 8192}, n \in {0, 500000}, c \in {1, 999},
     i \in {0, 70000}}

MCKernels == BzImage \cup Other
=============================================================================
