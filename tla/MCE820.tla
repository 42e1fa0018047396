------------------------------- MODULE MCE820 -------------------------------
(***************************************************************************)
(* E820 on machines with 1M, 128M, the most memory below 4G that a Q35 has *)
(* (up to mmconfig) and the most the older machine has, with and without   *)
(* memory above 4G and a reserved entry, in any order of the file's        *)
(* entries; and with the 32M and 1G of most of MCBoot's kernels.           *)
(***************************************************************************)
EXTENDS E820

Low == {E(0, k, "RAM") : k \in {1024, 131072, 2883584, 3670016}}
High == E(4194304, 1048576, "RAM")
Hole == E(4177920, 1024, "RESERVED")

MCFiles ==
  {None} \cup {<<l>> : l \in Low} \cup {<<l, High>> : l \in Low}
         \cup {<<High, l>> : l \in Low} \cup {<<l, Hole>> : l \in Low}
         \cup {<<Hole, l, High>> : l \in Low} \cup {<<High, Hole, l>> : l \in Low}
         \cup {<<E(0, k, "RAM"), High>> : k \in {32768, 1048576}}

\* Memory at reset is zero; a reboot may leave anything there.
MCJunk == {E(0, 0, "unset"), E(2048, 8, "RAM"), E(960, 64, "NVS")}
=============================================================================
