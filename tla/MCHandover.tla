----------------------------- MODULE MCHandover -----------------------------
(***************************************************************************)
(* Handover with MCE820's files and MCBoot's kernels.  A bzImage meets the *)
(* files that have its memory, below 2G, as TLC's numbers end there in     *)
(* bytes; an ELF kernel those of two entries, any other all of them.       *)
(***************************************************************************)
EXTENDS Handover, MCE820, MCBoot
=============================================================================
