----------------------------- MODULE MCFirmware -----------------------------
(***************************************************************************)
(* Firmware with two resets: one may cut off a boot, the other follow a    *)
(* kernel, in either order.  The byte of rom_check is 0, one less than the *)
(* largest, the largest, which wraps, or another.  A kernel leaves the F   *)
(* segment in one mode, D0000 (register 3) in any other, the rest all on   *)
(* or all off.                                                             *)
(***************************************************************************)
EXTENDS Firmware

MCBytes == {0, 7, 254, 255}
MCKernelPam ==
  {[r \in 0 .. 6 |-> CASE r = 0 -> f [] r = 3 -> d [] OTHER -> e] :
    f \in SUBSET RW, d \in SUBSET RW, e \in {{}, RW}}
=============================================================================
