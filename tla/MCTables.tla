------------------------------ MODULE MCTables ------------------------------
(***************************************************************************)
(* MpTable with an EBDA of 304 bytes, into which the table of 4 CPUs fits  *)
(* with 4 bytes to spare, as that of 40 CPUs does into the real 1024, over *)
(* memory of zeros, ones and something else; the table of 5 does not fit.  *)
(*                                                                         *)
(* Smbios with all tables of up to two structures before the end marker:   *)
(* with and without strings, with zeros at the end of the formatted area,  *)
(* with a type 0 of QEMU's in any place, and with one that only looks so.  *)
(* An anchor or tables may be missing or have another size, or the tables  *)
(* be no structures.                                                       *)
(***************************************************************************)
EXTENDS Tables

MCCpuIds == {<<<<227, 6, 6, 0>>, <<255, 251, 139, 7>>>>, <<Zeros(4), <<255, 255, 255, 255>>>>}

\* No strings; strings; zeros that look like the end of a structure.
Plain == <<1, 4, 0, 1>> \o <<0, 0>>
Named == <<2, 5, 0, 2, 1>> \o Str(2) \o Str(1) \o <<0>>
Zeroes == <<3, 9, 0, 3, 0, 0, 0, 4, 0>> \o <<0, 0>>
QemuType0 == <<0, 6, 0, 0, 1, 0>> \o Str(1) \o <<0>>
End == <<127, 4, 0, 127>> \o <<0, 0>>

Structures == {Plain, Named, Zeroes, QemuType0}
MCStructs == {<<End>>} \cup {<<a, End>> : a \in Structures}
               \cup {<<a, b, End>> : a, b \in Structures}

\* "_SM_", "_DMI_"; the checksums and the address are left to the firmware.
Anchor(length, number, max) ==
  <<95, 83, 77, 95>> \o <<0, EP_SIZE, 2, 8>> \o LE(max, 2) \o <<0, 0, 0, 0, 0, 0>>
    \o <<95, 68, 77, 73, 95>> \o <<0>> \o TableFields(length, 0, number) \o <<40>>

Good(s, max) == [anchor |-> Anchor(Len(FlattenSeq(s)), Len(s), max),
                 tables |-> FlattenSeq(s), structs |-> s]

\* Tables of the right size that are no structures: lengths that lead past the
\* end, strings without one.
Broken == {[k \in 1 .. 12 |-> 1], [k \in 1 .. 12 |-> 255]}

MCMachines ==
  {Good(s, max) : s \in MCStructs, max \in {20, 60}}
    \cup {[Good(<<Plain, End>>, 20) EXCEPT !.anchor = a] : a \in {None, <<95, 83>>}}
    \cup {[Good(<<Plain, End>>, 20) EXCEPT !.tables = t] : t \in {None, <<127>>}}
    \cup {[Good(<<Plain, End>>, 20) EXCEPT !.tables = t] : t \in Broken}

MCSizes == 0 .. 100
=============================================================================
