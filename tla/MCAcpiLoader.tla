---------------------------- MODULE MCAcpiLoader ----------------------------
(***************************************************************************)
(* AcpiLoader with bytes of 3 bits and three files: the RSDP, a table with *)
(* a pointer and two checksums, and a table that is pointed to.  Addresses *)
(* take two bytes.  "x" is not in the directory.                           *)
(***************************************************************************)
EXTENDS AcpiLoader, TLC

MCBlob == ("rsdp" :> <<5, 0, 0>>) @@ ("tables" :> <<3, 7, 0, 7>>) @@ ("facs" :> <<6, 2>>)

Alloc == [cmd : {"ALLOC"}, file : {"tables", "facs"}, align : {1, 4}, zone : {"HIGH"}]
           \cup [cmd : {"ALLOC"}, file : {"rsdp", "facs"}, align : {1}, zone : {"FSEG"}]
           \cup [cmd : {"ALLOC"}, file : {"x"}, align : {1}, zone : {"HIGH"}]

Ptr == {[cmd |-> "PTR", dest |-> d[1], src |-> s, offset |-> d[2], size |-> 2] :
          s \in {"tables", "facs"}, d \in {<<"rsdp", 1>>, <<"tables", 1>>}}

\* The last but one reaches past its file, the last overlaps another range.
Checksum ==
  {[cmd |-> "CHECKSUM", file |-> t[1], offset |-> t[2], start |-> t[3], len |-> t[4]] :
     t \in {<<"tables", 0, 0, 3>>, <<"rsdp", 0, 0, 3>>, <<"facs", 1, 1, 2>>,
            <<"tables", 3, 0, 4>>}}

MCCommands == Alloc \cup Ptr \cup Checksum \cup [cmd : {"QUIT", "WRITE_POINTER"}]

MCSizes == {2, 3, 4}
MCAligns == {2, 4}
=============================================================================
