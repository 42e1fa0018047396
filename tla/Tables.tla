------------------------------- MODULE Tables -------------------------------
(***************************************************************************)
(* The tables that main writes once the memory map is known: setup_mptable *)
(* and then extract_smbios.                                                *)
(***************************************************************************)
EXTENDS MpTable, Smbios

vars == <<mpVars, mallocVars, smbiosVars>>

setup_mptable == MpNext /\ UNCHANGED <<mallocVars, smbiosVars>>

extract_smbios == mp_pc = "done" /\ SmbiosNext /\ UNCHANGED mpVars

Finished == pc \in {"done", "return"} /\ UNCHANGED vars

Init == MpInit /\ SmbiosInit

Next == setup_mptable \/ extract_smbios \/ Finished

Spec == Init /\ [][Next]_vars

=============================================================================
