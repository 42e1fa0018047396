---------------------------- MODULE MCBiosCalls -----------------------------
(***************************************************************************)
(* BiosCalls with two calls in a row of every kind: known, unknown and     *)
(* nearly known function numbers, every register of two doublewords of two *)
(* functions, and a value whose four bytes differ.                         *)
(***************************************************************************)
EXTENDS BiosCalls

R(entry, eax, ebx, ecx, edi, eflags) ==
  [entry |-> entry, eax |-> eax, ebx |-> ebx, ecx |-> ecx, edi |-> edi, eflags |-> eflags]

MCRequests ==
  {R(e, 500, 501, 502, 503, f) : e \in Real, f \in {2, 3}}
    \cup {R("int10", eax, 501, 502, 503, 3) : eax \in {3649, 20225, 86401}}
    \cup {R("int15", eax, ebx, 502, 503, 3) : eax \in {59424, 124960}, ebx \in {0, 1, 2}}
    \cup {R("bios32", eax, ebx, 502, 503, f) :
            eax \in {PCI_SIGNATURE, PCI_SIGNATURE + 1}, ebx \in {0, 1}, f \in {2, 3}}
    \cup {R("pcibios", eax, 8, 502, 503, 3) :
            eax \in {PCI(1), PCI(2), PCI(3), PCI(14), 65536 + PCI(8)}}
    \cup {R("pcibios", PCI(f), ebx, 67305985, edi, 3) :
            f \in 8 .. 13, ebx \in {8, 65544}, edi \in 0 .. 7}

\* Functions 0 and 1 of device 1, each register with a value of its own.
MCConfig == [f \in {8, 9} |-> [a \in 0 .. 7 |-> 10 * f + a]]
=============================================================================
