------------------------------ MODULE MCPciBus ------------------------------
(***************************************************************************)
(* PciBus with 2 devices of 2 functions on a bus, so 4 bus numbers, and as *)
(* many bridges as leave no number unused: every tree of 3 bridges with    *)
(* one more function anywhere.                                             *)
(***************************************************************************)
EXTENDS PciBus

\* The function that is not a bridge: kind, pin and preset interrupt line.
Leaf == {<<"ide", 1, 0>>, <<"piix_ide", 2, 0>>, <<"other", 0, 0>>, <<"other", 4, 9>>}

\* Trees, and the places that leave every device a function 0.
Shape == {p \in [Funcs -> Segments] : \A b \in Bridges : p[b] < b}
Place(p) ==
  {d \in [Funcs -> 0 .. NBus - 1] :
     \A f \in Funcs :
       /\ \A g \in f + 1 .. NBridge + NLeaf : p[g] = p[f] => d[g] # d[f]
       /\ Func(d[f]) = 0 \/ \E g \in Funcs : p[g] = p[f] /\ d[g] + 1 = d[f]}

Machine(c, p, d, l) ==
  [chipset |-> c, parent |-> p, devfn |-> d,
   pin  |-> [f \in Funcs |-> IF f \in Bridges THEN 1 ELSE l[2]],
   line |-> [f \in Funcs |-> IF f \in Bridges THEN 0 ELSE l[3]],
   kind |-> [f \in Funcs |-> IF f \in Bridges THEN "bridge" ELSE l[1]]]

MCEntry == <<64, 2, 15, 0>>

MCTopologies ==
  UNION {{Machine(c, p, d, l) : c \in {"i440fx", "q35"}, d \in Place(p), l \in Leaf} :
           p \in Shape}
    \cup {Machine("other", [f \in Funcs |-> 0], [f \in Funcs |-> f - 1],
                  <<"other", 0, 0>>)}
=============================================================================
