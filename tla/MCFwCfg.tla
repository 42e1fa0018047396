------------------------------ MODULE MCFwCfg ------------------------------
(***************************************************************************)
(* FwCfg with bytes of 2 bits, words of 2 bytes and names of 3 bytes, on   *)
(* machines with and without DMA and with directories of 0, 1 and 2 files. *)
(* Key 5 is an item outside the directory, shorter than a word.            *)
(***************************************************************************)
EXTENDS FwCfg

Entry(sel, n, name) == [size |-> n, select |-> sel, name |-> name]

\* A duplicate name, names that are prefixes of each other, and a name with no
\* room for its terminator.
MCDirs == {<<>>,
           <<Entry(6, 3, <<1, 2, 0>>)>>,
           <<Entry(6, 3, <<1, 2, 0>>), Entry(7, 1, <<1, 0, 0>>)>>,
           <<Entry(7, 1, <<1, 2, 3>>), Entry(6, 3, <<1, 0, 0>>)>>,
           <<Entry(6, 3, <<1, 0, 3>>), Entry(7, 1, <<1, 0, 0>>)>>}

MCMachines ==
  {[version |-> v, dir |-> d,
    content |-> (5 :> <<2>>) @@ (6 :> <<1, 3, 2>>) @@ (7 :> <<3>>)] :
     v \in {1, 3}, d \in MCDirs}

MCNames == {<<1>>, <<1, 2>>, <<1, 2, 3>>}
MCLengths == {1, 2}
=============================================================================
