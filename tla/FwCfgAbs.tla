------------------------------ MODULE FwCfgAbs ------------------------------
(***************************************************************************)
(* What the rest of qboot relies on fw_cfg.c for: a cursor into one of     *)
(* QEMU's configuration items.  A call may move the cursor to the start of *)
(* an item and then takes the next bytes from it, in one step and whatever *)
(* the transport.  A call that fails stops somewhere on the way; fw_cfg.c  *)
(* does not tell its caller.                                               *)
(***************************************************************************)
EXTENDS Integers, Sequences

CONSTANT Same  \* in place of a key: go on with the item selected before

VARIABLES
  items,    \* the bytes of every item
  cursor,   \* [key, off]
  served,   \* the last call: [key, len]
  result,   \* the bytes it returned
  lost      \* a call has failed

\* An item that QEMU does not have is empty.
Item(c) == IF c.key \in DOMAIN items THEN items[c.key] ELSE <<>>

\* Bytes past the end of an item read as zero.
Bytes(c, n) ==
  [i \in 1 .. n |-> IF c.off + i <= Len(Item(c)) THEN Item(c)[c.off + i] ELSE 0]

\* The cursor does not move past the end.
After(c, n) ==
  [c EXCEPT !.off = IF c.off + n <= Len(Item(c)) THEN c.off + n ELSE Len(Item(c))]

From(k) == IF k = Same THEN cursor ELSE [key |-> k, off |-> 0]

\* What a call asks for: a key, or Same, and a number of bytes.
Requests == [key : Int, len : Nat]

Call(r) ==
  /\ result' = Bytes(From(r.key), r.len)
  /\ cursor' = After(From(r.key), r.len)
  /\ UNCHANGED lost

Fail(r) ==
  /\ \/ \E m \in 0 .. r.len : /\ result' = Bytes(From(r.key), m)
                              /\ cursor' = After(From(r.key), m)
     \/ result' = <<>> /\ UNCHANGED cursor
  /\ lost' = TRUE

AbsInit ==
  /\ cursor = [key |-> Same, off |-> 0]
  /\ served = [key |-> Same, len |-> 0]
  /\ result = <<>>
  /\ lost = FALSE

\* A call that returns.
AbsNext ==
  /\ served' \in Requests
  /\ Call(served') \/ Fail(served')
  /\ UNCHANGED items

AbsSpec == AbsInit /\ [][AbsNext]_<<items, cursor, served, result, lost>>
=============================================================================
