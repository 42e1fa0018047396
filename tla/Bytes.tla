------------------------------- MODULE Bytes -------------------------------
(***************************************************************************)
(* Memory as a function from addresses to bytes, and the sums of bytes     *)
(* that tables are sealed with.                                            *)
(***************************************************************************)
EXTENDS Integers, Sequences

Byte == 0 .. 255

\* n zeros; v in n bytes, at most 4, the least significant first.
Zeros(n) == [k \in 1 .. n |-> 0]
Place == <<1, 256, 65536, 16777216>>
LE(v, n) == [k \in 1 .. n |-> (v \div Place[k]) % 256]

Load(m, a, n) == [k \in 1 .. n |-> m[a + k - 1]]
Half(m, a) == m[a] + 256 * m[a + 1]
Word(m, a) == Half(m, a) + 65536 * Half(m, a + 2)
Stored(m, a, b) == [x \in DOMAIN m |-> IF a <= x /\ x < a + Len(b) THEN b[x - a + 1] ELSE m[x]]

\* The sum of chars, of which only the low 8 bits are ever used; by halves, so
\* that the recursion stays shallow.
Middle(p) == (p[1] + p[2]) \div 2

csum8(b) ==
  LET sum[p \in (1 .. Len(b)) \X (1 .. Len(b))] ==
        IF p[1] >= p[2] THEN b[p[1]] % 256
        ELSE (sum[<<p[1], Middle(p)>>] + sum[<<Middle(p) + 1, p[2]>>]) % 256
  IN  IF Len(b) = 0 THEN 0 ELSE sum[<<1, Len(b)>>]

=============================================================================
