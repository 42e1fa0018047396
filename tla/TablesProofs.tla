---------------------------- MODULE TablesProofs ----------------------------
(***************************************************************************)
(* Proofs about Tables.  What setup_mptable writes is a table whose sums   *)
(* are zero and which a kernel walks entry by entry, inside the EBDA, for  *)
(* any number of CPUs that fits and whatever the memory held.  What        *)
(* extract_smbios writes stays in the blocks it asks for, and leads to     *)
(* QEMU's structures with a type 0 if they have none, for any structures.  *)
(*                                                                         *)
(* The order is: sums of bytes; the bytes of the MP table; its inductive   *)
(* invariant, in which the table is a list of entries of which a number    *)
(* are in place; its steps; the walk over it.  Then structures one behind  *)
(* the other; the fields of the anchor; the firmware's own walk; one lemma *)
(* per step of extract_smbios; its theorems.                               *)
(***************************************************************************)
EXTENDS Tables, MallocProofs, SequenceTheorems

-----------------------------------------------------------------------------
(* Sums of bytes.                                                          *)

\* What an array of n elements is, as a sequence.
LEMMA Sized ==
  ASSUME NEW S, NEW n \in Nat, NEW b \in [1 .. n -> S]
  PROVE  Len(b) = n /\ DOMAIN b = 1 .. n /\ b \in Seq(S)
OBVIOUS

\* Bytes are numbers.
LEMMA Numeric ==
  ASSUME NEW n \in Nat, NEW b \in [1 .. n -> Byte]
  PROVE  b \in [1 .. n -> Int] /\ \A k \in 1 .. n : b[k] \in 0 .. 255
<1>1. Byte \subseteq Int
  BY DEF Byte
<1>2. b \in [1 .. n -> Int]
  BY <1>1
<1>3. \A k \in 1 .. n : b[k] \in Byte
  OBVIOUS
<1>4. QED
  BY <1>2, <1>3 DEF Byte

\* f holds the sums of the first elements of b.
Prefix(f, b, n) ==
  /\ f \in [0 .. n -> Int] /\ f[0] = 0
  /\ \A k \in 1 .. n : f[k] = f[k - 1] + b[k]

\* There are such sums.
LEMMA PrefixExists ==
  ASSUME NEW n \in Nat, NEW b \in [1 .. n -> Int]
  PROVE  \E f : Prefix(f, b, n)
<1> DEFINE rec == [k \in 1 .. n |-> [v \in Int |-> v + b[k]]]
<1>1. rec \in [1 .. n -> [Int -> Int]]
  OBVIOUS
<1>2. 0 \in Int
  OBVIOUS
<1>3. \E f \in [0 .. n -> Int] : Recurs(f, 0, rec, n)
  <2> HIDE DEF rec
  <2>1. QED
    BY <1>1, <1>2, Recursion
<1>4. PICK f \in [0 .. n -> Int] : Recurs(f, 0, rec, n)
  BY <1>3
<1>5. f[0] = 0
  <2>1. 0 \in 0 .. n
    OBVIOUS
  <2>2. QED
    BY <1>4, <2>1 DEF Recurs
<1>6. ASSUME NEW k \in 1 .. n
      PROVE  f[k] = f[k - 1] + b[k]
  <2>1. k \in 0 .. n /\ k # 0 /\ k - 1 \in 0 .. n
    OBVIOUS
  <2>2. f[k] = rec[k][f[k - 1]]
    BY <1>4, <2>1 DEF Recurs
  <2>3. f[k - 1] \in Int
    BY <2>1
  <2>4. QED
    BY <2>2, <2>3
<1>7. QED
  BY <1>5, <1>6 DEF Prefix

\* The sum of two remainders.
LEMMA SumOfRemainders ==
  ASSUME NEW m \in Nat \ {0}, NEW x \in Int, NEW y \in Int
  PROVE  ((x % m) + (y % m)) % m = (x + y) % m
<1>1. (x % m) \in Int /\ (y % m) \in Int
  BY Division
<1>2. ((x % m) + (y % m)) % m = (x + (y % m)) % m
  BY <1>1, SumOfRemainder
<1>3. x + (y % m) = (y % m) + x /\ x + y = y + x
  BY <1>1
<1>4. ((y % m) + x) % m = (y + x) % m
  BY SumOfRemainder
<1>5. QED
  BY <1>2, <1>3, <1>4

\* csum8 is the sum in 8 bits.
LEMMA SumIsPrefix ==
  ASSUME NEW n \in Nat, NEW b \in [1 .. n -> Byte], NEW f, Prefix(f, b, n)
  PROVE  csum8(b) = f[n] % 256
<1> DEFINE D == (1 .. n) \X (1 .. n)
           F(s) == [p \in D |->
                      IF p[1] >= p[2] THEN b[p[1]] % 256
                      ELSE (s[<<p[1], Middle(p)>>] + s[<<Middle(p) + 1, p[2]>>]) % 256]
           sum == CHOOSE s : s = F(s)
           g == [p \in D |-> IF p[1] >= p[2] THEN b[p[1]] % 256
                             ELSE (f[p[2]] - f[p[1] - 1]) % 256]
<1>1. Len(b) = n
  BY Sized
<1>2. csum8(b) = IF n = 0 THEN 0 ELSE sum[<<1, n>>]
  <2> DEFINE H(l) ==
        IF l = 0 THEN 0
        ELSE (CHOOSE s : s = [p \in (1 .. l) \X (1 .. l) |->
                IF p[1] >= p[2] THEN b[p[1]] % 256
                ELSE (s[<<p[1], Middle(p)>>] + s[<<Middle(p) + 1, p[2]>>]) % 256])[<<1, l>>]
  <2>1. csum8(b) = H(Len(b))
    BY Zenon DEF csum8
  <2>2. H(n) = IF n = 0 THEN 0 ELSE sum[<<1, n>>]
    BY Zenon
  <2> HIDE DEF H
  <2>3. H(Len(b)) = H(n)
    BY <1>1
  <2>4. QED
    BY <2>1, <2>2, <2>3, Zenon
<1>3. ASSUME NEW p \in D, p[1] < p[2]
      PROVE  /\ Middle(p) \in p[1] .. p[2] - 1
             /\ <<p[1], Middle(p)>> \in D /\ <<Middle(p) + 1, p[2]>> \in D
  <2>1. p[1] \in 1 .. n /\ p[2] \in 1 .. n
    OBVIOUS
  <2>2. Middle(p) \in p[1] .. p[2] - 1
    BY <1>3, <2>1 DEF Middle
  <2>3. QED
    BY <1>3, <2>1, <2>2
<1>4. ASSUME NEW a \in 1 .. n, NEW c \in 1 .. n, a <= c
      PROVE  g[<<a, c>>] = (f[c] - f[a - 1]) % 256
  <2>1. CASE a < c
    BY <2>1
  <2>2. CASE a = c
    <3>1. f[c] = f[a - 1] + b[a] /\ f[a - 1] \in Int /\ b[a] \in Int
      <4>1. b[a] \in Int /\ a - 1 \in 0 .. n
        BY Numeric
      <4>2. QED
        BY <2>2, <4>1 DEF Prefix
    <3>2. f[c] - f[a - 1] = b[a]
      BY <3>1
    <3>3. QED
      BY <2>2, <3>2
  <2>3. QED
    BY <1>4, <2>1, <2>2
<1>5. ASSUME NEW p \in D, p[1] < p[2]
      PROVE  g[p] = (g[<<p[1], Middle(p)>>] + g[<<Middle(p) + 1, p[2]>>]) % 256
  <2> DEFINE m == Middle(p)
  <2>1. p[1] \in 1 .. n /\ p[2] \in 1 .. n /\ p = <<p[1], p[2]>>
    OBVIOUS
  <2>2. m \in p[1] .. p[2] - 1
    BY <1>3, <1>5
  <2> HIDE DEF m, g
  <2>3. /\ g[<<p[1], m>>] = (f[m] - f[p[1] - 1]) % 256
        /\ g[<<m + 1, p[2]>>] = (f[p[2]] - f[m]) % 256
        /\ g[p] = (f[p[2]] - f[p[1] - 1]) % 256
    <3>1. m \in 1 .. n /\ m + 1 \in 1 .. n /\ (m + 1) - 1 = m /\ p[1] <= m /\ m + 1 <= p[2]
      BY <2>1, <2>2
    <3>2. QED
      BY <1>4, <1>5, <2>1, <3>1
  <2>4. f[m] \in Int /\ f[p[1] - 1] \in Int /\ f[p[2]] \in Int
    <3>1. {m, p[1] - 1, p[2]} \subseteq 0 .. n
      BY <2>1, <2>2
    <3>2. QED
      BY <3>1 DEF Prefix
  <2> DEFINE x == f[m] - f[p[1] - 1]
             y == f[p[2]] - f[m]
  <2>5. x \in Int /\ y \in Int /\ x + y = f[p[2]] - f[p[1] - 1]
    <3>1. \A u, v, w \in Int : v - u \in Int /\ w - v \in Int /\ (v - u) + (w - v) = w - u
      OBVIOUS
    <3> HIDE DEF D
    <3>2. QED
      BY <2>4, <3>1
  <2> HIDE DEF x, y
  <2>6. ((x % 256) + (y % 256)) % 256 = (x + y) % 256
    BY <2>5, SumOfRemainders
  <2>7. QED
    BY <2>3, <2>5, <2>6 DEF m, x, y
<1> HIDE DEF g
<1>6. g = F(g)
  <2>1. ASSUME NEW p \in D
        PROVE  g[p] = IF p[1] >= p[2] THEN b[p[1]] % 256
                      ELSE (g[<<p[1], Middle(p)>>] + g[<<Middle(p) + 1, p[2]>>]) % 256
    <3>1. p[1] \in 1 .. n /\ p[2] \in 1 .. n
      OBVIOUS
    <3>2. CASE p[1] >= p[2]
      BY <3>1, <3>2 DEF g
    <3>3. CASE p[1] < p[2]
      BY <1>5, <3>1, <3>3
    <3>4. QED
      BY <3>1, <3>2, <3>3
  <2>2. g = [p \in D |-> g[p]]
    BY DEF g
  <2> HIDE DEF D
  <2>3. QED
    BY <2>1, <2>2
<1>7. ASSUME NEW s, s = F(s)
      PROVE  \A p \in D : s[p] = g[p]
  <2> DEFINE S == {d \in 0 .. n : \A p \in D : p[2] - p[1] <= d => s[p] = g[p]}
  <2>1. ASSUME NEW p \in D
        PROVE  s[p] = IF p[1] >= p[2] THEN b[p[1]] % 256
                      ELSE (s[<<p[1], Middle(p)>>] + s[<<Middle(p) + 1, p[2]>>]) % 256
    <3> HIDE DEF D
    <3>1. s[p] = F(s)[p]
      BY <1>7
    <3>2. QED
      BY <3>1
  <2>2. 0 \in S
    <3>1. ASSUME NEW p \in D, p[2] - p[1] <= 0
          PROVE  s[p] = g[p]
      <4>1. p[1] \in 1 .. n /\ p[2] \in 1 .. n /\ p[1] >= p[2]
        BY <3>1
      <4>2. QED
        BY <2>1, <4>1 DEF g
    <3>2. QED
      BY <3>1
  <2>3. ASSUME NEW d \in 1 .. n, d - 1 \in S
        PROVE  d \in S
    <3>1. ASSUME NEW p \in D, p[2] - p[1] <= d
          PROVE  s[p] = g[p]
      <4>1. p[1] \in 1 .. n /\ p[2] \in 1 .. n
        OBVIOUS
      <4>2. CASE p[1] >= p[2]
        BY <2>1, <4>1, <4>2 DEF g
      <4>3. CASE p[1] < p[2]
        <5> DEFINE m == Middle(p)
        <5>1. m \in p[1] .. p[2] - 1 /\ <<p[1], m>> \in D /\ <<m + 1, p[2]>> \in D
          BY <1>3, <4>3
        <5>2. s[p] = (s[<<p[1], m>>] + s[<<m + 1, p[2]>>]) % 256
          BY <2>1, <4>1, <4>3
        <5>3. g[p] = (g[<<p[1], m>>] + g[<<m + 1, p[2]>>]) % 256
          BY <1>5, <4>3
        <5> HIDE DEF m
        <5>4. s[<<p[1], m>>] = g[<<p[1], m>>]
          <6>1. m - p[1] <= d - 1
            BY <3>1, <4>1, <5>1
          <6>2. QED
            BY <2>3, <5>1, <6>1
        <5>5. s[<<m + 1, p[2]>>] = g[<<m + 1, p[2]>>]
          <6>1. p[2] - (m + 1) <= d - 1
            BY <3>1, <4>1, <5>1
          <6>2. QED
            BY <2>3, <5>1, <6>1
        <5>6. QED
          BY <5>2, <5>3, <5>4, <5>5
      <4>4. QED
        BY <4>1, <4>2, <4>3
    <3>2. QED
      BY <3>1
  <2>4. 0 .. n \subseteq S
    <3> HIDE DEF S
    <3>1. QED
      BY <2>2, <2>3, Counting
  <2>5. ASSUME NEW p \in D
        PROVE  s[p] = g[p]
    <3>1. n \in S /\ p[2] - p[1] <= n
      BY <2>4
    <3>2. QED
      BY <3>1
  <2>6. QED
    BY <2>5, Zenon
<1>8. sum = F(sum)
  <2> HIDE DEF F
  <2>1. QED
    BY <1>6
<1>9. CASE n = 0
  BY <1>2, <1>9 DEF Prefix
<1>10. CASE n # 0
  <2>1. <<1, n>> \in D
    BY <1>10
  <2>2. sum[<<1, n>>] = g[<<1, n>>]
    <3> HIDE DEF F, sum, D
    <3>1. QED
      BY <1>7, <1>8, <2>1
  <2>3. g[<<1, n>>] = (f[n] - f[0]) % 256
    <3>1. 1 \in 1 .. n /\ n \in 1 .. n /\ 1 <= n /\ 1 - 1 = 0
      BY <1>10
    <3>2. QED
      BY <1>4, <3>1
  <2>4. f[n] - f[0] = f[n]
    BY DEF Prefix
  <2>5. QED
    BY <1>2, <1>10, <2>2, <2>3, <2>4
<1>11. QED
  BY <1>9, <1>10

\* a is an array of n bytes, and one array after another: the proofs keep both
\* definitions closed and go by the lemmas below.
IsBytes(a, n) == n \in Nat /\ a \in [1 .. n -> Byte]
Cat(a, b) == a \o b

\* Two arrays, one after the other,
LEMMA JoinedSize ==
  ASSUME NEW l, NEW m, NEW n, l = m + n, NEW a, NEW b, IsBytes(a, m), IsBytes(b, n)
  PROVE  IsBytes(Cat(a, b), l)
<1>1. m \in Nat /\ n \in Nat /\ l \in Nat
  BY DEF IsBytes
<1>2. /\ a \in Seq(Byte) /\ Len(a) = m
      /\ b \in Seq(Byte) /\ Len(b) = n
  BY Sized DEF IsBytes
<1>3. a \o b \in Seq(Byte) /\ Len(a \o b) = l
  BY <1>2, ConcatProperties
<1>4. a \o b \in [1 .. l -> Byte]
  BY <1>3, LenProperties
<1>5. QED
  BY <1>1, <1>4 DEF IsBytes, Cat

\* and their elements.
LEMMA Joined ==
  ASSUME NEW m, NEW n, NEW a, NEW b, IsBytes(a, m), IsBytes(b, n)
  PROVE  /\ \A k \in 1 .. m : Cat(a, b)[k] = a[k]
         /\ \A k \in 1 .. n : Cat(a, b)[m + k] = b[k]
<1>1. m \in Nat /\ n \in Nat
  BY DEF IsBytes
<1>2. /\ a \in Seq(Byte) /\ Len(a) = m
      /\ b \in Seq(Byte) /\ Len(b) = n
  BY Sized DEF IsBytes
<1>3. \A k \in 1 .. m + n : (a \o b)[k] = IF k <= m THEN a[k] ELSE b[k - m]
  BY <1>2, ConcatProperties
<1>4. ASSUME NEW k \in 1 .. m
      PROVE  (a \o b)[k] = a[k]
  <2>1. k \in 1 .. m + n /\ k <= m
    BY <1>1
  <2>2. QED
    BY <1>3, <2>1
<1>5. ASSUME NEW k \in 1 .. n
      PROVE  (a \o b)[m + k] = b[k]
  <2>1. m + k \in 1 .. m + n /\ ~(m + k <= m) /\ (m + k) - m = k
    BY <1>1
  <2>2. QED
    BY <1>3, <2>1
<1>6. QED
  BY <1>4, <1>5 DEF Cat

\* The low byte of a number.
LEMMA LowByte == \A v \in Int : v % 256 \in Byte
BY DEF Byte

\* A sum is a byte.
LEMMA SumType ==
  ASSUME NEW n, NEW b, IsBytes(b, n)
  PROVE  csum8(b) \in Byte
<1>0. n \in Nat /\ b \in [1 .. n -> Byte]
  BY DEF IsBytes
<1> USE <1>0
<1>1. b \in [1 .. n -> Int]
  BY Numeric
<1>2. PICK f : Prefix(f, b, n)
  BY <1>1, PrefixExists
<1>3. csum8(b) = f[n] % 256 /\ f[n] \in Int
  <2>1. csum8(b) = f[n] % 256
    BY <1>2, SumIsPrefix
  <2>2. QED
    BY <1>2, <2>1 DEF Prefix
<1>4. QED
  BY <1>3, LowByte

\* It is the sum of the sums.
LEMMA SumAppend ==
  ASSUME NEW m, NEW n, NEW a, NEW b, IsBytes(a, m), IsBytes(b, n)
  PROVE  csum8(Cat(a, b)) = (csum8(a) + csum8(b)) % 256
<1> DEFINE c == Cat(a, b)
<1>0. m \in Nat /\ n \in Nat
  BY DEF IsBytes
<1> USE <1>0
<1>1. /\ m \in Nat /\ n \in Nat /\ m + n \in Nat
      /\ a \in [1 .. m -> Byte] /\ b \in [1 .. n -> Byte] /\ c \in [1 .. m + n -> Byte]
      /\ \A k \in 1 .. m : c[k] = a[k]
      /\ \A k \in 1 .. n : c[m + k] = b[k]
  <2>1. m \in Nat /\ n \in Nat /\ m + n \in Nat
    OBVIOUS
  <2>2. IsBytes(c, m + n)
    <3>1. PICK l \in Nat : l = m + n
      BY <2>1
    <3>2. IsBytes(Cat(a, b), l)
      BY <3>1, JoinedSize
    <3>3. QED
      BY <3>1, <3>2
  <2>3. /\ \A k \in 1 .. m : c[k] = a[k]
        /\ \A k \in 1 .. n : c[m + k] = b[k]
    BY Joined
  <2> HIDE DEF c
  <2>4. QED
    BY <2>1, <2>2, <2>3 DEF IsBytes
<1> HIDE DEF c
<1>2. /\ a \in [1 .. m -> Int] /\ b \in [1 .. n -> Int]
      /\ c \in [1 .. m + n -> Int]
  BY <1>1, Numeric
<1>3. PICK f : Prefix(f, c, m + n)
  BY <1>1, <1>2, PrefixExists
<1>4. PICK g : Prefix(g, b, n)
  BY <1>1, <1>2, PrefixExists
<1> DEFINE h == [k \in 0 .. m |-> f[k]]
           l == [k \in 0 .. n |-> f[m + k] - f[m]]
<1>5. Prefix(h, a, m)
  BY <1>1, <1>3 DEF Prefix
<1>6. Prefix(l, b, n)
  <2>1. l \in [0 .. n -> Int] /\ l[0] = 0
    BY <1>3 DEF Prefix
  <2>2. ASSUME NEW k \in 1 .. n
        PROVE  l[k] = l[k - 1] + b[k]
    <3>1. /\ m + k \in 1 .. m + n /\ (m + k) - 1 = m + (k - 1)
          /\ k \in 0 .. n /\ k - 1 \in 0 .. n /\ m + (k - 1) \in 0 .. m + n
      OBVIOUS
    <3>2. f[m + k] = f[m + (k - 1)] + b[k]
      BY <1>1, <1>3, <3>1 DEF Prefix
    <3>3. f[m + (k - 1)] \in Int /\ f[m] \in Int /\ b[k] \in Int
      BY <1>2, <1>3, <3>1, SMTT(30) DEF Prefix
    <3>4. QED
      BY <3>1, <3>2, <3>3
  <2>3. QED
    BY <2>1, <2>2 DEF Prefix
<1>7. csum8(a) = f[m] % 256 /\ csum8(b) = (f[m + n] - f[m]) % 256
  <2>1. csum8(a) = h[m] % 256
    <3> HIDE DEF h
    <3>1. QED
      BY <1>1, <1>5, SumIsPrefix
  <2>2. csum8(b) = l[n] % 256
    <3> HIDE DEF l
    <3>1. QED
      BY <1>1, <1>6, SumIsPrefix
  <2>3. QED
    BY <2>1, <2>2
<1>8. csum8(c) = f[m + n] % 256
  BY <1>1, <1>2, <1>3, SumIsPrefix
<1>9. f[m] \in Int /\ f[m + n] \in Int
  BY <1>3 DEF Prefix
<1> DEFINE x == f[m]
           y == f[m + n] - f[m]
<1>10. x \in Int /\ y \in Int /\ x + y = f[m + n]
  BY <1>9
<1> HIDE DEF x, y
<1>11. ((x % 256) + (y % 256)) % 256 = (x + y) % 256
  BY <1>10, SumOfRemainders
<1>12. QED
  BY <1>7, <1>8, <1>10, <1>11 DEF c, x, y

\* The sum when one byte is added to: what is added to the byte is added to it.
LEMMA SumChange ==
  ASSUME NEW n, NEW a, NEW b, IsBytes(a, n), IsBytes(b, n),
         NEW p \in 1 .. n, \A k \in (1 .. n) \ {p} : b[k] = a[k]
  PROVE  csum8(b) = (csum8(a) + (b[p] - a[p])) % 256
<1>0. n \in Nat /\ a \in [1 .. n -> Byte] /\ b \in [1 .. n -> Byte]
  BY DEF IsBytes
<1> USE <1>0
<1>1. a \in [1 .. n -> Int] /\ b \in [1 .. n -> Int]
  BY Numeric
<1>2. PICK f : Prefix(f, a, n)
  BY <1>1, PrefixExists
<1> DEFINE x == b[p] - a[p]
           g == [k \in 0 .. n |-> IF k < p THEN f[k] ELSE f[k] + x]
<1>3. x \in Int /\ a[p] + x = b[p]
  BY <1>1
<1>4. Prefix(g, b, n)
  <2> HIDE DEF x
  <2>1. g \in [0 .. n -> Int] /\ g[0] = 0
    BY <1>2, <1>3 DEF Prefix
  <2>2. ASSUME NEW k \in 1 .. n
        PROVE  g[k] = g[k - 1] + b[k]
    <3>1. f[k] = f[k - 1] + a[k] /\ f[k - 1] \in Int /\ a[k] \in Int
      BY <1>1, <1>2 DEF Prefix
    <3>2. CASE k = p
      BY <1>3, <3>1, <3>2
    <3>3. CASE k # p
      <4>1. b[k] = a[k]
        BY <3>3
      <4>2. QED
        BY <1>3, <3>1, <3>3, <4>1
    <3>4. QED
      BY <3>2, <3>3
  <2>3. QED
    BY <2>1, <2>2 DEF Prefix
<1>5. csum8(a) = f[n] % 256
  BY <1>2, SumIsPrefix
<1>6. csum8(b) = (f[n] + x) % 256
  <2>1. g[n] = f[n] + x
    BY DEF g
  <2> HIDE DEF g
  <2>2. csum8(b) = g[n] % 256
    BY <1>4, SumIsPrefix
  <2>3. QED
    BY <2>1, <2>2
<1>7. ((f[n] % 256) + x) % 256 = (f[n] + x) % 256
  <2>1. f[n] \in Int
    BY <1>2 DEF Prefix
  <2> HIDE DEF x
  <2>2. QED
    BY <1>3, <2>1, SumOfRemainder
<1>8. QED
  BY <1>5, <1>6, <1>7

-----------------------------------------------------------------------------
(* The bytes of the structures.                                            *)

\* Small arrays of bytes.
LEMMA Tuples ==
  ASSUME NEW a \in Byte, NEW b \in Byte, NEW c \in Byte, NEW d \in Byte
  PROVE  IsBytes(<<a, b>>, 2) /\ IsBytes(<<a, b, c>>, 3) /\ IsBytes(<<a, b, c, d>>, 4)
BY DEF IsBytes

\* Larger ones.
LEMMA LongTuples ==
  ASSUME NEW a \in Byte, NEW b \in Byte, NEW c \in Byte, NEW d \in Byte,
         NEW e \in Byte, NEW f \in Byte, NEW g \in Byte, NEW h \in Byte
  PROVE  IsBytes(<<a, b, c, d, e, f>>, 6) /\ IsBytes(<<a, b, c, d, e, f, g, h>>, 8)
BY DEF IsBytes

\* Zeros.
LEMMA ZerosBytes ==
  ASSUME NEW n \in Nat
  PROVE  IsBytes(Zeros(n), n) /\ \A k \in 1 .. n : Zeros(n)[k] = 0
BY DEF IsBytes, Zeros, Byte

\* A number in bytes.
LEMMA LEBytes ==
  ASSUME NEW v \in Nat, NEW n \in 1 .. 4
  PROVE  /\ IsBytes(LE(v, n), n)
         /\ \A k \in 1 .. n : LE(v, n)[k] = (v \div Place[k]) % 256
<1>1. ASSUME NEW k \in 1 .. n
      PROVE  (v \div Place[k]) % 256 \in Byte
  <2>1. Place[k] \in {1, 256, 65536, 16777216}
    BY DEF Place
  <2>2. QED
    BY <2>1 DEF Byte
<1>2. QED
  BY <1>1 DEF IsBytes, LE

\* The numbers that two bytes hold, and four.
LEMMA TwoBytes ==
  ASSUME NEW v \in Nat, v < 65536
  PROVE  ((v \div 1) % 256) + 256 * ((v \div 256) % 256) = v
OBVIOUS

\* An address in four bytes.
LEMMA FourBytes ==
  ASSUME NEW v \in Nat, v < 256 * 65536, NEW top \in Nat, v < top
  PROVE  ((v \div 1) % 256) + 256 * ((v \div 256) % 256)
           + 65536 * (((v \div 65536) % 256) + 256 * ((v \div top) % 256)) = v
<1>1. v \div 65536 \in 0 .. 255 /\ (v \div 65536) % 256 = v \div 65536
  OBVIOUS
<1>2. v = (v % 256) + 256 * (v \div 256) /\ v \div 1 = v
  OBVIOUS
<1>3. v \div 256 \in Nat
  OBVIOUS
<1>4. v \div 256 = ((v \div 256) % 256) + 256 * ((v \div 256) \div 256)
  <2>1. \A w \in Nat : w = (w % 256) + 256 * (w \div 256)
    OBVIOUS
  <2>2. QED
    BY <1>3, <2>1
<1>5. (v \div 256) \div 256 = v \div 65536
  OBVIOUS
<1>6. v \div top = 0 /\ 0 % 256 = 0
  OBVIOUS
<1> DEFINE q == v \div 256
           r == q % 256
           t == v \div 65536
           u == v % 256
<1>7. q \in Nat /\ r \in Nat /\ t \in Nat /\ u \in Nat
      /\ v = u + 256 * q /\ q = r + 256 * t
  BY <1>1, <1>2, <1>3, <1>4, <1>5
<1>8. u + 256 * r + 65536 * (t + 256 * 0) = v
  <2> HIDE DEF q, r, t, u
  <2>1. QED
    BY <1>7
<1>9. QED
  BY <1>1, <1>2, <1>6, <1>8

\* Two arrays that agree but at p, with the same one behind them.
LEMMA JoinedChange ==
  ASSUME NEW m, NEW n, NEW l, l = m + n, NEW a, NEW c, NEW b,
         IsBytes(a, m), IsBytes(c, m), IsBytes(b, n),
         NEW p \in 1 .. m, \A k \in (1 .. m) \ {p} : c[k] = a[k]
  PROVE  /\ \A k \in (1 .. l) \ {p} : Cat(c, b)[k] = Cat(a, b)[k]
         /\ p \in 1 .. l /\ Cat(c, b)[p] = c[p]
<1>0. m \in Nat /\ n \in Nat
  BY DEF IsBytes
<1>1. /\ \A k \in 1 .. m : Cat(a, b)[k] = a[k]
      /\ \A k \in 1 .. n : Cat(a, b)[m + k] = b[k]
  BY Joined
<1>2. /\ \A k \in 1 .. m : Cat(c, b)[k] = c[k]
      /\ \A k \in 1 .. n : Cat(c, b)[m + k] = b[k]
  BY Joined
<1>3. ASSUME NEW k \in (1 .. l) \ {p}
      PROVE  Cat(c, b)[k] = Cat(a, b)[k]
  <2>1. CASE k \in 1 .. m
    BY <1>1, <1>2, <2>1
  <2>2. CASE k \notin 1 .. m
    <3>1. k - m \in 1 .. n /\ m + (k - m) = k
      BY <1>0, <2>2
    <3>2. QED
      BY <1>1, <1>2, <3>1
  <2>3. QED
    BY <2>1, <2>2
<1>4. QED
  BY <1>0, <1>2, <1>3

\* The entry of a CPU.
LEMMA CpuBytes ==
  ASSUME cpuid \in CpuIds, NEW n \in Nat
  PROVE  /\ IsBytes(Cpu(n), 20)
         /\ Cpu(n)[1] = 0 /\ Cpu(n)[2] = n % 256 /\ Cpu(n)[4] = CpuFlag(n)
<1> DEFINE a == <<0, n % 256, 20, CpuFlag(n)>>
           b == Cat(a, cpuid[1])
           c == Cat(b, cpuid[2])
<1>1. IsBytes(a, 4)
  <2>1. n % 256 \in Byte /\ CpuFlag(n) \in Byte /\ {0, 20} \subseteq Byte
    BY DEF CpuFlag, Byte
  <2>2. QED
    BY <2>1, Tuples
<1>2. a[1] = 0 /\ a[2] = n % 256 /\ a[4] = CpuFlag(n)
  OBVIOUS
<1>3. IsBytes(cpuid[1], 4) /\ IsBytes(cpuid[2], 4)
  BY MpAssumption DEF IsBytes
<1>4. IsBytes(Zeros(8), 8)
  BY ZerosBytes
<1>5. Cpu(n) = Cat(c, Zeros(8))
  BY Zenon DEF Cpu, Cat
<1> HIDE DEF a
<1>6. IsBytes(b, 8) /\ \A k \in 1 .. 4 : b[k] = a[k]
  <2>1. IsBytes(b, 8)
    BY <1>1, <1>3, JoinedSize
  <2>2. \A k \in 1 .. 4 : b[k] = a[k]
    BY <1>1, <1>3, Joined
  <2>3. QED
    BY <2>1, <2>2
<1> HIDE DEF b
<1>7. IsBytes(c, 12) /\ \A k \in 1 .. 8 : c[k] = b[k]
  <2>1. IsBytes(c, 12)
    BY <1>3, <1>6, JoinedSize
  <2>2. \A k \in 1 .. 8 : c[k] = b[k]
    BY <1>3, <1>6, Joined
  <2>3. QED
    BY <2>1, <2>2
<1> HIDE DEF c
<1>8. IsBytes(Cat(c, Zeros(8)), 20) /\ \A k \in 1 .. 12 : Cat(c, Zeros(8))[k] = c[k]
  BY <1>4, <1>7, Joined, JoinedSize
<1>9. QED
  BY <1>2, <1>5, <1>6, <1>7, <1>8

\* The entries of 8 bytes: the bus,
LEMMA BusBytes == IsBytes(Bus, 8) /\ Bus[1] = 1
<1>1. {1, 0, 73, 83, 65, 32} \subseteq Byte
  BY DEF Byte
<1> DEFINE a == <<1, 0>>
           b == <<73, 83, 65, 32, 32, 32>>
<1>2. IsBytes(a, 2) /\ IsBytes(b, 6)
  BY <1>1, Tuples, LongTuples
<1>3. Bus = Cat(a, b) /\ a[1] = 1
  BY DEF Bus, Cat
<1> HIDE DEF a, b
<1>4. IsBytes(Cat(a, b), 8) /\ \A k \in 1 .. 2 : Cat(a, b)[k] = a[k]
  BY <1>2, Joined, JoinedSize
<1>5. QED
  BY <1>3, <1>4

\* the I/O APIC,
LEMMA IoApicBytes ==
  ASSUME num_cpus \in Nat
  PROVE  IsBytes(IoApic, 8) /\ IoApic[1] = 2 /\ IoApic[2] = ApicId
<1>1. ApicId \in Byte /\ {2, 20, 1, 0, 192, 254} \subseteq Byte
  BY DEF ApicId, Byte
<1> DEFINE a == <<2, ApicId, 20, 1>>
           b == <<0, 0, 192, 254>>
<1>2. IsBytes(a, 4) /\ IsBytes(b, 4)
  BY <1>1, Tuples, ZenonT(60)
<1>3. IoApic = Cat(a, b) /\ a[1] = 2 /\ a[2] = ApicId
  BY DEF IoApic, Cat
<1> HIDE DEF a, b
<1>4. IsBytes(Cat(a, b), 8) /\ \A k \in 1 .. 4 : Cat(a, b)[k] = a[k]
  BY <1>2, Joined, JoinedSize
<1>5. QED
  BY <1>3, <1>4

\* an interrupt, global or local, of which its type and four bytes tell,
LEMMA InterruptBytes ==
  ASSUME NEW a \in Byte, NEW b \in Byte, NEW c, IsBytes(c, 4)
  PROVE  LET e == Cat(Cat(<<a, b>>, LE(0, 2)), c)
         IN  /\ IsBytes(e, 8) /\ e[1] = a
             /\ e[6] = c[2] /\ e[7] = c[3] /\ e[8] = c[4]
<1> DEFINE t == <<a, b>>
           u == Cat(t, LE(0, 2))
           e == Cat(u, c)
<1>1. IsBytes(t, 2) /\ t[1] = a
  BY Tuples
<1>2. IsBytes(LE(0, 2), 2)
  BY LEBytes
<1> HIDE DEF t
<1> DEFINE v == LE(0, 2)
<1> HIDE DEF v
<1>3. IsBytes(Cat(t, v), 4) /\ \A k \in 1 .. 2 : Cat(t, v)[k] = t[k]
  <2>1. IsBytes(v, 2)
    BY <1>2 DEF v
  <2>2. QED
    BY <1>1, <2>1, Joined, JoinedSize
<1> HIDE DEF u
<1>4. /\ IsBytes(e, 8)
      /\ \A k \in 1 .. 4 : e[k] = u[k]
      /\ \A k \in 1 .. 4 : e[4 + k] = c[k]
  <2>1. IsBytes(u, 4)
    BY <1>3 DEF u, v
  <2>2. QED
    BY <2>1, Joined, JoinedSize
<1> HIDE DEF e
<1>5. e[4 + 2] = c[2] /\ e[4 + 3] = c[3] /\ e[4 + 4] = c[4]
  BY <1>4
<1>6. e[1] = a
  BY <1>1, <1>3, <1>4 DEF u, v
<1>7. IsBytes(e, 8) /\ e[1] = a /\ e[6] = c[2] /\ e[7] = c[3] /\ e[8] = c[4]
  BY <1>4, <1>5, <1>6
<1>8. QED
  BY <1>7, Zenon DEF e, u, t

\* the former,
LEMMA IntsrcBytes ==
  ASSUME num_cpus \in Nat, NEW n \in 0 .. 15
  PROVE  /\ IsBytes(Intsrc(n), 8) /\ Intsrc(n)[1] = 3
         /\ Intsrc(n)[6] = n /\ Intsrc(n)[7] = ApicId /\ Intsrc(n)[8] = Pin(n)
<1>1. {0, 3, n, ApicId, Pin(n)} \subseteq Byte
  BY DEF ApicId, Pin, Byte
<1> DEFINE c == <<0, n, ApicId, Pin(n)>>
           e == Cat(Cat(<<3, 0>>, LE(0, 2)), c)
<1>2. IsBytes(c, 4) /\ c[2] = n /\ c[3] = ApicId /\ c[4] = Pin(n)
  BY <1>1, Tuples
<1>3. Intsrc(n) = e
  BY Zenon DEF Intsrc, Cat
<1> HIDE DEF c
<1>4. IsBytes(e, 8) /\ e[1] = 3 /\ e[6] = c[2] /\ e[7] = c[3] /\ e[8] = c[4]
  <2>1. 3 \in Byte /\ 0 \in Byte
    BY <1>1
  <2>2. QED
    BY <1>2, <2>1, InterruptBytes
<1> HIDE DEF e
<1>5. QED
  BY <1>2, <1>3, <1>4

\* and the latter.
LEMMA LintsrcBytes == \A e \in {ExtInt, Nmi} : IsBytes(e, 8) /\ e[1] = 4
<1>1. {0, 1, 3, 4, 255} \subseteq Byte
  BY DEF Byte
<1>2. IsBytes(<<0, 0, 0, 0>>, 4) /\ IsBytes(<<0, 0, 255, 1>>, 4)
  BY <1>1, Tuples
<1> DEFINE e(b, c) == Cat(Cat(<<4, b>>, LE(0, 2)), c)
<1>3. ASSUME NEW b \in Byte, NEW c, IsBytes(c, 4)
      PROVE  IsBytes(e(b, c), 8) /\ e(b, c)[1] = 4
  BY <1>1, <1>3, InterruptBytes
<1>4. ExtInt = e(3, <<0, 0, 0, 0>>) /\ Nmi = e(1, <<0, 0, 255, 1>>)
  BY Zenon DEF ExtInt, Nmi, Cat
<1> HIDE DEF e
<1>5. QED
  BY <1>1, <1>2, <1>3, <1>4

\* The same when the arrays with p are behind.
LEMMA BehindChange ==
  ASSUME NEW m, NEW n, NEW a, NEW b, NEW c,
         IsBytes(a, m), IsBytes(b, n), IsBytes(c, n),
         NEW p \in 1 .. n, \A k \in (1 .. n) \ {p} : c[k] = b[k]
  PROVE  /\ \A k \in (1 .. m + n) \ {m + p} : Cat(a, c)[k] = Cat(a, b)[k]
         /\ Cat(a, c)[m + p] = c[p]
<1>0. m \in Nat /\ n \in Nat
  BY DEF IsBytes
<1>1. /\ \A k \in 1 .. m : Cat(a, b)[k] = a[k]
      /\ \A k \in 1 .. n : Cat(a, b)[m + k] = b[k]
  BY Joined
<1>2. /\ \A k \in 1 .. m : Cat(a, c)[k] = a[k]
      /\ \A k \in 1 .. n : Cat(a, c)[m + k] = c[k]
  BY Joined
<1>3. ASSUME NEW k \in (1 .. m + n) \ {m + p}
      PROVE  Cat(a, c)[k] = Cat(a, b)[k]
  <2>1. CASE k \in 1 .. m
    BY <1>1, <1>2, <2>1
  <2>2. CASE k \notin 1 .. m
    <3>1. k - m \in (1 .. n) \ {p} /\ m + (k - m) = k
      BY <1>0, <2>2
    <3>2. QED
      BY <1>1, <1>2, <3>1
  <2>3. QED
    BY <2>1, <2>2
<1>4. QED
  BY <1>2, <1>3

\* The floating pointer: the table's address, and one byte that seals it.
LEMMA MpfBytes ==
  ASSUME NEW s \in Byte
  PROVE  /\ IsBytes(Mpf(s), 16) /\ Mpf(s)[11] = s
         /\ \A k \in 1 .. 4 : Mpf(s)[4 + k] = LE(MPTABLE_START + MPF, 4)[k]
         /\ \A k \in (1 .. 16) \ {11} : Mpf(s)[k] = Mpf(0)[k]
<1> DEFINE a == <<95, 77, 80, 95>>
           b == LE(MPTABLE_START + MPF, 4)
           c == Cat(a, b)
           d(t) == <<1, 4, t>>
           e(t) == Cat(c, d(t))
           f(t) == Cat(e(t), Zeros(5))
<1>1. {0, 1, 4, 77, 80, 95} \subseteq Byte /\ IsBytes(Zeros(5), 5)
  BY ZerosBytes DEF Byte
<1>2. IsBytes(a, 4)
  BY <1>1, Tuples
<1>3. IsBytes(b, 4)
  BY MpAssumption, LEBytes DEF MPTABLE_START, MPF
<1>4. \A t \in Byte : IsBytes(d(t), 3) /\ d(t)[3] = t
  BY <1>1, Tuples
<1>5. \A k \in (1 .. 3) \ {3} : d(s)[k] = d(0)[k]
  OBVIOUS
<1>6. \A t : Mpf(t) = f(t)
  BY Zenon DEF Mpf, Cat
<1> HIDE DEF a, b, d
<1>7. IsBytes(c, 8)
  BY <1>2, <1>3, JoinedSize
<1>8. \A k \in 1 .. 4 : c[4 + k] = b[k]
  BY <1>2, <1>3, Joined
<1> HIDE DEF c
<1>9. \A t \in Byte : IsBytes(e(t), 11)
  BY <1>4, <1>7, JoinedSize
<1>10. \A k \in 1 .. 8 : e(s)[k] = c[k]
  BY <1>4, <1>7, Joined
<1>11. /\ \A k \in (1 .. 8 + 3) \ {8 + 3} : e(s)[k] = e(0)[k]
       /\ e(s)[8 + 3] = d(s)[3]
  <2>1. IsBytes(d(0), 3) /\ IsBytes(d(s), 3) /\ 3 \in 1 .. 3
    BY <1>1, <1>4
  <2>2. QED
    BY <1>5, <1>7, <2>1, BehindChange
<1> HIDE DEF e
<1>12. /\ \A k \in (1 .. 11) \ {11} : e(s)[k] = e(0)[k]
       /\ e(s)[11] = s
  BY <1>4, <1>11
<1>13. IsBytes(f(s), 16)
  BY <1>1, <1>9, JoinedSize
<1>14. \A k \in 1 .. 11 : f(s)[k] = e(s)[k]
  BY <1>1, <1>9, Joined
<1>15. \A k \in (1 .. 16) \ {11} : f(s)[k] = f(0)[k]
  <2>1. IsBytes(e(0), 11) /\ IsBytes(e(s), 11) /\ 11 \in 1 .. 11
    BY <1>1, <1>9
  <2>2. QED
    BY <1>1, <1>12, <2>1, JoinedChange
<1> HIDE DEF f
<1>16. \A k \in 1 .. 4 : f(s)[4 + k] = b[k]
  <2>1. ASSUME NEW k \in 1 .. 4
        PROVE  4 + k \in 1 .. 8 /\ 4 + k \in 1 .. 11
    OBVIOUS
  <2>2. QED
    BY <1>8, <1>10, <1>14, <2>1
<1>17. Mpf(s) = f(s) /\ Mpf(0) = f(0)
  BY <1>6
<1>18. f(s)[11] = s
  BY <1>12, <1>14
<1>19. QED
  BY <1>13, <1>15, <1>16, <1>17, <1>18 DEF b

\* The fixed parts of the header: its signature, the OEM's name and the address of
\* the local APIC.
LEMMA HeaderParts ==
  /\ IsBytes(<<80, 67, 77, 80>>, 4) /\ IsBytes(<<81, 66, 79, 79, 84, 32, 32, 32>>, 8)
  /\ IsBytes(<<0, 0, 224, 254>>, 4)
<1>1. /\ 80 \in Byte /\ 67 \in Byte /\ 77 \in Byte
      /\ 81 \in Byte /\ 66 \in Byte /\ 79 \in Byte /\ 84 \in Byte /\ 32 \in Byte
      /\ 0 \in Byte /\ 224 \in Byte /\ 254 \in Byte
  BY DEF Byte
<1>2. IsBytes(<<81, 66, 79, 79, 84, 32, 32, 32>>, 8)
  BY <1>1, LongTuples, ZenonT(60)
<1>3. IsBytes(<<0, 0, 224, 254>>, 4) /\ IsBytes(<<80, 67, 77, 80>>, 4)
  BY <1>1, Tuples, ZenonT(60)
<1>4. QED
  BY <1>2, <1>3

\* The header: its length, and a byte that seals the table.
LEMMA HeaderBytes ==
  ASSUME NEW length \in Nat, NEW s \in Byte
  PROVE  /\ IsBytes(Header(length, s), 44) /\ Header(length, s)[8] = s
         /\ \A k \in 1 .. 2 : Header(length, s)[4 + k] = LE(length, 2)[k]
         /\ \A k \in (1 .. 44) \ {8} : Header(length, s)[k] = Header(length, 0)[k]
<1> DEFINE a == <<80, 67, 77, 80>>
           b == LE(length, 2)
           c == Cat(a, b)
           d(t) == <<4, t>>
           e(t) == Cat(c, d(t))
           oem == <<81, 66, 79, 79, 84, 32, 32, 32>>
           id == [k \in 1 .. 12 |-> 48]
           lapic == <<0, 0, 224, 254>>
           f(t) == Cat(e(t), oem)
           g(t) == Cat(f(t), id)
           h(t) == Cat(g(t), Zeros(8))
           j(t) == Cat(h(t), lapic)
           l(t) == Cat(j(t), Zeros(4))
<1>1. {0, 4, 32, 48, 66, 67, 77, 79, 80, 81, 84, 224, 254} \subseteq Byte
  BY DEF Byte
<1>2. /\ IsBytes(oem, 8) /\ IsBytes(id, 12) /\ IsBytes(Zeros(8), 8)
      /\ IsBytes(lapic, 4) /\ IsBytes(Zeros(4), 4)
  <2>1. IsBytes(oem, 8)
    BY HeaderParts
  <2>2. IsBytes(id, 12)
    BY <1>1 DEF IsBytes
  <2>3. IsBytes(lapic, 4)
    BY HeaderParts
  <2>4. IsBytes(Zeros(8), 8) /\ IsBytes(Zeros(4), 4)
    BY ZerosBytes
  <2>5. QED
    BY <2>1, <2>2, <2>3, <2>4
<1>3. IsBytes(a, 4) /\ IsBytes(b, 2)
  <2>1. IsBytes(a, 4)
    BY HeaderParts
  <2>2. IsBytes(b, 2)
    BY LEBytes
  <2>3. QED
    BY <2>1, <2>2
<1>4. /\ \A t \in Byte : IsBytes(d(t), 2) /\ d(t)[2] = t
      /\ \A k \in (1 .. 2) \ {2} : d(s)[k] = d(0)[k]
  <2>1. ASSUME NEW t \in Byte
        PROVE  IsBytes(d(t), 2)
    BY <1>1 DEF IsBytes
  <2>2. QED
    BY <2>1
<1>5. \A t : Header(length, t) = l(t)
  BY Zenon DEF Header, Cat
<1> HIDE DEF a, b, d, oem, id, lapic
<1>6. IsBytes(c, 6)
  BY <1>3, JoinedSize
<1>7. \A k \in 1 .. 2 : c[4 + k] = b[k]
  BY <1>3, Joined
<1> HIDE DEF c
<1>8. 0 \in Byte /\ s \in Byte
  BY <1>1
<1>9. IsBytes(e(0), 8) /\ IsBytes(e(s), 8)
  BY <1>4, <1>6, <1>8, JoinedSize
<1>10. \A k \in 1 .. 6 : e(s)[k] = c[k]
  BY <1>4, <1>6, <1>8, Joined
<1>11. /\ \A k \in (1 .. 8) \ {8} : e(s)[k] = e(0)[k]
       /\ e(s)[8] = s
  <2>1. IsBytes(d(0), 2) /\ IsBytes(d(s), 2) /\ 2 \in 1 .. 2
    BY <1>4, <1>8
  <2>2. /\ \A k \in (1 .. 6 + 2) \ {6 + 2} : e(s)[k] = e(0)[k]
        /\ e(s)[6 + 2] = d(s)[2]
    BY <1>4, <1>6, <2>1, BehindChange
  <2> HIDE DEF e
  <2>3. QED
    BY <1>4, <2>2
<1> DEFINE Fixed(x, y, n) ==
      /\ IsBytes(x, n) /\ IsBytes(y, n) /\ y[8] = s
      /\ \A k \in (1 .. n) \ {8} : y[k] = x[k]
      /\ \A k \in 1 .. 2 : y[4 + k] = b[k]
<1>12. Fixed(e(0), e(s), 8)
  <2>1. ASSUME NEW k \in 1 .. 2
        PROVE  4 + k \in 1 .. 6
    OBVIOUS
  <2> HIDE DEF e
  <2>2. QED
    BY <1>7, <1>9, <1>10, <1>11, <2>1
<1>13. ASSUME NEW x, NEW y, NEW m \in Nat, m >= 8, Fixed(x, y, m),
              NEW z, NEW n \in Nat, IsBytes(z, n), NEW r, r = m + n
       PROVE  Fixed(Cat(x, z), Cat(y, z), r)
  <2>1. IsBytes(Cat(x, z), r) /\ IsBytes(Cat(y, z), r)
    BY <1>13, JoinedSize
  <2>2. /\ \A k \in (1 .. r) \ {8} : Cat(y, z)[k] = Cat(x, z)[k]
        /\ Cat(y, z)[8] = y[8]
    <3>1. 8 \in 1 .. m
      BY <1>13
    <3>2. QED
      BY <1>13, <3>1, JoinedChange
  <2>3. \A k \in 1 .. m : Cat(y, z)[k] = y[k]
    BY <1>13, Joined
  <2>4. ASSUME NEW k \in 1 .. 2
        PROVE  4 + k \in 1 .. m
    BY <1>13
  <2>5. QED
    BY <1>13, <2>1, <2>2, <2>3, <2>4
<1> HIDE DEF Fixed, e
<1>14. Fixed(f(0), f(s), 16)
  <2>1. 8 \in Nat /\ 8 >= 8 /\ 8 \in Nat /\ 16 = 8 + 8
    OBVIOUS
  <2>2. QED
    BY <1>2, <1>12, <1>13, <2>1
<1> HIDE DEF Fixed, f
<1>15. Fixed(g(0), g(s), 28)
  <2>1. 16 \in Nat /\ 16 >= 8 /\ 12 \in Nat /\ 28 = 16 + 12
    OBVIOUS
  <2>2. QED
    BY <1>2, <1>14, <1>13, <2>1
<1> HIDE DEF Fixed, g
<1>16. Fixed(h(0), h(s), 36)
  <2>1. 28 \in Nat /\ 28 >= 8 /\ 8 \in Nat /\ 36 = 28 + 8
    OBVIOUS
  <2>2. QED
    BY <1>2, <1>15, <1>13, <2>1
<1> HIDE DEF Fixed, h
<1>17. Fixed(j(0), j(s), 40)
  <2>1. 36 \in Nat /\ 36 >= 8 /\ 4 \in Nat /\ 40 = 36 + 4
    OBVIOUS
  <2>2. QED
    BY <1>2, <1>16, <1>13, <2>1
<1> HIDE DEF Fixed, j
<1>18. Fixed(l(0), l(s), 44)
  <2>1. 40 \in Nat /\ 40 >= 8 /\ 4 \in Nat /\ 44 = 40 + 4
    OBVIOUS
  <2>2. QED
    BY <1>2, <1>17, <1>13, <2>1
<1> HIDE DEF l
<1>19. Header(length, s) = l(s) /\ Header(length, 0) = l(0)
  BY <1>5
<1>20. QED
  BY <1>18, <1>19 DEF Fixed, b

-----------------------------------------------------------------------------
(* Bytes in memory, at the addresses D.                                    *)

IsMemory(m, D) == D \subseteq Int /\ m \in [D -> Byte]

\* Memory m holds the bytes b at a.
Holds(m, a, b) == \A j \in 1 .. Len(b) : m[a + j - 1] = b[j]

\* The length of an array.
LEMMA LengthOfBytes ==
  ASSUME NEW n, NEW b, IsBytes(b, n)
  PROVE  n \in Nat /\ Len(b) = n
BY Sized DEF IsBytes

\* Memory l is m with the n bytes b at a.
Changed(l, m, D, a, n, b) ==
  /\ IsMemory(l, D)
  /\ \A x \in D : x < a \/ a + n <= x => l[x] = m[x]
  /\ \A j \in 1 .. n : a + j - 1 \in D => l[a + j - 1] = b[j]

\* What a store does.
LEMMA StoredBytes ==
  ASSUME NEW D, NEW m, IsMemory(m, D), NEW a \in Int, NEW n, NEW b, IsBytes(b, n)
  PROVE  Changed(Stored(m, a, b), m, D, a, n, b)
<1>0. D \subseteq Int /\ m \in [D -> Byte]
  BY DEF IsMemory
<1>1. n \in Nat /\ Len(b) = n
  BY LengthOfBytes
<1>2. b \in [1 .. n -> Byte]
  BY DEF IsBytes
<1>3. Stored(m, a, b) = [x \in D |-> IF a <= x /\ x < a + n THEN b[x - a + 1] ELSE m[x]]
  BY <1>0, <1>1 DEF Stored
<1>4. ASSUME NEW x \in D
      PROVE  (IF a <= x /\ x < a + n THEN b[x - a + 1] ELSE m[x]) \in Byte
  <2>1. CASE a <= x /\ x < a + n
    <3>1. x - a + 1 \in 1 .. n
      BY <1>0, <1>1, <2>1
    <3>2. QED
      BY <1>2, <2>1, <3>1
  <2>2. CASE ~(a <= x /\ x < a + n)
    BY <1>0, <2>2
  <2>3. QED
    BY <2>1, <2>2
<1>5. ASSUME NEW x \in D, x < a \/ a + n <= x
      PROVE  Stored(m, a, b)[x] = m[x]
  <2>1. ~(a <= x /\ x < a + n)
    BY <1>0, <1>1, <1>5
  <2>2. QED
    BY <1>3, <2>1
<1>6. ASSUME NEW j \in 1 .. n, a + j - 1 \in D
      PROVE  Stored(m, a, b)[a + j - 1] = b[j]
  <2>1. a <= a + j - 1 /\ a + j - 1 < a + n /\ (a + j - 1) - a + 1 = j
    BY <1>1
  <2>2. QED
    BY <1>3, <1>6, <2>1
<1>7. IsMemory(Stored(m, a, b), D)
  BY <1>0, <1>3, <1>4 DEF IsMemory
<1>8. QED
  BY <1>5, <1>6, <1>7 DEF Changed

\* It holds them.
LEMMA StoredHolds ==
  ASSUME NEW D, NEW m, IsMemory(m, D), NEW a \in Int, NEW n, NEW b, IsBytes(b, n),
         a .. a + n - 1 \subseteq D
  PROVE  Holds(Stored(m, a, b), a, b)
<1>1. n \in Nat /\ Len(b) = n
  BY LengthOfBytes
<1> DEFINE l == Stored(m, a, b)
<1>2. Changed(l, m, D, a, n, b)
  BY StoredBytes
<1>3. ASSUME NEW j \in 1 .. n
      PROVE  a + j - 1 \in D
  BY <1>1
<1> HIDE DEF l
<1>4. \A j \in 1 .. Len(b) : l[a + j - 1] = b[j]
  BY <1>1, <1>2, <1>3 DEF Changed
<1>5. QED
  BY <1>4 DEF Holds, l

\* A memory l that has the same bytes there, holds what m does.
LEMMA HoldsKept ==
  ASSUME NEW m, NEW l, NEW a \in Int, NEW n, NEW b, IsBytes(b, n), Holds(m, a, b),
         \A x \in a .. a + n - 1 : l[x] = m[x]
  PROVE  Holds(l, a, b)
<1>1. n \in Nat /\ Len(b) = n
  BY LengthOfBytes
<1>2. ASSUME NEW j \in 1 .. n
      PROVE  l[a + j - 1] = b[j]
  <2>1. a + j - 1 \in a .. a + n - 1
    BY <1>1
  <2>2. m[a + j - 1] = b[j]
    BY <1>1 DEF Holds
  <2>3. QED
    BY <2>1, <2>2
<1>3. QED
  BY <1>1, <1>2 DEF Holds

\* What is loaded,
LEMMA LoadBytes ==
  ASSUME NEW D, NEW m, IsMemory(m, D), NEW a \in Int, NEW n \in Nat,
         a .. a + n - 1 \subseteq D
  PROVE  IsBytes(Load(m, a, n), n)
<1>1. ASSUME NEW k \in 1 .. n
      PROVE  m[a + k - 1] \in Byte
  <2>1. a + k - 1 \in a .. a + n - 1
    OBVIOUS
  <2>2. QED
    BY <2>1 DEF IsMemory
<1>2. QED
  BY <1>1 DEF IsBytes, Load

\* is what memory holds,
LEMMA LoadHolds ==
  ASSUME NEW m, NEW a \in Int, NEW n, NEW b, IsBytes(b, n), Holds(m, a, b)
  PROVE  Load(m, a, n) = b
<1>1. n \in Nat /\ Len(b) = n /\ b \in [1 .. n -> Byte]
  BY LengthOfBytes DEF IsBytes
<1>2. \A k \in 1 .. n : m[a + k - 1] = b[k]
  BY <1>1 DEF Holds
<1>3. b = [k \in 1 .. n |-> b[k]]
  BY <1>1
<1>4. QED
  BY <1>2, <1>3 DEF Load

\* stays while the bytes stay,
LEMMA LoadKept ==
  ASSUME NEW m, NEW l, NEW a \in Int, NEW n \in Nat,
         \A x \in a .. a + n - 1 : l[x] = m[x]
  PROVE  Load(l, a, n) = Load(m, a, n)
<1>1. ASSUME NEW k \in 1 .. n
      PROVE  l[a + k - 1] = m[a + k - 1]
  <2>1. a + k - 1 \in a .. a + n - 1
    OBVIOUS
  <2>2. QED
    BY <2>1
<1>2. QED
  BY <1>1 DEF Load

\* and is loaded in two parts.
LEMMA LoadParts ==
  ASSUME NEW D, NEW m, IsMemory(m, D), NEW a \in Int, NEW n \in Nat, NEW k \in Nat,
         a .. a + n + k - 1 \subseteq D
  PROVE  Load(m, a, n + k) = Cat(Load(m, a, n), Load(m, a + n, k))
<1> DEFINE u == Load(m, a, n)
           v == Load(m, a + n, k)
           w == Load(m, a, n + k)
<1>1. IsBytes(u, n) /\ IsBytes(v, k)
  <2>1. /\ a .. a + n - 1 \subseteq D /\ a + n .. a + n + k - 1 \subseteq D
        /\ a + n \in Int
    OBVIOUS
  <2>2. QED
    BY <2>1, LoadBytes
<1>2. /\ \A j \in 1 .. n : u[j] = m[a + j - 1]
      /\ \A j \in 1 .. k : v[j] = m[a + n + j - 1]
      /\ w = [j \in 1 .. n + k |-> m[a + j - 1]]
  BY DEF Load
<1> HIDE DEF u, v, w
<1>3. PICK l \in Nat : l = n + k
  OBVIOUS
<1>4. IsBytes(Cat(u, v), l)
  BY <1>1, <1>3, JoinedSize
<1>5. /\ \A j \in 1 .. n : Cat(u, v)[j] = u[j]
      /\ \A j \in 1 .. k : Cat(u, v)[n + j] = v[j]
  BY <1>1, Joined
<1>6. ASSUME NEW j \in 1 .. n + k
      PROVE  Cat(u, v)[j] = m[a + j - 1]
  <2>1. CASE j <= n
    BY <1>2, <1>5, <2>1
  <2>2. CASE j > n
    <3> DEFINE q == j - n
    <3>1. q \in 1 .. k /\ n + q = j /\ a + n + q - 1 = a + j - 1
      BY <2>2
    <3> HIDE DEF q
    <3>2. Cat(u, v)[n + q] = v[q] /\ v[q] = m[a + n + q - 1]
      BY <1>2, <1>5, <3>1
    <3>3. QED
      BY <3>1, <3>2
  <2>3. QED
    BY <2>1, <2>2
<1>7. Cat(u, v) = [j \in 1 .. n + k |-> Cat(u, v)[j]]
  BY <1>3, <1>4 DEF IsBytes
<1>8. QED
  BY <1>2, <1>6, <1>7 DEF u, v, w

-----------------------------------------------------------------------------
(* The inductive invariant of setup_mptable.                               *)

\* The entries for interrupts, by their place: the place of the one for IRQ n,
\* and the IRQ of the one at place j.
Nth(n) == IF irq0_override /\ n > 2 THEN n - 1 ELSE n
Irq(j) == IF irq0_override /\ j >= 2 THEN j + 1 ELSE j

\* The entries of 8 bytes: bus, I/O APIC, interrupts, local interrupts.
Irqs == Nth(16)
Small == 2 + Irqs + 2

SmallEntry(k) ==
  CASE k = 0 -> Bus
    [] k = 1 -> IoApic
    [] k \in 2 .. Irqs + 1 -> Intsrc(Irq(k - 2))
    [] k = Irqs + 2 -> ExtInt
    [] OTHER -> Nmi

\* The table's entries in their order, their sizes and their places.
Entry(k) == IF k < num_cpus THEN Cpu(k) ELSE SmallEntry(k - num_cpus)
Size(k) == IF k < num_cpus THEN 20 ELSE 8
At(k) == EBDA + MPF + HEADER + IF k <= num_cpus THEN 20 * k ELSE 20 * num_cpus + 8 * (k - num_cpus)
All == num_cpus + Small

\* How many of them are written.
Done == CASE mp_pc = "cpu" -> i
          [] mp_pc = "bus" -> num_cpus
          [] mp_pc = "ioapic" -> num_cpus + 1
          [] mp_pc = "intsrc" -> num_cpus + 2 + Nth(i)
          [] mp_pc = "lintsrc" -> num_cpus + 2 + Irqs
          [] mp_pc = "nmi" -> num_cpus + 3 + Irqs
          [] OTHER -> All

MpTypes ==
  /\ num_cpus \in Nat /\ irq0_override \in BOOLEAN /\ cpuid \in CpuIds
  /\ IsMemory(ebda, Memory) /\ IsMemory(old, Memory)
  /\ offset \in Nat /\ checksum \in Byte /\ i \in Nat
  /\ mp_pc \in {"mpf", "cpu", "bus", "ioapic", "intsrc", "lintsrc", "nmi", "length", "done"}
  /\ mp_pc = "mpf" => i = 0 /\ checksum = 0
  /\ mp_pc # "mpf" => offset >= MPF + HEADER
  /\ mp_pc = "cpu" => i <= num_cpus
  /\ mp_pc = "intsrc" => i <= 16

\* Memory m has the floating pointer and the first d entries in place.
InPlace(m, d) ==
  /\ Holds(m, MPTABLE_START, Mpf(Negated(mptable_checksum(Mpf(0)))))
  /\ \A k \in 0 .. d - 1 : Holds(m, At(k), Entry(k))

\* The sum of these entries.
Entered(m, d) == mptable_checksum(Load(m, At(0), At(d) - At(0)))

\* What is done is in place, offset behind it.
Written ==
  mp_pc # "mpf" => MPTABLE_START + offset = At(Done) /\ InPlace(ebda, Done)

\* checksum is the sum of the entries, and in the end the header's with it.
Summed ==
  /\ mp_pc \notin {"mpf", "done"} => checksum = Entered(ebda, Done)
  /\ mp_pc = "done" =>
       /\ checksum = (Entered(ebda, Done) + HeaderSum) % 256
       /\ Holds(ebda, MPTABLE_START + MPF, Header(TableLength, Negated(checksum)))

MpIInv == MpTypes /\ (CpusFit => Written /\ Summed) /\ TableInEbda

\* Where the entries are.
LEMMA Places ==
  ASSUME num_cpus \in Nat, irq0_override \in BOOLEAN
  PROVE  /\ Irqs \in {15, 16} /\ Small = Irqs + 4 /\ All = num_cpus + Irqs + 4 /\ All \in Nat
         /\ At(0) = EBDA + 60 /\ EBDA \in Nat
         /\ \A k \in Nat : /\ At(k) \in Nat /\ Size(k) \in {8, 20} /\ At(0) <= At(k)
                           /\ At(k + 1) = At(k) + Size(k)
         /\ \A k, l \in Nat : k < l => At(k) + Size(k) <= At(l)
         /\ CpusFit => num_cpus <= 40 /\ At(All) <= EBDA_END
<1>1. EBDA \in Nat /\ EBDA_END \in Nat /\ EBDA_END <= EBDA + 1024
  BY MpAssumption
<1>2. Irqs \in {15, 16} /\ Small = Irqs + 4 /\ All = num_cpus + Irqs + 4 /\ All \in Nat
  BY DEF Irqs, Nth, Small, All
<1>3. At(0) = EBDA + 60
  BY <1>1 DEF At, MPF, HEADER
<1>4. ASSUME NEW k \in Nat
      PROVE  /\ At(k) \in Nat /\ Size(k) \in {8, 20} /\ At(0) <= At(k)
             /\ At(k + 1) = At(k) + Size(k)
  BY <1>1 DEF At, Size, MPF, HEADER
<1>5. ASSUME NEW k \in Nat, NEW l \in Nat, k < l
      PROVE  At(k) + Size(k) <= At(l)
  BY <1>1, <1>5 DEF At, Size, MPF, HEADER
<1>6. ASSUME CpusFit
      PROVE  num_cpus <= 40 /\ At(All) <= EBDA_END
  BY <1>1, <1>2, <1>6 DEF At, CpusFit, MPF, HEADER
<1>7. QED
  BY <1>1, <1>2, <1>3, <1>4, <1>5, <1>6

\* The entries for interrupts: IRQ 2 has none if it is skipped.
LEMMA Interrupts ==
  ASSUME irq0_override \in BOOLEAN
  PROVE  /\ \A j \in 0 .. Irqs - 1 : Irq(j) \in 0 .. 15 /\ ~Skipped(Irq(j)) /\ Nth(Irq(j)) = j
         /\ \A n \in 0 .. 15 : ~Skipped(n) => /\ Nth(n) \in 0 .. Irqs - 1 /\ Irq(Nth(n)) = n
                                             /\ Nth(n + 1) = Nth(n) + 1
         /\ \A n \in 0 .. 15 : Skipped(n) => Nth(n + 1) = Nth(n) /\ Nth(n) = 2
         /\ Nth(0) = 0
BY DEF Irqs, Irq, Nth, Skipped

\* What the entries are.
LEMMA EntryBytes ==
  ASSUME num_cpus \in Nat, irq0_override \in BOOLEAN, cpuid \in CpuIds, NEW k \in 0 .. All - 1
  PROVE  /\ IsBytes(Entry(k), Size(k))
         /\ k < num_cpus => /\ Entry(k)[1] = 0 /\ Entry(k)[2] = k % 256
                            /\ Entry(k)[4] = CpuFlag(k)
         /\ k = num_cpus => Entry(k)[1] = 1
         /\ k = num_cpus + 1 => Entry(k)[1] = 2 /\ Entry(k)[2] = ApicId
         /\ k \in num_cpus + 2 .. num_cpus + 1 + Irqs =>
              LET n == Irq(k - num_cpus - 2)
              IN  /\ Entry(k)[1] = 3 /\ Entry(k)[6] = n
                  /\ Entry(k)[7] = ApicId /\ Entry(k)[8] = Pin(n)
         /\ k > num_cpus + 1 + Irqs => Entry(k)[1] = 4
<1>1. Irqs \in {15, 16} /\ All = num_cpus + Irqs + 4
  BY Places
<1>2. CASE k < num_cpus
  <2>1. Entry(k) = Cpu(k) /\ Size(k) = 20
    BY <1>2 DEF Entry, Size
  <2>2. k \in Nat /\ ~(k = num_cpus) /\ ~(k = num_cpus + 1)
        /\ ~(k \in num_cpus + 2 .. num_cpus + 1 + Irqs) /\ ~(k > num_cpus + 1 + Irqs)
    BY <1>1, <1>2
  <2>3. QED
    BY <2>1, <2>2, CpuBytes
<1> DEFINE j == k - num_cpus
<1>3. CASE k >= num_cpus
  <2>1. Entry(k) = SmallEntry(j) /\ Size(k) = 8 /\ j \in 0 .. Irqs + 3 /\ ~(k < num_cpus)
    BY <1>1, <1>3 DEF Entry, Size
  <2>2. CASE j = 0
    <3>1. SmallEntry(j) = Bus
      BY <1>1, <2>2 DEF SmallEntry
    <3>2. k = num_cpus /\ ~(k = num_cpus + 1)
          /\ ~(k \in num_cpus + 2 .. num_cpus + 1 + Irqs) /\ ~(k > num_cpus + 1 + Irqs)
      BY <1>1, <2>2
    <3> HIDE DEF j
    <3>3. QED
      BY <2>1, <3>1, <3>2, BusBytes
  <2>3. CASE j = 1
    <3>1. SmallEntry(j) = IoApic
      BY <1>1, <2>3 DEF SmallEntry
    <3>2. k # num_cpus /\ k = num_cpus + 1
          /\ ~(k \in num_cpus + 2 .. num_cpus + 1 + Irqs) /\ ~(k > num_cpus + 1 + Irqs)
      BY <1>1, <2>3
    <3> HIDE DEF j
    <3>3. QED
      BY <2>1, <3>1, <3>2, IoApicBytes
  <2>4. CASE j \in 2 .. Irqs + 1
    <3> DEFINE n == Irq(j - 2)
    <3>1. SmallEntry(j) = Intsrc(n)
      BY <1>1, <2>4 DEF SmallEntry
    <3>2. j - 2 \in 0 .. Irqs - 1 /\ j - 2 = k - num_cpus - 2
      BY <1>1, <2>4
    <3>3. n \in 0 .. 15 /\ n = Irq(k - num_cpus - 2)
      BY <3>2, Interrupts
    <3>4. k # num_cpus /\ k # num_cpus + 1 /\ ~(k > num_cpus + 1 + Irqs)
      BY <1>1, <2>4
    <3> HIDE DEF j, n
    <3>5. /\ IsBytes(Intsrc(n), 8) /\ Intsrc(n)[1] = 3
          /\ Intsrc(n)[6] = n /\ Intsrc(n)[7] = ApicId /\ Intsrc(n)[8] = Pin(n)
      BY <3>3, IntsrcBytes
    <3>6. QED
      BY <2>1, <3>1, <3>3, <3>4, <3>5
  <2>5. CASE j > Irqs + 1
    <3>1. SmallEntry(j) \in {ExtInt, Nmi}
      BY <1>1, <2>5 DEF SmallEntry
    <3>2. k # num_cpus /\ k # num_cpus + 1 /\ ~(k \in num_cpus + 2 .. num_cpus + 1 + Irqs)
      BY <1>1, <2>5
    <3> HIDE DEF j
    <3>3. QED
      BY <2>1, <3>1, <3>2, LintsrcBytes
  <2>6. QED
    BY <1>1, <2>1, <2>2, <2>3, <2>4, <2>5
<1>4. QED
  BY <1>2, <1>3

\* The floating pointer's checksum is a byte.
LEMMA MpfSum == Negated(mptable_checksum(Mpf(0))) \in Byte /\ mptable_checksum(Mpf(0)) \in Byte
<1>1. 0 \in Byte
  BY DEF Byte
<1>2. mptable_checksum(Mpf(0)) \in Byte
  BY <1>1, MpfBytes, SumType DEF mptable_checksum
<1>3. QED
  BY <1>2 DEF Negated, Byte

\* Memory l, the same as m below the place of entry d, has the same entries
\* before it, with the same sum.
LEMMA KeptBelow ==
  ASSUME MpTypes, NEW m, NEW l, NEW d \in 0 .. All, InPlace(m, d),
         \A x \in EBDA .. At(d) - 1 : l[x] = m[x]
  PROVE  InPlace(l, d) /\ Entered(l, d) = Entered(m, d)
<1>1. num_cpus \in Nat /\ irq0_override \in BOOLEAN /\ cpuid \in CpuIds
  BY DEF MpTypes
<1>2. All \in Nat /\ d \in Nat /\ EBDA \in Nat
  <2>1. All \in Nat /\ EBDA \in Nat
    BY <1>1, Places
  <2>2. QED
    BY <2>1
<1>3. At(d) \in Nat /\ At(0) \in Nat /\ At(0) = EBDA + 60 /\ At(0) <= At(d)
  BY <1>1, <1>2, Places
<1>4. ASSUME NEW k \in 0 .. d - 1
      PROVE  Holds(l, At(k), Entry(k))
  <2>1. k \in Nat /\ k < d /\ k \in 0 .. All - 1
    BY <1>2
  <2>2. IsBytes(Entry(k), Size(k)) /\ Holds(m, At(k), Entry(k))
    BY <1>1, <2>1, EntryBytes DEF InPlace
  <2>3. At(k) \in Nat /\ Size(k) \in {8, 20} /\ At(0) <= At(k) /\ At(k) + Size(k) <= At(d)
    BY <1>1, <1>2, <2>1, Places
  <2>4. At(k) \in Int /\ \A x \in At(k) .. At(k) + Size(k) - 1 : x \in EBDA .. At(d) - 1
    BY <1>2, <1>3, <2>3
  <2>5. QED
    BY <2>2, <2>4, HoldsKept
<1>5. Holds(l, MPTABLE_START, Mpf(Negated(mptable_checksum(Mpf(0)))))
  <2> DEFINE s == Negated(mptable_checksum(Mpf(0)))
  <2>1. s \in Byte
    BY MpfSum
  <2> HIDE DEF s
  <2>2. IsBytes(Mpf(s), 16) /\ Holds(m, MPTABLE_START, Mpf(s))
    BY <2>1, MpfBytes DEF InPlace, s
  <2>3. MPTABLE_START \in Int
        /\ \A x \in MPTABLE_START .. MPTABLE_START + 16 - 1 : x \in EBDA .. At(d) - 1
    BY <1>2, <1>3 DEF MPTABLE_START
  <2>4. Holds(l, MPTABLE_START, Mpf(s))
    BY <2>2, <2>3, HoldsKept
  <2>5. QED
    BY <2>4 DEF s
<1>6. Entered(l, d) = Entered(m, d)
  <2> DEFINE o == At(0)
             c == At(d) - o
  <2>1. o \in Int /\ c \in Nat /\ \A x \in o .. o + c - 1 : x \in EBDA .. At(d) - 1
    BY <1>2, <1>3
  <2> HIDE DEF o, c
  <2>2. Load(l, o, c) = Load(m, o, c)
    BY <2>1, LoadKept
  <2>3. QED
    BY <2>2 DEF Entered, o, c
<1>7. QED
  BY <1>4, <1>5, <1>6 DEF InPlace

\* The next entry is put in its place: those before it stay, the sum grows by
\* its own, and nothing changes behind it.
LEMMA PutEntry ==
  ASSUME MpTypes, CpusFit, NEW m, IsMemory(m, Memory), NEW d \in 0 .. All - 1, InPlace(m, d),
         NEW l, l = Stored(m, At(d), Entry(d))
  PROVE  /\ InPlace(l, d + 1)
         /\ Entered(l, d + 1) = (Entered(m, d) + mptable_checksum(Entry(d))) % 256
         /\ \A x \in EBDA_END .. MEM_END - 1 : l[x] = m[x]
<1> DEFINE a == At(d)
           n == Size(d)
           b == Entry(d)
<1>1. num_cpus \in Nat /\ irq0_override \in BOOLEAN /\ cpuid \in CpuIds
  BY DEF MpTypes
<1>2. IsBytes(b, n)
  BY <1>1, EntryBytes
<1>0. All \in Nat /\ d \in Nat /\ d < All /\ d + 1 \in Nat /\ 0 .. d - 1 \subseteq Nat
  <2>1. All \in Nat
    BY <1>1, Places
  <2>2. QED
    BY <2>1
<1>3. /\ a \in Nat /\ n \in {8, 20} /\ At(d + 1) = a + n /\ a + n <= At(All) /\ At(All) \in Nat
      /\ At(0) = EBDA + 60 /\ At(0) <= a /\ At(All) <= EBDA_END
      /\ \A k \in 0 .. d - 1 : /\ At(k) \in Nat /\ Size(k) \in {8, 20} /\ At(0) <= At(k)
                               /\ At(k) + Size(k) <= a
  <2>1. a \in Nat /\ n \in {8, 20} /\ At(d + 1) = a + n /\ At(0) <= a
    BY <1>0, <1>1, Places
  <2>2. a + n <= At(All) /\ At(All) \in Nat
    BY <1>0, <1>1, Places
  <2>3. At(0) = EBDA + 60 /\ At(All) <= EBDA_END
    BY <1>1, Places
  <2>4. ASSUME NEW k \in 0 .. d - 1
        PROVE  /\ At(k) \in Nat /\ Size(k) \in {8, 20} /\ At(0) <= At(k)
               /\ At(k) + Size(k) <= a
    <3>1. k \in Nat /\ k < d
      BY <1>0
    <3> HIDE DEF n
    <3>2. QED
      BY <1>0, <1>1, <3>1, Places
  <2> HIDE DEF a, n
  <2>5. QED
    BY <2>1, <2>2, <2>3, <2>4
<1>4. EBDA \in Nat /\ EBDA_END \in Nat /\ MEM_END \in Nat /\ EBDA_END <= MEM_END
  BY MpAssumption
<1>5. Changed(l, m, Memory, a, n, b)
  <2> HIDE DEF a, n, b
  <2>1. a \in Int
    BY <1>3
  <2>2. Changed(Stored(m, a, b), m, Memory, a, n, b)
    BY <1>2, <2>1, StoredBytes
  <2>3. QED
    BY <2>2 DEF a, b
<1>6. Holds(l, a, b)
  <2> HIDE DEF a, n, b
  <2>1. a \in Int /\ a .. a + n - 1 \subseteq Memory
    BY <1>3, <1>4 DEF Memory
  <2>2. Holds(Stored(m, a, b), a, b)
    BY <1>2, <2>1, StoredHolds
  <2>3. QED
    BY <2>2 DEF a, b
<1> HIDE DEF a, n, b
<1>7. \A x \in EBDA .. a - 1 : l[x] = m[x]
  <2>1. EBDA .. a - 1 \subseteq Memory
    BY <1>3, <1>4 DEF Memory
  <2>2. QED
    BY <1>3, <1>4, <1>5, <2>1 DEF Changed
<1>8. InPlace(l, d) /\ Entered(l, d) = Entered(m, d)
  <2>1. d \in 0 .. All
    BY <1>0
  <2>2. \A x \in EBDA .. At(d) - 1 : l[x] = m[x]
    BY <1>7 DEF a
  <2>3. QED
    BY <2>1, <2>2, KeptBelow
<1>10. InPlace(l, d + 1)
  <2>1. ASSUME NEW k \in 0 .. (d + 1) - 1
        PROVE  Holds(l, At(k), Entry(k))
    <3>1. CASE k = d
      BY <1>6, <3>1 DEF a, b
    <3>2. CASE k # d
      <4>1. k \in 0 .. d - 1
        BY <1>0, <3>2
      <4>2. QED
        BY <1>8, <4>1 DEF InPlace
    <3>3. QED
      BY <3>1, <3>2
  <2>2. QED
    BY <1>8, <2>1 DEF InPlace
<1>11. Entered(l, d + 1) = (Entered(m, d) + mptable_checksum(Entry(d))) % 256
  <2> DEFINE o == At(0)
             c == a - o
             u == Load(m, o, c)
  <2>1. /\ o \in Int /\ c \in Nat /\ n \in Nat /\ o + c = a /\ At(d + 1) - o = c + n
        /\ o .. o + c + n - 1 \subseteq Memory /\ o .. o + c - 1 \subseteq Memory
        /\ \A x \in o .. o + c - 1 : x \in EBDA .. a - 1
    <3>1. /\ o \in Nat /\ c \in Nat /\ n \in Nat /\ o + c = a /\ At(d + 1) - o = c + n
          /\ EBDA <= o /\ o + c + n <= MEM_END
      BY <1>3, <1>4
    <3> HIDE DEF o, c, u
    <3>2. o .. o + c + n - 1 \subseteq Memory /\ o .. o + c - 1 \subseteq Memory
      BY <1>4, <3>1 DEF Memory
    <3>3. \A x \in o .. o + c - 1 : x \in EBDA .. a - 1
      BY <1>4, <3>1
    <3>4. QED
      BY <3>1, <3>2, <3>3
  <2> HIDE DEF o, c
  <2>2. IsMemory(l, Memory)
    BY <1>5 DEF Changed
  <2>3. Load(l, o, c + n) = Cat(Load(l, o, c), Load(l, o + c, n))
    BY <2>1, <2>2, LoadParts
  <2>4. Load(l, o, c) = Load(m, o, c)
    BY <1>7, <2>1, LoadKept
  <2>5. Load(l, a, n) = b
    BY <1>2, <1>3, <1>6, LoadHolds
  <2>6. IsBytes(u, c)
    BY <2>1, LoadBytes
  <2> HIDE DEF u
  <2>7. csum8(Cat(u, b)) = (csum8(u) + csum8(b)) % 256
    BY <1>2, <2>6, SumAppend
  <2>8. Entered(l, d + 1) = csum8(Load(l, o, c + n))
    BY <2>1 DEF Entered, mptable_checksum, o
  <2>9. Entered(m, d) = csum8(u)
    BY DEF Entered, mptable_checksum, u, o, c, a
  <2>10. mptable_checksum(Entry(d)) = csum8(b)
    BY DEF mptable_checksum, b
  <2>11. Load(l, o, c + n) = Cat(u, b)
    BY <2>1, <2>3, <2>4, <2>5 DEF u
  <2>12. QED
    BY <2>7, <2>8, <2>9, <2>10, <2>11
<1>12. \A x \in EBDA_END .. MEM_END - 1 : l[x] = m[x]
  <2>1. \A x \in EBDA_END .. MEM_END - 1 : x \in Memory /\ a + n <= x
    BY <1>3, <1>4 DEF Memory
  <2>2. QED
    BY <1>5, <2>1 DEF Changed
<1>13. QED
  BY <1>10, <1>11, <1>12

\* The inputs stay, and with them the entries and their places.
LEMMA InputsKept ==
  ASSUME UNCHANGED mpInputs
  PROVE  /\ CpusFit' = CpusFit /\ All' = All /\ old' = old
         /\ \A k : At(k)' = At(k)
         /\ \A k : Entry(k)' = Entry(k)
<1>1. num_cpus' = num_cpus /\ irq0_override' = irq0_override /\ cpuid' = cpuid /\ old' = old
  BY DEF mpInputs
<1>2. CpusFit' = CpusFit
  BY <1>1 DEF CpusFit
<1>3. All' = All
  BY <1>1 DEF All, Small, Irqs, Nth
<1>4. \A k : At(k)' = At(k)
  BY <1>1 DEF At
<1>5. \A k : Entry(k)' = Entry(k)
  BY <1>1 DEF Entry, SmallEntry, Cpu, CpuFlag, Bus, IoApic, Intsrc, Pin, Irq, Irqs, Nth,
              ApicId, ExtInt, Nmi
<1>6. QED
  BY <1>1, <1>2, <1>3, <1>4, <1>5

\* What is in place in the next state.
LEMMA NextInPlace ==
  ASSUME UNCHANGED mpInputs, NEW d, Done' = d
  PROVE  /\ At(Done)' = At(d)
         /\ InPlace(ebda', d) => InPlace(ebda, Done)'
         /\ Entered(ebda, Done)' = Entered(ebda', d)
<1>1. \A k : At(k)' = At(k) /\ Entry(k)' = Entry(k)
  BY InputsKept
<1>2. At(Done)' = At(d)
  BY DEF At, mpInputs
<1>3. InPlace(ebda', d) => InPlace(ebda, Done)'
  BY <1>1 DEF InPlace, Holds
<1>4. Entered(ebda, Done)' = Entered(ebda', d)
  BY <1>1, <1>2 DEF Entered
<1>5. QED
  BY <1>2, <1>3, <1>4

\* An entry is put, whether or not the structures fit.
LEMMA PutTypes ==
  ASSUME MpTypes, NEW STATE b, NEW n \in Nat, IsBytes(b, n), Put(b)
  PROVE  IsMemory(ebda', Memory) /\ offset' = offset + n /\ offset' \in Nat /\ checksum' \in Byte
<1>1. IsMemory(ebda, Memory) /\ MPTABLE_START + offset \in Int
  BY MpAssumption DEF MpTypes, MPTABLE_START
<1>2. Changed(Stored(ebda, MPTABLE_START + offset, b), ebda, Memory, MPTABLE_START + offset, n, b)
  BY <1>1, StoredBytes
<1>3. IsMemory(ebda', Memory)
  BY <1>2 DEF Put, Changed
<1>4. Len(b) = n
  BY LengthOfBytes
<1>5. offset' = offset + n /\ offset' \in Nat
  BY <1>4 DEF Put, MpTypes
<1>6. checksum' \in Byte
  <2>1. mptable_checksum(b) \in Byte
    BY SumType DEF mptable_checksum
  <2>2. checksum + mptable_checksum(b) \in Int
    BY <2>1 DEF MpTypes, Byte
  <2>3. QED
    BY <2>2, LowByte DEF Put
<1>7. QED
  BY <1>3, <1>5, <1>6

\* The next entry is put: the other parts of the invariant.
LEMMA PutStep ==
  ASSUME MpIInv, mp_pc \notin {"mpf", "length", "done"}, mp_pc' \notin {"mpf", "done"},
         UNCHANGED mpInputs, NEW d \in 0 .. All - 1, Done = d, Done' = d + 1, Put(Entry(d))
  PROVE  (CpusFit => Written /\ Summed)' /\ TableInEbda'
<1>1. CpusFit' = CpusFit /\ old' = old
  BY InputsKept
<1>2. ASSUME CpusFit
      PROVE  Written' /\ Summed' /\ TableInEbda'
  <2> DEFINE l == ebda'
             m == ebda
  <2>1. MpTypes /\ IsMemory(m, Memory) /\ InPlace(m, d)
        /\ MPTABLE_START + offset = At(d) /\ checksum = Entered(m, d)
    BY <1>2 DEF MpIInv, MpTypes, Written, Summed
  <2>2. l = Stored(m, At(d), Entry(d))
    BY <2>1 DEF Put
  <2>3. /\ InPlace(l, d + 1)
        /\ Entered(l, d + 1) = (Entered(m, d) + mptable_checksum(Entry(d))) % 256
        /\ \A x \in EBDA_END .. MEM_END - 1 : l[x] = m[x]
    <3> HIDE DEF l, m
    <3>1. QED
      BY <1>2, <2>1, <2>2, PutEntry
  <2>4. /\ At(Done)' = At(d + 1) /\ InPlace(ebda, Done)'
        /\ Entered(ebda, Done)' = Entered(l, d + 1)
    BY <2>3, NextInPlace
  <2>5. MPTABLE_START + offset' = At(d + 1)
    <3>1. num_cpus \in Nat /\ irq0_override \in BOOLEAN /\ cpuid \in CpuIds
          /\ offset \in Nat /\ MPTABLE_START \in Nat
      BY <2>1, MpAssumption DEF MpTypes, MPTABLE_START
    <3>2. IsBytes(Entry(d), Size(d))
      BY <3>1, EntryBytes
    <3>3. offset' = offset + Size(d) /\ Size(d) \in Nat
      BY <3>2, LengthOfBytes DEF Put
    <3>4. d \in Nat
      BY <3>1, Places
    <3>5. At(d + 1) = At(d) + Size(d)
      BY <3>1, <3>4, Places
    <3>6. QED
      BY <2>1, <3>1, <3>3, <3>5
  <2>6. checksum' = Entered(l, d + 1)
    BY <2>1, <2>3 DEF Put
  <2>7. Written'
    BY <2>4, <2>5 DEF Written, MPTABLE_START
  <2>8. Summed'
    BY <2>4, <2>6 DEF Summed
  <2>9. TableInEbda'
    BY <1>1, <1>2, <2>3 DEF MpIInv, TableInEbda
  <2>10. QED
    BY <2>7, <2>8, <2>9
<1>3. CASE ~CpusFit
  BY <1>1, <1>3 DEF TableInEbda
<1>4. QED
  BY <1>1, <1>2, <1>3

\* Parts of the invariant that a step which puts nothing keeps.
LEMMA Rest ==
  ASSUME MpIInv, mp_pc \notin {"mpf", "length", "done"}, mp_pc' \notin {"mpf", "done"},
         UNCHANGED mpInputs, Done' = Done, UNCHANGED <<ebda, offset, checksum>>
  PROVE  (CpusFit => Written /\ Summed)' /\ TableInEbda'
<1>1. CpusFit' = CpusFit /\ old' = old
  BY InputsKept
<1>2. TableInEbda'
  BY <1>1 DEF MpIInv, TableInEbda
<1>3. ASSUME CpusFit
      PROVE  Written' /\ Summed'
  <2>1. PICK d : d = Done
    OBVIOUS
  <2>2. /\ InPlace(ebda', d) /\ MPTABLE_START + offset' = At(d) /\ checksum' = Entered(ebda', d)
    BY <1>3, <2>1 DEF MpIInv, Written, Summed
  <2>3. /\ At(Done)' = At(d) /\ InPlace(ebda, Done)'
        /\ Entered(ebda, Done)' = Entered(ebda', d)
    BY <2>1, <2>2, NextInPlace
  <2>4. QED
    BY <2>2, <2>3 DEF Written, Summed, MPTABLE_START
<1>4. QED
  BY <1>1, <1>2, <1>3

\* At first.
LEMMA MpInitInv == MpInit => MpIInv
<1> SUFFICES ASSUME MpInit
             PROVE  MpIInv
  OBVIOUS
<1>1. num_cpus \in Nat /\ cpuid \in CpuIds /\ irq0_override \in BOOLEAN
  BY MpAssumption DEF MpInit
<1>2. PICK b \in OldBytes : ebda = [x \in Memory |-> b]
  BY DEF MpInit
<1>3. b \in Byte /\ Memory \subseteq Int
  BY MpAssumption DEF Memory
<1>4. IsMemory(ebda, Memory)
  BY <1>2, <1>3 DEF IsMemory
<1>5. MpTypes
  <2>1. 0 \in Byte
    BY DEF Byte
  <2>2. QED
    BY <1>1, <1>4, <2>1 DEF MpTypes, MpInit
<1>6. QED
  BY <1>5 DEF MpIInv, MpInit, Written, Summed, TableInEbda

\* The floating pointer, and a header that is not complete.
LEMMA MpfStep == MpIInv /\ mpf => MpIInv'
<1> SUFFICES ASSUME MpIInv, mpf
             PROVE  MpIInv'
  OBVIOUS
<1> DEFINE s == Negated(mptable_checksum(Mpf(0)))
           u == Mpf(s)
           v == Header(0, 0)
           b == u \o v
<1>1. /\ MpTypes /\ UNCHANGED mpInputs /\ mp_pc = "mpf" /\ mp_pc' = "cpu"
      /\ ebda' = Stored(ebda, EBDA, b) /\ offset' = 60
      /\ checksum' = checksum /\ i' = i /\ checksum = 0 /\ i = 0
  BY DEF MpIInv, MpTypes, mpf, MPTABLE_START, MPF, HEADER
<1>2. IsBytes(u, 16) /\ IsBytes(v, 44) /\ b = Cat(u, v)
  <2>1. 0 \in Byte /\ s \in Byte
    BY MpfSum DEF Byte
  <2>2. QED
    BY <2>1, MpfBytes, HeaderBytes DEF Cat
<1> HIDE DEF u, v, b
<1>3. IsBytes(b, 60) /\ \A k \in 1 .. 16 : b[k] = u[k]
  <2>1. IsBytes(Cat(u, v), 60)
    BY <1>2, JoinedSize
  <2>2. \A k \in 1 .. 16 : Cat(u, v)[k] = u[k]
    BY <1>2, Joined
  <2>3. QED
    BY <1>2, <2>1, <2>2
<1>4. EBDA \in Nat /\ EBDA_END \in Nat /\ MEM_END \in Nat /\ EBDA_END <= MEM_END
  BY MpAssumption
<1>5. IsMemory(ebda, Memory) /\ IsMemory(old, Memory)
  BY <1>1 DEF MpTypes
<1>6. Changed(ebda', ebda, Memory, EBDA, 60, b)
  BY <1>1, <1>3, <1>4, <1>5, StoredBytes
<1>7. MpTypes'
  <2>1. IsMemory(ebda', Memory)
    BY <1>6 DEF Changed
  <2>2. QED
    BY <1>1, <2>1 DEF MpTypes, mpInputs, MPF, HEADER
<1>8. CpusFit' = CpusFit /\ old' = old
  BY <1>1, InputsKept
<1>9. ASSUME CpusFit
      PROVE  Written' /\ Summed' /\ TableInEbda'
  <2>1. Done' = 0
    BY <1>1 DEF Done
  <2>2. EBDA + 60 <= EBDA_END
    BY <1>1, <1>4, <1>9 DEF MpTypes, CpusFit, MPF, HEADER
  <2>3. Holds(ebda', EBDA, u)
    <3>1. ASSUME NEW j \in 1 .. 16
          PROVE  ebda'[EBDA + j - 1] = u[j]
      <4>1. j \in 1 .. 60 /\ EBDA + j - 1 \in Memory
        BY <1>4, <2>2 DEF Memory
      <4>2. QED
        BY <1>3, <1>6, <4>1 DEF Changed
    <3>2. Len(u) = 16
      BY <1>2, LengthOfBytes
    <3>3. QED
      BY <3>1, <3>2 DEF Holds
  <2>4. InPlace(ebda', 0)
    BY <2>3 DEF InPlace, u, MPTABLE_START
  <2>5. /\ At(Done)' = At(0) /\ InPlace(ebda, Done)'
        /\ Entered(ebda, Done)' = Entered(ebda', 0)
    BY <1>1, <2>1, <2>4, NextInPlace
  <2>6. At(0) = EBDA + 60
    BY <1>1, Places DEF MpTypes
  <2>7. Entered(ebda', 0) = 0
    <3>1. At(0) - At(0) = 0
      BY <1>4, <2>6
    <3>2. Len(Load(ebda', At(0), 0)) = 0
      <4>1. Load(ebda', At(0), 0) \in [1 .. 0 -> Byte]
        BY DEF Load
      <4>2. 0 \in Nat
        OBVIOUS
      <4>3. QED
        BY <4>1, <4>2, Sized
    <3>3. csum8(Load(ebda', At(0), 0)) = 0
      BY <3>2 DEF csum8
    <3>4. QED
      BY <3>1, <3>3 DEF Entered, mptable_checksum
  <2>8. Written' /\ Summed'
    BY <1>1, <2>5, <2>6, <2>7 DEF Written, Summed, MPTABLE_START
  <2>9. TableInEbda'
    <3>1. \A x \in EBDA_END .. MEM_END - 1 : x \in Memory /\ EBDA + 60 <= x
      BY <1>4, <2>2 DEF Memory
    <3>2. \A x \in EBDA_END .. MEM_END - 1 : ebda'[x] = ebda[x]
      BY <1>6, <3>1 DEF Changed
    <3>3. QED
      BY <1>8, <1>9, <3>2 DEF MpIInv, TableInEbda
  <2>10. QED
    BY <2>8, <2>9
<1>10. CASE ~CpusFit
  BY <1>7, <1>8, <1>10 DEF MpIInv, TableInEbda
<1>11. QED
  BY <1>7, <1>8, <1>9, <1>10 DEF MpIInv

\* An entry is put.
LEMMA PutKeeps ==
  ASSUME MpIInv, mp_pc \notin {"mpf", "length", "done"}, UNCHANGED mpInputs,
         mp_pc' \in {"cpu", "bus", "ioapic", "intsrc", "lintsrc", "nmi", "length"},
         i' \in Nat, mp_pc' = "cpu" => i' <= num_cpus, mp_pc' = "intsrc" => i' <= 16,
         NEW d \in 0 .. All - 1, Done = d, Done' = d + 1, Put(Entry(d))
  PROVE  MpIInv'
<1>1. MpTypes
  BY DEF MpIInv
<1>2. (CpusFit => Written /\ Summed)' /\ TableInEbda'
  BY PutStep
<1>3. IsBytes(Entry(d), Size(d)) /\ Size(d) \in Nat
  <2>1. num_cpus \in Nat /\ irq0_override \in BOOLEAN /\ cpuid \in CpuIds
    BY <1>1 DEF MpTypes
  <2>2. IsBytes(Entry(d), Size(d))
    BY <2>1, EntryBytes
  <2>3. QED
    BY <2>2, LengthOfBytes
<1>4. /\ IsMemory(ebda', Memory) /\ offset' \in Nat /\ checksum' \in Byte
      /\ offset' = offset + Size(d)
  BY <1>1, <1>3, PutTypes
<1>5. MpTypes'
  BY <1>1, <1>3, <1>4 DEF MpTypes, mpInputs, MPF, HEADER
<1>6. QED
  BY <1>2, <1>5 DEF MpIInv

\* The number of entries.
LEMMA Counts ==
  ASSUME MpTypes
  PROVE  /\ num_cpus \in Nat /\ Irqs \in {15, 16} /\ All = num_cpus + Irqs + 4 /\ Small = Irqs + 4
         /\ All \in Nat
<1>1. num_cpus \in Nat /\ irq0_override \in BOOLEAN
  BY DEF MpTypes
<1>2. QED
  BY <1>1, Places

\* A CPU.
LEMMA CpuStep == MpIInv /\ cpu => MpIInv'
<1> SUFFICES ASSUME MpIInv, cpu
             PROVE  MpIInv'
  OBVIOUS
<1>1. MpTypes /\ UNCHANGED mpInputs /\ mp_pc = "cpu" /\ Done = i
  BY DEF MpIInv, cpu, Done
<1>2. num_cpus \in Nat /\ i \in Nat /\ i <= num_cpus
  BY <1>1 DEF MpTypes
<1>3. CASE i < num_cpus
  <2>1. Put(Cpu(i)) /\ i' = i + 1 /\ mp_pc' = "cpu"
    BY <1>1, <1>3 DEF cpu
  <2>2. Entry(i) = Cpu(i)
    BY <1>3 DEF Entry
  <2>3. i \in 0 .. All - 1 /\ Done' = i + 1
    <3>1. Irqs \in {15, 16} /\ All = num_cpus + Irqs + 4
      BY <1>1, Counts
    <3>2. QED
      BY <1>2, <1>3, <2>1, <3>1 DEF Done
  <2>4. PICK d : d = i
    OBVIOUS
  <2>5. d \in 0 .. All - 1 /\ Done = d /\ Done' = d + 1 /\ Put(Entry(d))
    BY <1>1, <2>1, <2>2, <2>3, <2>4
  <2>6. i' \in Nat /\ i' <= num_cpus
    BY <1>2, <1>3, <2>1
  <2>7. QED
    BY <1>1, <2>1, <2>5, <2>6, PutKeeps
<1>4. CASE ~(i < num_cpus)
  <2>1. mp_pc' = "bus" /\ UNCHANGED <<ebda, offset, checksum, i>> /\ i = num_cpus
    BY <1>1, <1>2, <1>4 DEF cpu
  <2>2. Done' = Done
    BY <1>1, <2>1 DEF Done, mpInputs
  <2>3. (CpusFit => Written /\ Summed)' /\ TableInEbda'
    BY <1>1, <2>1, <2>2, Rest
  <2>4. MpTypes'
    BY <1>1, <2>1 DEF MpTypes, mpInputs
  <2>5. QED
    BY <2>3, <2>4 DEF MpIInv
<1>5. QED
  BY <1>3, <1>4

\* The bus.
LEMMA BusStep == MpIInv /\ bus => MpIInv'
<1> SUFFICES ASSUME MpIInv, bus
             PROVE  MpIInv'
  OBVIOUS
<1>1. /\ MpTypes /\ UNCHANGED mpInputs /\ mp_pc = "bus" /\ mp_pc' = "ioapic"
      /\ Put(Bus) /\ i' = i /\ i \in Nat
  BY DEF MpIInv, MpTypes, bus
<1>2. num_cpus \in Nat /\ Irqs \in {15, 16} /\ All = num_cpus + Irqs + 4
  BY <1>1, Counts
<1>3. num_cpus' = num_cpus /\ Irqs' = Irqs
  BY <1>1 DEF mpInputs, Irqs, Nth
<1> DEFINE k == num_cpus
<1>4. k \in 0 .. All - 1 /\ Done = k /\ Done' = k + 1
  BY <1>1, <1>2, <1>3 DEF Done
<1>5. Entry(k) = Bus
  BY <1>1, <1>2 DEF Entry, SmallEntry
<1> HIDE DEF k
<1>6. PICK d : d = k
  OBVIOUS
<1>7. d \in 0 .. All - 1 /\ Done = d /\ Done' = d + 1 /\ Put(Entry(d))
  BY <1>1, <1>4, <1>5, <1>6
<1>8. i' \in Nat /\ (mp_pc' = "intsrc" => i' <= 16)
  BY <1>1
<1>9. QED
  BY <1>1, <1>7, <1>8, PutKeeps

\* The I/O APIC.
LEMMA IoApicStep == MpIInv /\ ioapic => MpIInv'
<1> SUFFICES ASSUME MpIInv, ioapic
             PROVE  MpIInv'
  OBVIOUS
<1>1. /\ MpTypes /\ UNCHANGED mpInputs /\ mp_pc = "ioapic" /\ mp_pc' = "intsrc"
      /\ Put(IoApic) /\ i' = 0 /\ i \in Nat
  BY DEF MpIInv, MpTypes, ioapic
<1>2. num_cpus \in Nat /\ Irqs \in {15, 16} /\ All = num_cpus + Irqs + 4
  BY <1>1, Counts
<1>3. num_cpus' = num_cpus /\ Irqs' = Irqs
  BY <1>1 DEF mpInputs, Irqs, Nth
<1> DEFINE k == num_cpus + 1
<1>4. k \in 0 .. All - 1 /\ Done = k /\ Done' = k + 1
  BY <1>1, <1>2, <1>3 DEF Done, Nth
<1>5. Entry(k) = IoApic
  BY <1>1, <1>2 DEF Entry, SmallEntry
<1> HIDE DEF k
<1>6. PICK d : d = k
  OBVIOUS
<1>7. d \in 0 .. All - 1 /\ Done = d /\ Done' = d + 1 /\ Put(Entry(d))
  BY <1>1, <1>4, <1>5, <1>6
<1>8. i' \in Nat /\ (mp_pc' = "intsrc" => i' <= 16)
  BY <1>1
<1>9. QED
  BY <1>1, <1>7, <1>8, PutKeeps

\* The local interrupts.
LEMMA ExtIntStep == MpIInv /\ extint => MpIInv'
<1> SUFFICES ASSUME MpIInv, extint
             PROVE  MpIInv'
  OBVIOUS
<1>1. /\ MpTypes /\ UNCHANGED mpInputs /\ mp_pc = "lintsrc" /\ mp_pc' = "nmi"
      /\ Put(ExtInt) /\ i' = i /\ i \in Nat
  BY DEF MpIInv, MpTypes, extint
<1>2. num_cpus \in Nat /\ Irqs \in {15, 16} /\ All = num_cpus + Irqs + 4
  BY <1>1, Counts
<1>3. num_cpus' = num_cpus /\ Irqs' = Irqs
  BY <1>1 DEF mpInputs, Irqs, Nth
<1> DEFINE k == num_cpus + 2 + Irqs
<1>4. k \in 0 .. All - 1 /\ Done = k /\ Done' = k + 1
  BY <1>1, <1>2, <1>3 DEF Done
<1>5. Entry(k) = ExtInt
  BY <1>1, <1>2 DEF Entry, SmallEntry
<1> HIDE DEF k
<1>6. PICK d : d = k
  OBVIOUS
<1>7. d \in 0 .. All - 1 /\ Done = d /\ Done' = d + 1 /\ Put(Entry(d))
  BY <1>1, <1>4, <1>5, <1>6
<1>8. i' \in Nat /\ (mp_pc' = "intsrc" => i' <= 16)
  BY <1>1
<1>9. QED
  BY <1>1, <1>7, <1>8, PutKeeps

\* The other one.
LEMMA NmiStep == MpIInv /\ nmi => MpIInv'
<1> SUFFICES ASSUME MpIInv, nmi
             PROVE  MpIInv'
  OBVIOUS
<1>1. /\ MpTypes /\ UNCHANGED mpInputs /\ mp_pc = "nmi" /\ mp_pc' = "length"
      /\ Put(Nmi) /\ i' = i /\ i \in Nat
  BY DEF MpIInv, MpTypes, nmi
<1>2. num_cpus \in Nat /\ Irqs \in {15, 16} /\ All = num_cpus + Irqs + 4
  BY <1>1, Counts
<1>3. All' = All
  BY <1>1, InputsKept
<1> DEFINE k == num_cpus + 3 + Irqs
<1>4. k \in 0 .. All - 1 /\ Done = k /\ Done' = k + 1
  BY <1>1, <1>2, <1>3 DEF Done
<1>5. Entry(k) = Nmi
  BY <1>1, <1>2 DEF Entry, SmallEntry
<1> HIDE DEF k
<1>6. PICK d : d = k
  OBVIOUS
<1>7. d \in 0 .. All - 1 /\ Done = d /\ Done' = d + 1 /\ Put(Entry(d))
  BY <1>1, <1>4, <1>5, <1>6
<1>8. i' \in Nat /\ (mp_pc' = "intsrc" => i' <= 16)
  BY <1>1
<1>9. QED
  BY <1>1, <1>7, <1>8, PutKeeps

\* An interrupt: IRQ 2 may be written and forgotten.
LEMMA IntsrcStep == MpIInv /\ intsrc => MpIInv'
<1> SUFFICES ASSUME MpIInv, intsrc
             PROVE  MpIInv'
  OBVIOUS
<1>1. /\ MpTypes /\ UNCHANGED mpInputs /\ mp_pc = "intsrc"
      /\ i \in 0 .. 16 /\ irq0_override \in BOOLEAN /\ cpuid \in CpuIds
  BY DEF MpIInv, MpTypes, intsrc
<1>2. num_cpus \in Nat /\ Irqs \in {15, 16} /\ All = num_cpus + Irqs + 4
  BY <1>1, Counts
<1>3. num_cpus' = num_cpus /\ Irqs' = Irqs /\ \A n : Nth(n)' = Nth(n)
  BY <1>1 DEF mpInputs, Irqs, Nth
<1>4. Done = num_cpus + 2 + Nth(i)
  BY <1>1 DEF Done
<1>5. CASE i = 16
  <2>1. mp_pc' = "lintsrc" /\ UNCHANGED <<ebda, offset, checksum, i>>
    BY <1>1, <1>5 DEF intsrc
  <2>2. Done' = Done
    BY <1>1, <1>3, <1>4, <1>5, <2>1 DEF Done, Irqs
  <2>3. (CpusFit => Written /\ Summed)' /\ TableInEbda'
    BY <1>1, <2>1, <2>2, Rest
  <2>4. MpTypes'
    BY <1>1, <2>1 DEF MpTypes, mpInputs
  <2>5. QED
    BY <2>3, <2>4 DEF MpIInv
<1>6. CASE i < 16 /\ ~Skipped(i)
  <2>1. Put(Intsrc(i)) /\ i' = i + 1 /\ mp_pc' = "intsrc"
    BY <1>1, <1>6 DEF intsrc
  <2>2. Nth(i) \in 0 .. Irqs - 1 /\ Irq(Nth(i)) = i /\ Nth(i + 1) = Nth(i) + 1
    BY <1>1, <1>6, Interrupts
  <2> DEFINE k == num_cpus + 2 + Nth(i)
  <2>3. k \in 0 .. All - 1
    BY <1>2, <2>2
  <2>4. Done' = k + 1
    <3>1. Done' = num_cpus + 2 + Nth(i + 1)
      <4>1. Done' = num_cpus' + 2 + (IF irq0_override' /\ i' > 2 THEN i' - 1 ELSE i')
        BY <2>1 DEF Done, Nth
      <4>2. QED
        BY <1>1, <2>1, <4>1 DEF Nth, mpInputs
    <3>2. QED
      BY <1>2, <2>2, <3>1
  <2>5. Entry(k) = Intsrc(i)
    <3>1. ~(k < num_cpus) /\ k - num_cpus = 2 + Nth(i) /\ 2 + Nth(i) \in 2 .. Irqs + 1
          /\ (2 + Nth(i)) - 2 = Nth(i) /\ 2 + Nth(i) # 0 /\ 2 + Nth(i) # 1
      BY <1>2, <2>2
    <3>2. Entry(k) = SmallEntry(2 + Nth(i))
      BY <3>1 DEF Entry
    <3>3. SmallEntry(2 + Nth(i)) = Intsrc(Irq((2 + Nth(i)) - 2))
      BY <1>2, <3>1 DEF SmallEntry
    <3>4. QED
      BY <2>2, <3>1, <3>2, <3>3
  <2> HIDE DEF k
  <2>6. PICK d : d = k
    OBVIOUS
  <2>7. d \in 0 .. All - 1 /\ Done = d /\ Done' = d + 1 /\ Put(Entry(d))
    BY <1>4, <2>1, <2>3, <2>4, <2>5, <2>6 DEF k
  <2>8. i' \in Nat /\ i' <= 16
    BY <1>1, <1>6, <2>1
  <2>9. QED
    BY <1>1, <2>1, <2>7, <2>8, PutKeeps
<1>7. CASE i < 16 /\ Skipped(i)
  <2> DEFINE a == EBDA + offset
             b == Intsrc(i)
  <2>1. /\ ebda' = Stored(ebda, a, b) /\ i' = i + 1
        /\ offset' = offset /\ checksum' = checksum /\ mp_pc' = "intsrc"
    BY <1>1, <1>7 DEF intsrc, MPTABLE_START
  <2>2. Nth(i + 1) = Nth(i) /\ Nth(i) = 2
    BY <1>1, <1>7, Interrupts
  <2>3. IsBytes(b, 8)
    BY <1>1, <1>2, <1>7, IntsrcBytes
  <2>4. EBDA \in Nat /\ EBDA_END \in Nat /\ MEM_END \in Nat /\ EBDA_END <= MEM_END
    BY MpAssumption
  <2>5. IsMemory(ebda, Memory) /\ a \in Int
    BY <1>1, <2>4 DEF MpTypes
  <2>6. Changed(ebda', ebda, Memory, a, 8, b)
    <3> HIDE DEF a, b
    <3>1. QED
      BY <2>1, <2>3, <2>5, StoredBytes
  <2> HIDE DEF a, b
  <2>7. MpTypes'
    <3>1. IsMemory(ebda', Memory)
      BY <2>6 DEF Changed
    <3>2. i' \in Nat /\ i' <= 16
      BY <1>1, <1>7, <2>1
    <3>3. QED
      BY <1>1, <2>1, <3>1, <3>2 DEF MpTypes, mpInputs
  <2>8. CpusFit' = CpusFit /\ old' = old
    BY <1>1, InputsKept
  <2>9. ASSUME CpusFit
        PROVE  Written' /\ Summed' /\ TableInEbda'
    <3> DEFINE c == num_cpus + 4
    <3>1. Done = c /\ c \in 0 .. All - 1 /\ c + 1 <= All
      BY <1>2, <1>4, <2>2
    <3>2. Done' = c
      <4>1. Done' = num_cpus' + 2 + (IF irq0_override' /\ i' > 2 THEN i' - 1 ELSE i')
        BY <2>1 DEF Done, Nth
      <4>2. Done' = num_cpus + 2 + Nth(i + 1)
        BY <1>1, <2>1, <4>1 DEF Nth, mpInputs
      <4>3. QED
        BY <1>2, <2>2, <4>2
    <3> HIDE DEF c
    <3>3. a = At(c) /\ InPlace(ebda, c) /\ checksum = Entered(ebda, c)
      BY <1>1, <2>9, <3>1 DEF MpIInv, Written, Summed, a, MPTABLE_START
    <3>4. PICK d : d = c
      OBVIOUS
    <3>5. InPlace(ebda', d) /\ Entered(ebda', d) = Entered(ebda, d) /\ TableInEbda'
      <4>1. At(c) \in Nat /\ At(c) + 8 <= EBDA_END
        <5>1. /\ All \in Nat /\ c \in Nat /\ c < All /\ ~(c < num_cpus)
              /\ irq0_override \in BOOLEAN
          BY <1>1, <1>2, <3>1 DEF c
        <5>2. /\ At(c) \in Nat /\ At(c) + Size(c) <= At(All)
              /\ At(All) \in Nat /\ At(All) <= EBDA_END
          BY <1>2, <2>9, <5>1, Places
        <5>3. Size(c) = 8
          BY <5>1 DEF Size
        <5>4. QED
          BY <2>4, <5>2, <5>3
      <4>2. EBDA .. a - 1 \subseteq Memory
        BY <2>4, <3>3, <4>1 DEF Memory
      <4>3. \A x \in EBDA .. a - 1 : ebda'[x] = ebda[x]
        BY <2>4, <2>6, <3>3, <4>1, <4>2 DEF Changed
      <4>4. d \in 0 .. All /\ \A x \in EBDA .. At(d) - 1 : ebda'[x] = ebda[x]
        BY <1>2, <3>1, <3>3, <3>4, <4>3
      <4>5. InPlace(ebda', d) /\ Entered(ebda', d) = Entered(ebda, d)
        <5>1. InPlace(ebda, d)
          BY <3>3, <3>4
        <5>2. QED
          BY <1>1, <4>4, <5>1, KeptBelow
      <4>6. \A x \in EBDA_END .. MEM_END - 1 : x \in Memory /\ a + 8 <= x
        BY <2>4, <3>3, <4>1, MpAssumption DEF Memory
      <4>7. \A x \in EBDA_END .. MEM_END - 1 : ebda'[x] = ebda[x]
        BY <2>6, <4>6 DEF Changed
      <4>8. TableInEbda'
        BY <2>8, <2>9, <4>7 DEF MpIInv, TableInEbda
      <4>9. QED
        BY <4>5, <4>8
    <3>6. /\ At(Done)' = At(c) /\ InPlace(ebda, Done)'
          /\ Entered(ebda, Done)' = Entered(ebda', c)
      BY <1>1, <3>2, <3>4, <3>5, NextInPlace
    <3>7. QED
      BY <1>1, <2>1, <3>3, <3>4, <3>5, <3>6 DEF Written, Summed, a, MPTABLE_START
  <2>10. CASE ~CpusFit
    BY <2>7, <2>8, <2>10 DEF MpIInv, TableInEbda
  <2>11. QED
    BY <2>7, <2>8, <2>9, <2>10 DEF MpIInv
<1>8. QED
  BY <1>1, <1>5, <1>6, <1>7

\* The header, whose share of the sum comes last.
LEMMA FinishStep == MpIInv /\ finish => MpIInv'
<1> SUFFICES ASSUME MpIInv, finish
             PROVE  MpIInv'
  OBVIOUS
<1> DEFINE s == Negated(checksum')
           b == Header(TableLength, s)
           a == EBDA + 16
<1>1. /\ MpTypes /\ UNCHANGED mpInputs /\ mp_pc = "length" /\ mp_pc' = "done"
      /\ checksum' = (checksum + HeaderSum) % 256
      /\ ebda' = Stored(ebda, a, b) /\ offset' = offset /\ i' = i
  BY DEF MpIInv, finish, MPTABLE_START, MPF
<1>2. EBDA \in Nat /\ EBDA_END \in Nat /\ MEM_END \in Nat /\ EBDA <= EBDA_END /\ EBDA_END <= MEM_END
  BY MpAssumption
<1>3. checksum' \in Byte
  <2>1. TableLength \in Nat /\ 0 \in Byte
    BY <1>1 DEF MpTypes, TableLength, MPF, HEADER, Byte
  <2>2. HeaderSum \in Byte
    BY <2>1, HeaderBytes, SumType DEF HeaderSum, mptable_checksum
  <2>3. checksum + HeaderSum \in Int
    BY <1>1, <2>2 DEF MpTypes, Byte
  <2>4. QED
    BY <1>1, <2>3, LowByte
<1>4. IsBytes(b, 44)
  <2>1. s \in Byte
    <3>1. 0 - checksum' \in Int
      BY <1>3 DEF Byte
    <3>2. QED
      BY <3>1, LowByte DEF Negated
  <2>2. TableLength \in Nat
    BY <1>1 DEF MpTypes, TableLength, MPF, HEADER
  <2> HIDE DEF s
  <2>3. QED
    BY <2>1, <2>2, HeaderBytes
<1>5. IsMemory(ebda, Memory) /\ a \in Int
  BY <1>1, <1>2 DEF MpTypes
<1> HIDE DEF b, s, a
<1>6. Changed(ebda', ebda, Memory, a, 44, b)
  BY <1>1, <1>4, <1>5, StoredBytes
<1>7. MpTypes'
  <2>1. IsMemory(ebda', Memory)
    BY <1>6 DEF Changed
  <2>2. QED
    BY <1>1, <1>3, <2>1 DEF MpTypes, mpInputs
<1>8. CpusFit' = CpusFit /\ old' = old /\ All' = All
  BY <1>1, InputsKept
<1>9. ASSUME CpusFit
      PROVE  Written' /\ Summed' /\ TableInEbda'
  <2>1. Done = All /\ Done' = All
    BY <1>1, <1>8 DEF Done
  <2>2. MPTABLE_START + offset = At(All) /\ InPlace(ebda, All) /\ checksum = Entered(ebda, All)
    BY <1>1, <1>9, <2>1 DEF MpIInv, Written, Summed
  <2>3. All \in Nat /\ num_cpus \in Nat /\ irq0_override \in BOOLEAN /\ cpuid \in CpuIds
    BY <1>1, Counts DEF MpTypes
  <2>4. /\ At(0) = EBDA + 60 /\ a + 44 = At(0) /\ At(0) <= At(All)
        /\ At(All) \in Nat /\ At(All) <= EBDA_END
    BY <1>2, <1>9, <2>3, Places DEF a
  <2>5. Holds(ebda', a, b)
    <3>1. a .. a + 44 - 1 \subseteq Memory
      BY <1>2, <2>4 DEF Memory, a
    <3>2. Holds(Stored(ebda, a, b), a, b)
      BY <1>4, <1>5, <3>1, StoredHolds
    <3>3. QED
      BY <1>1, <3>2
  <2>6. ASSUME NEW x \in Memory, x < a \/ At(0) <= x
        PROVE  ebda'[x] = ebda[x]
    <3>1. x < a \/ a + 44 <= x
      BY <2>4, <2>6
    <3>2. QED
      BY <1>6, <3>1 DEF Changed
  <2>7. InPlace(ebda', All)
    <3>1. ASSUME NEW k \in 0 .. All - 1
          PROVE  Holds(ebda', At(k), Entry(k))
      <4>1. k \in Nat /\ k < All
        BY <2>3
      <4>2. IsBytes(Entry(k), Size(k)) /\ Holds(ebda, At(k), Entry(k))
        BY <2>2, <2>3, EntryBytes DEF InPlace
      <4>3. At(k) \in Nat /\ Size(k) \in {8, 20} /\ At(0) <= At(k) /\ At(k) + Size(k) <= At(All)
        BY <2>3, <4>1, Places
      <4>4. At(k) \in Int /\ \A x \in At(k) .. At(k) + Size(k) - 1 : x \in Memory /\ At(0) <= x
        BY <1>2, <2>4, <4>3 DEF Memory
      <4>5. QED
        BY <2>6, <4>2, <4>4, HoldsKept
    <3>2. Holds(ebda', MPTABLE_START, Mpf(Negated(mptable_checksum(Mpf(0)))))
      <4> DEFINE t == Negated(mptable_checksum(Mpf(0)))
      <4>1. t \in Byte
        BY MpfSum
      <4> HIDE DEF t
      <4>2. IsBytes(Mpf(t), 16) /\ Holds(ebda, MPTABLE_START, Mpf(t))
        BY <2>2, <4>1, MpfBytes DEF InPlace, t
      <4>3. MPTABLE_START \in Int
            /\ \A x \in MPTABLE_START .. MPTABLE_START + 16 - 1 : x \in Memory /\ x < a
        BY <1>2, <2>4 DEF MPTABLE_START, Memory, a
      <4>4. Holds(ebda', MPTABLE_START, Mpf(t))
        BY <2>6, <4>2, <4>3, HoldsKept
      <4>5. QED
        BY <4>4 DEF t
    <3>3. QED
      BY <3>1, <3>2 DEF InPlace
  <2>8. Entered(ebda', All) = Entered(ebda, All)
    <3> DEFINE o == At(0)
               c == At(All) - o
    <3>1. o \in Int /\ c \in Nat /\ \A x \in o .. o + c - 1 : x \in Memory /\ At(0) <= x
      BY <1>2, <2>4 DEF Memory
    <3> HIDE DEF o, c
    <3>2. Load(ebda', o, c) = Load(ebda, o, c)
      BY <2>6, <3>1, LoadKept
    <3>3. QED
      BY <3>2 DEF Entered, o, c
  <2>9. PICK d : d = All
    OBVIOUS
  <2>10. /\ At(Done)' = At(d) /\ InPlace(ebda, Done)'
         /\ Entered(ebda, Done)' = Entered(ebda', d)
    <3>1. Done' = d /\ InPlace(ebda', d)
      BY <2>1, <2>7, <2>9
    <3>2. QED
      BY <1>1, <3>1, NextInPlace
  <2>11. Written'
    BY <1>1, <2>2, <2>9, <2>10 DEF Written, MPTABLE_START
  <2>12. TableLength' = TableLength /\ HeaderSum' = HeaderSum
    <3>1. TableLength' = TableLength
      BY <1>1 DEF TableLength
    <3>2. QED
      BY <3>1 DEF HeaderSum
  <2>13. Holds(ebda', MPTABLE_START + MPF, Header(TableLength', Negated(checksum')))
    BY <2>5, <2>12 DEF a, b, s, MPTABLE_START, MPF
  <2>14. Summed'
    BY <1>1, <2>2, <2>8, <2>9, <2>10, <2>12, <2>13, ZenonT(60) DEF Summed, Holds, Header
  <2>15. TableInEbda'
    <3>1. \A x \in EBDA_END .. MEM_END - 1 : x \in Memory /\ At(0) <= x
      BY <1>2, <2>4 DEF Memory
    <3>2. \A x \in EBDA_END .. MEM_END - 1 : ebda'[x] = ebda[x]
      BY <2>6, <3>1
    <3>3. QED
      BY <1>8, <1>9, <3>2 DEF MpIInv, TableInEbda
  <2>16. QED
    BY <2>11, <2>14, <2>15
<1>10. CASE ~CpusFit
  BY <1>7, <1>8, <1>10 DEF MpIInv, TableInEbda
<1>11. QED
  BY <1>7, <1>8, <1>9, <1>10 DEF MpIInv

\* Nothing of it changes.
LEMMA MpStutter == MpIInv /\ UNCHANGED mpVars => MpIInv'
<1> SUFFICES ASSUME MpIInv, UNCHANGED mpVars
             PROVE  MpIInv'
  OBVIOUS
<1>1. /\ UNCHANGED mpInputs /\ num_cpus' = num_cpus /\ irq0_override' = irq0_override
      /\ cpuid' = cpuid /\ old' = old /\ ebda' = ebda /\ offset' = offset
      /\ checksum' = checksum /\ i' = i /\ mp_pc' = mp_pc
  BY DEF mpVars, mpInputs
<1>2. Done' = Done /\ Irqs' = Irqs /\ All' = All
  BY <1>1 DEF Done, All, Small, Irqs, Nth
<1>3. MpTypes'
  BY <1>1 DEF MpIInv, MpTypes
<1>4. CpusFit' = CpusFit /\ TableInEbda'
  BY <1>1 DEF MpIInv, CpusFit, TableInEbda
<1>5. ASSUME CpusFit
      PROVE  Written' /\ Summed'
  <2>1. PICK d : d = Done
    OBVIOUS
  <2>2. /\ mp_pc # "mpf" => MPTABLE_START + offset = At(d) /\ InPlace(ebda', d)
        /\ At(Done)' = At(d) /\ (InPlace(ebda', d) => InPlace(ebda, Done)')
        /\ Entered(ebda, Done)' = Entered(ebda, d)
    BY <1>1, <1>2, <1>5, <2>1, NextInPlace DEF MpIInv, Written
  <2>3. Written'
    BY <1>1, <2>2 DEF Written, MPTABLE_START
  <2>4. TableLength' = TableLength /\ HeaderSum' = HeaderSum
    <3>1. TableLength' = TableLength
      BY <1>1 DEF TableLength
    <3>2. QED
      BY <3>1 DEF HeaderSum
  <2>5. mp_pc' = "done" => /\ checksum' = (Entered(ebda, d) + HeaderSum') % 256
                           /\ Holds(ebda', MPTABLE_START + MPF, Header(TableLength', Negated(checksum')))
    BY <1>1, <1>5, <2>1, <2>4 DEF MpIInv, Summed
  <2>6. mp_pc' \notin {"mpf", "done"} => checksum' = Entered(ebda, d)
    BY <1>1, <1>5, <2>1 DEF MpIInv, Summed
  <2>7. Summed'
    BY <1>1, <2>2, <2>5, <2>6, ZenonT(60) DEF Summed, Holds, Header
  <2>8. QED
    BY <2>3, <2>7
<1>6. QED
  BY <1>3, <1>4, <1>5 DEF MpIInv

\* The MP table is written entry by entry, each in its place and none outside
\* the EBDA, and checksum is at all times the sum of those written.
THEOREM MpInvariant == Spec => []MpIInv
<1>1. Init => MpIInv
  BY MpInitInv DEF Init
<1>2. MpIInv /\ [Next]_vars => MpIInv'
  <2> SUFFICES ASSUME MpIInv, [Next]_vars
               PROVE  MpIInv'
    OBVIOUS
  <2>1. CASE setup_mptable
    BY <2>1, MpfStep, CpuStep, BusStep, IoApicStep, IntsrcStep, ExtIntStep, NmiStep, FinishStep
       DEF setup_mptable, MpNext
  <2>2. CASE UNCHANGED mpVars
    BY <2>2, MpStutter
  <2>3. QED
    BY <2>1, <2>2 DEF Next, extract_smbios, Finished, vars
<1>3. QED
  BY <1>1, <1>2, PTL DEF Spec

\* setup_mptable never looks at the end of the EBDA: for every machine whose
\* structures fit there, and whatever memory held, it writes nothing past it.
THEOREM MpTableInEbda == Spec => []TableInEbda
<1>1. MpIInv => TableInEbda
  BY DEF MpIInv
<1>2. QED
  BY <1>1, MpInvariant, PTL

-----------------------------------------------------------------------------
(* What is in the EBDA in the end.                                         *)

\* A number whose negative is added comes to zero.
LEMMA Cancelled ==
  /\ \A a \in Byte : (a + (((0 - a) % 256) - 0)) % 256 = 0
  /\ \A a, b \in Byte :
       LET c == (a + b) % 256 IN (((b + (((0 - c) % 256) - 0)) % 256) + a) % 256 = 0
BY DEF Byte

\* What is in memory when setup_mptable is done.
LEMMA Finally ==
  ASSUME MpIInv, CpusFit, mp_pc = "done"
  PROVE  /\ MpTypes /\ EBDA \in Nat /\ All \in Nat
         /\ At(0) = EBDA + 60 /\ At(0) <= At(All) /\ At(All) <= EBDA_END /\ At(All) \in Nat
         /\ EBDA + offset = At(All) /\ TableLength = At(All) - (EBDA + 16)
         /\ InPlace(ebda, All) /\ checksum = (Entered(ebda, All) + HeaderSum) % 256
         /\ Holds(ebda, EBDA + 16, Header(TableLength, Negated(checksum)))
<1>1. MpTypes /\ EBDA \in Nat
  BY MpAssumption DEF MpIInv
<1>2. num_cpus \in Nat /\ irq0_override \in BOOLEAN /\ offset \in Nat
  BY <1>1 DEF MpTypes
<1>3. All \in Nat
  BY <1>2, Places
<1>4. Done = All
  BY DEF Done
<1>5. /\ MPTABLE_START + offset = At(All) /\ InPlace(ebda, All)
      /\ checksum = (Entered(ebda, All) + HeaderSum) % 256
      /\ Holds(ebda, MPTABLE_START + MPF, Header(TableLength, Negated(checksum)))
  BY <1>4 DEF MpIInv, Written, Summed
<1>6. At(0) = EBDA + 60 /\ At(0) <= At(All) /\ At(All) <= EBDA_END /\ At(All) \in Nat
  BY <1>2, <1>3, Places
<1>7. TableLength = At(All) - (EBDA + 16)
  BY <1>1, <1>2, <1>5 DEF TableLength, MPF, MPTABLE_START
<1>8. EBDA + offset = At(All) /\ Holds(ebda, EBDA + 16, Header(TableLength, Negated(checksum)))
  BY <1>5 DEF MPTABLE_START, MPF
<1>9. QED
  BY <1>1, <1>3, <1>5, <1>6, <1>7, <1>8

\* The checksum fields are bytes.
LEMMA NegatedByte == ASSUME NEW x \in Byte PROVE Negated(x) \in Byte
<1>1. 0 - x \in Int
  BY DEF Byte
<1>2. QED
  BY <1>1, LowByte DEF Negated

\* A kernel finds the table, and its end behind the last entry.
LEMMA TableFound ==
  ASSUME MpIInv, CpusFit, mp_pc = "done"
  PROVE  TableAddr = EBDA + 16 /\ TableEnd = At(All)
<1>1. /\ MpTypes /\ EBDA \in Nat /\ All \in Nat
      /\ At(0) = EBDA + 60 /\ At(0) <= At(All) /\ At(All) <= EBDA_END /\ At(All) \in Nat
      /\ TableLength = At(All) - (EBDA + 16) /\ InPlace(ebda, All)
      /\ Holds(ebda, EBDA + 16, Header(TableLength, Negated(checksum)))
  BY Finally
<1>2. EBDA_END \in Nat /\ EBDA_END <= EBDA + 1024 /\ EBDA_END <= 16 * 65536
  <2>1. EBDA_END \in Nat /\ EBDA_END <= EBDA + 1024 /\ EBDA_END <= MEM_END /\ MEM_END \in Nat
        /\ MEM_END <= 16 * 65536
    BY SMT, MpAssumption
  <2>2. QED
    BY <2>1
<1>3. TableAddr = EBDA + 16
  <2> DEFINE s == Negated(mptable_checksum(Mpf(0)))
             v == EBDA + 16
  <2>1. s \in Byte
    BY MpfSum
  <2> HIDE DEF s
  <2>2. IsBytes(Mpf(s), 16) /\ \A k \in 1 .. 4 : Mpf(s)[4 + k] = LE(v, 4)[k]
    BY <2>1, MpfBytes DEF MPTABLE_START, MPF
  <2>3. Holds(ebda, EBDA, Mpf(s)) /\ Len(Mpf(s)) = 16
    BY <1>1, <2>2, LengthOfBytes DEF InPlace, MPTABLE_START, s
  <2>4. ASSUME NEW k \in 1 .. 4
        PROVE  ebda[EBDA + 4 + k - 1] = (v \div Place[k]) % 256
    <3>1. 4 + k \in 1 .. 16 /\ EBDA + (4 + k) - 1 = EBDA + 4 + k - 1
      BY <1>1
    <3>2. ebda[EBDA + (4 + k) - 1] = Mpf(s)[4 + k]
      BY <2>3, <3>1 DEF Holds
    <3>3. v \in Nat
      BY <1>1
    <3>4. LE(v, 4)[k] = (v \div Place[k]) % 256
      BY <3>3, LEBytes
    <3>5. QED
      BY <2>2, <3>1, <3>2, <3>4
  <2>5. PICK top : top = Place[4]
    OBVIOUS
  <2>6. v \in Nat /\ v < 256 * 65536 /\ top \in Nat /\ v < top
    <3>1. v \in Nat /\ v <= 16 * 65536
      BY <1>1, <1>2
    <3>2. top = 256 * 65536
      BY SMT, <2>5 DEF Place
    <3>3. QED
      BY <3>1, <3>2
  <2>7. Place[1] = 1 /\ Place[2] = 256 /\ Place[3] = 65536
    BY SMT DEF Place
  <2>8. /\ ebda[EBDA + 4] = (v \div 1) % 256 /\ ebda[EBDA + 4 + 1] = (v \div 256) % 256
        /\ ebda[EBDA + 4 + 2] = (v \div 65536) % 256 /\ ebda[EBDA + 4 + 2 + 1] = (v \div top) % 256
    <3>1. /\ EBDA + 4 + 1 - 1 = EBDA + 4 /\ EBDA + 4 + 2 - 1 = EBDA + 4 + 1
          /\ EBDA + 4 + 3 - 1 = EBDA + 4 + 2 /\ EBDA + 4 + 4 - 1 = EBDA + 4 + 2 + 1
      BY <1>1
    <3>2. 1 \in 1 .. 4 /\ 2 \in 1 .. 4 /\ 3 \in 1 .. 4 /\ 4 \in 1 .. 4
      OBVIOUS
    <3> HIDE DEF v
    <3>3. QED
      BY <2>4, <2>5, <2>7, <3>1, <3>2
  <2> HIDE DEF v
  <2>9. TableAddr = v
    <3>1. TableAddr = ((v \div 1) % 256) + 256 * ((v \div 256) % 256)
                        + 65536 * (((v \div 65536) % 256) + 256 * ((v \div top) % 256))
      BY <2>8 DEF TableAddr, Word, Half, MPTABLE_START
    <3>2. QED
      BY <2>6, <3>1, FourBytes
  <2>10. QED
    BY <2>9 DEF v
<1>4. Half(ebda, EBDA + 16 + 4) = TableLength
  <2> DEFINE s == Negated(checksum)
             v == TableLength
             a == EBDA + 16
  <2>1. s \in Byte
    BY <1>1, NegatedByte DEF MpTypes
  <2>2. v \in Nat /\ v < 65536 /\ a \in Nat
    BY <1>1, <1>2
  <2> HIDE DEF s, v, a
  <2>3. IsBytes(Header(v, s), 44) /\ \A k \in 1 .. 2 : Header(v, s)[4 + k] = LE(v, 2)[k]
    BY <2>1, <2>2, HeaderBytes
  <2>4. Holds(ebda, a, Header(v, s)) /\ Len(Header(v, s)) = 44
    BY <1>1, <2>3, LengthOfBytes DEF s, v, a
  <2>5. ASSUME NEW k \in 1 .. 2
        PROVE  ebda[a + 4 + k - 1] = (v \div Place[k]) % 256
    <3>1. 4 + k \in 1 .. 44 /\ a + (4 + k) - 1 = a + 4 + k - 1
      BY <2>2
    <3>2. ebda[a + (4 + k) - 1] = Header(v, s)[4 + k]
      BY <2>4, <3>1 DEF Holds
    <3>3. LE(v, 2)[k] = (v \div Place[k]) % 256
      BY <2>2, LEBytes
    <3>4. QED
      BY <2>3, <3>1, <3>2, <3>3
  <2>6. Place[1] = 1 /\ Place[2] = 256
    BY SMT DEF Place
  <2>7. ebda[a + 4] = (v \div 1) % 256 /\ ebda[a + 4 + 1] = (v \div 256) % 256
    <3>1. a + 4 + 1 - 1 = a + 4 /\ a + 4 + 2 - 1 = a + 4 + 1 /\ 1 \in 1 .. 2 /\ 2 \in 1 .. 2
      BY <2>2
    <3>2. QED
      BY <2>5, <2>6, <3>1
  <2>8. Half(ebda, a + 4) = v
    BY <2>2, <2>7, TwoBytes DEF Half
  <2>9. QED
    BY <2>8 DEF v, a
<1>5. QED
  BY <1>1, <1>3, <1>4 DEF TableEnd

\* Its checksums.
LEMMA Sums ==
  ASSUME MpIInv, CpusFit, mp_pc = "done"
  PROVE  /\ mptable_checksum(Load(ebda, MPTABLE_START, MPF)) = 0
         /\ mptable_checksum(Load(ebda, TableAddr, TableEnd - TableAddr)) = 0
<1>1. /\ MpTypes /\ EBDA \in Nat /\ All \in Nat
      /\ At(0) = EBDA + 60 /\ At(0) <= At(All) /\ At(All) <= EBDA_END /\ At(All) \in Nat
      /\ TableLength = At(All) - (EBDA + 16) /\ InPlace(ebda, All)
      /\ checksum = (Entered(ebda, All) + HeaderSum) % 256
      /\ Holds(ebda, EBDA + 16, Header(TableLength, Negated(checksum)))
  BY Finally
<1>2. EBDA_END \in Nat /\ MEM_END \in Nat /\ EBDA_END <= MEM_END
  BY MpAssumption
<1>3. mptable_checksum(Load(ebda, MPTABLE_START, MPF)) = 0
  <2> DEFINE c == mptable_checksum(Mpf(0))
             s == Negated(c)
             u == Mpf(0)
             v == Mpf(s)
  <2>1. s \in Byte /\ c \in Byte /\ 0 \in Byte
    BY MpfSum DEF Byte
  <2>2. Holds(ebda, EBDA, v)
    BY <1>1 DEF InPlace, MPTABLE_START
  <2> HIDE DEF c, s
  <2>3. /\ IsBytes(v, 16) /\ v[11] = s /\ IsBytes(u, 16) /\ u[11] = 0
        /\ \A k \in (1 .. 16) \ {11} : v[k] = u[k]
    BY <2>1, MpfBytes
  <2> HIDE DEF u, v
  <2>4. csum8(v) = (csum8(u) + (v[11] - u[11])) % 256
    <3>1. 11 \in 1 .. 16
      OBVIOUS
    <3>2. QED
      BY <2>3, <3>1, SumChange
  <2>5. csum8(u) = c /\ s = (0 - c) % 256
    BY DEF u, c, s, mptable_checksum, Negated
  <2>6. csum8(v) = 0
    BY <2>1, <2>3, <2>4, <2>5, Cancelled
  <2>7. Load(ebda, EBDA, 16) = v
    BY <1>1, <2>2, <2>3, LoadHolds
  <2>8. QED
    BY <2>6, <2>7 DEF mptable_checksum, MPTABLE_START, MPF
<1>4. mptable_checksum(Load(ebda, TableAddr, TableEnd - TableAddr)) = 0
  <2> DEFINE s == Negated(checksum)
             n == TableLength
             u == Header(n, 0)
             v == Header(n, s)
             a == EBDA + 16
             k == At(All) - At(0)
             w == Load(ebda, At(0), k)
  <2>1. checksum \in Byte /\ s \in Byte /\ 0 \in Byte
    <3>1. checksum \in Byte /\ s \in Byte
      BY <1>1, NegatedByte DEF MpTypes
    <3>2. QED
      BY <3>1 DEF Byte
  <2>2. n \in Nat /\ a \in Nat /\ k \in Nat /\ n = 44 + k /\ a + 44 = At(0)
    BY <1>1
  <2>3. Holds(ebda, a, v)
    BY <1>1
  <2>4. a .. a + 44 + k - 1 \subseteq Memory /\ At(0) .. At(0) + k - 1 \subseteq Memory
    BY <1>1, <1>2 DEF Memory
  <2>5. IsMemory(ebda, Memory) /\ At(0) \in Int
    BY <1>1 DEF MpTypes
  <2>6. TableAddr = a /\ TableEnd - TableAddr = n
    BY <1>1, TableFound
  <2> HIDE DEF s, n, k, a
  <2>7. /\ IsBytes(v, 44) /\ v[8] = s /\ IsBytes(u, 44) /\ u[8] = 0
        /\ \A j \in (1 .. 44) \ {8} : v[j] = u[j]
    BY <2>1, <2>2, HeaderBytes
  <2>8. csum8(u) = HeaderSum /\ csum8(w) = Entered(ebda, All) /\ s = (0 - checksum) % 256
    BY DEF u, w, s, n, k, HeaderSum, Entered, mptable_checksum, Negated
  <2>9. IsBytes(w, k)
    BY <2>2, <2>4, <2>5, LoadBytes
  <2> HIDE DEF u, v, w
  <2>10. csum8(v) = (csum8(u) + (v[8] - u[8])) % 256
    <3>1. 8 \in 1 .. 44
      OBVIOUS
    <3>2. QED
      BY <2>7, <3>1, SumChange
  <2>11. Load(ebda, a, 44) = v
    BY <2>2, <2>3, <2>7, LoadHolds
  <2>12. Load(ebda, a, 44 + k) = Cat(Load(ebda, a, 44), Load(ebda, a + 44, k))
    BY <2>2, <2>4, <2>5, LoadParts
  <2>13. csum8(Cat(v, w)) = (csum8(v) + csum8(w)) % 256
    BY <2>7, <2>9, SumAppend
  <2>14. csum8(u) \in Byte /\ csum8(w) \in Byte
    BY <2>7, <2>9, SumType
  <2>15. csum8(Cat(v, w)) = 0
    <3> DEFINE x == csum8(w)
               y == csum8(u)
    <3>1. checksum = (x + y) % 256
      BY <1>1, <2>8
    <3>2. csum8(v) = (y + (((0 - checksum) % 256) - 0)) % 256
      BY <2>7, <2>8, <2>10
    <3>3. x \in Byte /\ y \in Byte
      BY <2>14
    <3>4. csum8(Cat(v, w)) = (csum8(v) + x) % 256
      BY <2>13
    <3> HIDE DEF x, y
    <3>5. (((y + (((0 - checksum) % 256) - 0)) % 256) + x) % 256 = 0
      BY <3>1, <3>3, Cancelled
    <3>6. QED
      BY <3>2, <3>4, <3>5
  <2>16. Load(ebda, a, n) = Cat(v, w)
    BY <2>2, <2>11, <2>12 DEF w
  <2>17. QED
    BY <2>6, <2>15, <2>16 DEF mptable_checksum
<1>5. QED
  BY <1>3, <1>4

\* Both sums are zero in the end, for every number of CPUs that fit, every
\* memory that setup_mptable finds, with and without the entry for IRQ 2:
\* what is collected on the way is what a kernel sums up.
THEOREM MpChecksumsHold == Spec => []ChecksumsHold
<1>1. MpIInv => ChecksumsHold
  BY Sums DEF ChecksumsHold
<1>2. QED
  BY <1>1, MpInvariant, PTL

\* The function that collects the places of a walk exists: what it gives for a
\* place is what every set that the walk from there does not leave contains.
LEMMA Walk ==
  ASSUME NEW D, NEW Stop, NEW next \in [D -> D]
  PROVE  \E f : f = [a \in D |-> IF a \in Stop THEN {} ELSE {a} \cup f[next[a]]]
<1> DEFINE Closed(S) == \A y \in S : y \notin Stop => next[y] \in S
           f == [a \in D |-> {x \in D : /\ x \notin Stop
                                        /\ \A S \in SUBSET D : a \in S /\ Closed(S) => x \in S}]
<1>1. ASSUME NEW a \in D, a \in Stop
      PROVE  f[a] = {}
  <2>1. {a} \in SUBSET D /\ Closed({a})
    BY <1>1
  <2> HIDE DEF Closed
  <2>2. QED
    BY <1>1, <2>1
<1>2. ASSUME NEW a \in D, a \notin Stop
      PROVE  f[a] = {a} \cup f[next[a]]
  <2>1. next[a] \in D
    OBVIOUS
  <2>2. ASSUME NEW x \in f[a], x # a
        PROVE  x \in f[next[a]]
    <3>1. x \in D /\ x \notin Stop
      OBVIOUS
    <3>2. ASSUME NEW S \in SUBSET D, next[a] \in S, Closed(S)
          PROVE  x \in S
      <4>1. S \cup {a} \in SUBSET D /\ Closed(S \cup {a})
        BY <3>2
      <4> HIDE DEF Closed
      <4>2. x \in S \cup {a}
        BY <4>1
      <4>3. QED
        BY <2>2, <4>2
    <3> HIDE DEF Closed
    <3>3. QED
      BY <2>1, <3>1, <3>2
  <2>3. ASSUME NEW x \in f[next[a]]
        PROVE  x \in f[a]
    <3>1. x \in D /\ x \notin Stop
      BY <2>1
    <3>2. ASSUME NEW S \in SUBSET D, a \in S, Closed(S)
          PROVE  x \in S
      <4>1. next[a] \in S
        BY <1>2, <3>2
      <4> HIDE DEF Closed
      <4>2. QED
        BY <2>1, <3>2, <4>1
    <3> HIDE DEF Closed
    <3>3. QED
      BY <3>1, <3>2
  <2>4. a \in f[a]
    BY <1>2
  <2> HIDE DEF f
  <2>5. QED
    BY <2>2, <2>3, <2>4
<1>3. f = [a \in D |-> f[a]]
  OBVIOUS
<1> HIDE DEF f
<1>4. f = [a \in D |-> IF a \in Stop THEN {} ELSE {a} \cup f[next[a]]]
  BY <1>1, <1>2, <1>3
<1>5. QED
  BY <1>4

\* The entries that a kernel steps over are those that were put.
LEMMA EntriesFound ==
  ASSUME MpIInv, CpusFit, mp_pc = "done"
  PROVE  Entries = {At(k) : k \in 0 .. All - 1}
<1>1. /\ MpTypes /\ EBDA \in Nat /\ All \in Nat
      /\ At(0) = EBDA + 60 /\ At(0) <= At(All) /\ At(All) <= EBDA_END /\ At(All) \in Nat
      /\ InPlace(ebda, All)
  BY Finally
<1>2. num_cpus \in Nat /\ irq0_override \in BOOLEAN /\ cpuid \in CpuIds
  BY <1>1 DEF MpTypes
<1>3. EBDA_END \in Nat /\ MEM_END \in Nat /\ EBDA_END <= MEM_END
  BY MpAssumption
<1>4. TableAddr = EBDA + 16 /\ TableEnd = At(All)
  BY TableFound
<1> DEFINE D == EBDA .. MEM_END + 20
           end == At(All)
           Step(a) == IF ebda[a] = 0 THEN 20 ELSE 8
           Is(f) == f = [a \in D |-> IF a >= end \/ a >= MEM_END THEN {} ELSE {a} \cup f[a + Step(a)]]
           from == CHOOSE f : Is(f)
<1>5. Entries = from[At(0)]
  <2>1. TableAddr + HEADER = At(0)
    BY <1>1, <1>4 DEF HEADER
  <2>2. QED
    BY <1>4, <2>1 DEF Entries
<1>6. Is(from)
  <2> DEFINE Stop == {a \in D : a >= end \/ a >= MEM_END}
             next == [a \in D |-> IF a \in Stop THEN a ELSE a + Step(a)]
  <2>1. next \in [D -> D]
    BY <1>1, <1>3
  <2>2. \A a \in D \ Stop : next[a] = a + Step(a)
    OBVIOUS
  <2>3. \A a \in D : a \in Stop <=> a >= end \/ a >= MEM_END
    OBVIOUS
  <2> HIDE DEF Stop, next, Step, D
  <2>4. \E f : f = [a \in D |-> IF a \in Stop THEN {} ELSE {a} \cup f[next[a]]]
    BY <2>1, Walk
  <2>5. PICK f : f = [a \in D |-> IF a \in Stop THEN {} ELSE {a} \cup f[next[a]]]
    BY <2>4
  <2>6. Is(f)
    <3>1. \A a \in D : (IF a \in Stop THEN {} ELSE {a} \cup f[next[a]])
                         = IF a >= end \/ a >= MEM_END THEN {} ELSE {a} \cup f[a + Step(a)]
      BY <2>2, <2>3
    <3>2. QED
      BY <2>5, <3>1
  <2> HIDE DEF Is
  <2>7. QED
    BY <2>6
<1>7. \A a \in D : from[a] = IF a >= end \/ a >= MEM_END THEN {} ELSE {a} \cup from[a + Step(a)]
  <2> HIDE DEF from, D, Step
  <2>1. QED
    BY <1>6
<1> HIDE DEF from, Is
<1>8. ASSUME NEW k \in 0 .. All - 1
      PROVE  from[At(k)] = {At(k)} \cup from[At(k + 1)]
  <2>1. k \in Nat /\ k < All
    BY <1>1
  <2>2. /\ At(k) \in Nat /\ Size(k) \in {8, 20} /\ At(0) <= At(k)
        /\ At(k + 1) = At(k) + Size(k) /\ At(k) + Size(k) <= At(All)
    BY <1>1, <1>2, <2>1, Places
  <2>3. IsBytes(Entry(k), Size(k)) /\ Holds(ebda, At(k), Entry(k))
    BY <1>1, <1>2, EntryBytes DEF InPlace
  <2>4. ebda[At(k)] = Entry(k)[1]
    <3>1. Len(Entry(k)) = Size(k)
      BY <2>3, LengthOfBytes
    <3>2. 1 \in 1 .. Len(Entry(k)) /\ At(k) + 1 - 1 = At(k)
      BY <2>2, <3>1
    <3>3. QED
      BY <2>3, <3>2 DEF Holds
  <2>5. Step(At(k)) = Size(k)
    <3>1. CASE k < num_cpus
      <4>1. Entry(k)[1] = 0
        BY <1>2, <3>1, EntryBytes
      <4>2. QED
        BY <2>4, <3>1, <4>1 DEF Size
    <3>2. CASE ~(k < num_cpus)
      <4>1. Irqs \in {15, 16} /\ All = num_cpus + Irqs + 4
        BY <1>2, Places
      <4>2. \/ k = num_cpus \/ k = num_cpus + 1
            \/ k \in num_cpus + 2 .. num_cpus + 1 + Irqs \/ k > num_cpus + 1 + Irqs
        BY <1>2, <2>1, <3>2, <4>1
      <4>3. Entry(k)[1] \in {1, 2, 3, 4}
        BY <1>2, <4>2, EntryBytes
      <4>4. QED
        BY <2>4, <3>2, <4>3 DEF Size
    <3>3. QED
      BY <3>1, <3>2
  <2>6. At(k) \in D /\ ~(At(k) >= end \/ At(k) >= MEM_END)
    BY <1>1, <1>3, <2>2
  <2> HIDE DEF D, Step, end
  <2>7. At(k) + Step(At(k)) = At(k + 1)
    BY <2>2, <2>5
  <2>8. PICK a : a = At(k)
    OBVIOUS
  <2>9. from[a] = {a} \cup from[a + Step(a)]
    BY <1>7, <2>6, <2>8
  <2>10. QED
    BY <2>7, <2>8, <2>9
<1>9. from[At(All)] = {}
  <2>1. At(All) \in D
    BY <1>1, <1>3
  <2>2. At(All) >= end
    BY <1>1
  <2> HIDE DEF D, Step, end
  <2>3. QED
    BY <1>7, <2>1, <2>2
<1> HIDE DEF D, Step, end
<1> DEFINE S == {j \in 0 .. All : from[At(All - j)] = {At(k) : k \in All - j .. All - 1}}
<1>10. 0 \in S
  <2>1. All - 0 = All /\ All .. All - 1 = {} /\ 0 \in 0 .. All
    BY <1>1
  <2>2. QED
    BY <1>9, <2>1
<1>11. ASSUME NEW j \in 1 .. All, j - 1 \in S
       PROVE  j \in S
  <2> DEFINE d == All - j
  <2>1. /\ d \in 0 .. All - 1 /\ All - (j - 1) = d + 1 /\ j \in 0 .. All
        /\ d .. All - 1 = {d} \cup (d + 1 .. All - 1)
    BY <1>1
  <2>2. from[At(d + 1)] = {At(k) : k \in d + 1 .. All - 1}
    BY <1>11, <2>1
  <2> HIDE DEF d
  <2>3. from[At(d)] = {At(d)} \cup {At(k) : k \in d + 1 .. All - 1}
    BY <1>8, <2>1, <2>2
  <2>4. {At(k) : k \in d .. All - 1} = {At(d)} \cup {At(k) : k \in d + 1 .. All - 1}
    <3> DEFINE R == d + 1 .. All - 1
               Q == d .. All - 1
    <3>1. Q = {d} \cup R
      BY <2>1
    <3> HIDE DEF R, Q
    <3>2. {At(k) : k \in Q} = {At(d)} \cup {At(k) : k \in R}
      BY <3>1, Zenon
    <3>3. QED
      BY <3>2 DEF R, Q
  <2>5. QED
    BY <2>1, <2>3, <2>4 DEF d
<1>12. 0 .. All \subseteq S
  <2> HIDE DEF S
  <2>1. QED
    BY <1>1, <1>10, <1>11, Counting
<1>13. All \in S
  BY <1>1, <1>12
<1>14. from[At(0)] = {At(k) : k \in 0 .. All - 1}
  <2>1. All - All = 0
    BY <1>1
  <2>2. QED
    BY <1>13, <2>1
<1>15. QED
  BY <1>5, <1>14

\* What memory holds for each of them.
LEMMA EntryAt ==
  ASSUME MpIInv, CpusFit, mp_pc = "done", NEW k \in 0 .. All - 1
  PROVE  /\ k < num_cpus => /\ ebda[At(k)] = 0 /\ ebda[At(k) + 1] = k
                            /\ ebda[At(k) + 3] = CpuFlag(k)
         /\ k = num_cpus => ebda[At(k)] = 1
         /\ k = num_cpus + 1 => ebda[At(k)] = 2 /\ ebda[At(k) + 1] = num_cpus + 1
         /\ k \in num_cpus + 2 .. num_cpus + 1 + Irqs =>
              LET n == Irq(k - num_cpus - 2)
              IN  /\ ebda[At(k)] = 3 /\ ebda[At(k) + 5] = n
                  /\ ebda[At(k) + 6] = num_cpus + 1 /\ ebda[At(k) + 7] = Pin(n)
         /\ k > num_cpus + 1 + Irqs => ebda[At(k)] = 4
<1>1. MpTypes /\ All \in Nat /\ InPlace(ebda, All)
  BY Finally
<1>2. num_cpus \in Nat /\ irq0_override \in BOOLEAN /\ cpuid \in CpuIds
  BY <1>1 DEF MpTypes
<1>3. num_cpus <= 40 /\ At(k) \in Nat /\ Size(k) \in {8, 20}
  <2>1. k \in Nat
    BY <1>1
  <2>2. QED
    BY <1>2, <2>1, Places
<1>4. ASSUME NEW j \in 0 .. 7
      PROVE  ebda[At(k) + j] = Entry(k)[j + 1]
  <2>1. IsBytes(Entry(k), Size(k)) /\ Holds(ebda, At(k), Entry(k))
    BY <1>1, <1>2, EntryBytes DEF InPlace
  <2>2. Len(Entry(k)) = Size(k)
    BY <2>1, LengthOfBytes
  <2>3. j + 1 \in 1 .. Len(Entry(k)) /\ At(k) + (j + 1) - 1 = At(k) + j
    BY <1>3, <2>2
  <2>4. QED
    BY <2>1, <2>3 DEF Holds
<1>5. /\ ebda[At(k)] = Entry(k)[1] /\ ebda[At(k) + 1] = Entry(k)[2]
      /\ ebda[At(k) + 3] = Entry(k)[4] /\ ebda[At(k) + 5] = Entry(k)[6]
      /\ ebda[At(k) + 6] = Entry(k)[7] /\ ebda[At(k) + 7] = Entry(k)[8]
  <2>1. At(k) + 0 = At(k)
    BY <1>3
  <2>2. {0, 1, 3, 5, 6, 7} \subseteq 0 .. 7
    OBVIOUS
  <2>3. QED
    BY <1>4, <2>1, <2>2
<1>6. ApicId = num_cpus + 1 /\ (k < num_cpus => k % 256 = k)
  BY <1>2, <1>3 DEF ApicId
<1>7. QED
  BY <1>2, <1>5, <1>6, EntryBytes

\* A pin is used once.
LEMMA Pins ==
  ASSUME irq0_override \in BOOLEAN, NEW m \in 0 .. 15, NEW n \in 0 .. 15,
         ~Skipped(m), ~Skipped(n)
  PROVE  /\ m # n => Pin(m) # Pin(n)
         /\ Pin(m) # m => irq0_override /\ m = 0
BY DEF Skipped, Pin

\* What the walk finds is true.
LEMMA WalkTrue ==
  ASSUME MpIInv, CpusFit, mp_pc = "done"
  PROVE  EntriesTrue
<1>1. MpTypes /\ All \in Nat
  BY Finally
<1>2. num_cpus \in Nat /\ irq0_override \in BOOLEAN /\ Irqs \in {15, 16} /\ All = num_cpus + Irqs + 4
  BY <1>1, Counts DEF MpTypes
<1> DEFINE all   == Entries
           cpus  == {a \in all : ebda[a] = 0}
           apics == {a \in all : ebda[a] = 2}
           irqs  == {a \in all : ebda[a] = 3}
           io    == At(num_cpus + 1)
           Of(k) == Irq(k - num_cpus - 2)
           K     == num_cpus + 2 .. num_cpus + 1 + Irqs
<1>3. all = {At(k) : k \in 0 .. All - 1}
  BY EntriesFound
<1>4. ASSUME NEW k \in 0 .. All - 1
      PROVE  /\ \/ k < num_cpus \/ k = num_cpus \/ k = num_cpus + 1
                \/ k \in K \/ k > num_cpus + 1 + Irqs
  BY <1>2
<1>5. ASSUME NEW k \in 0 .. All - 1
      PROVE  /\ ebda[At(k)] = 0 <=> k < num_cpus
             /\ ebda[At(k)] = 2 <=> k = num_cpus + 1
             /\ ebda[At(k)] = 3 <=> k \in K
  BY <1>2, <1>4, EntryAt
<1>6. ASSUME NEW a \in cpus
      PROVE  \E k \in 0 .. num_cpus - 1 : a = At(k) /\ ebda[a + 1] = k /\ ebda[a + 3] = CpuFlag(k)
  <2>1. PICK k \in 0 .. All - 1 : a = At(k)
    BY <1>3
  <2>2. k < num_cpus /\ k \in 0 .. num_cpus - 1
    BY <1>2, <1>5, <2>1
  <2>3. QED
    BY <2>1, <2>2, EntryAt
<1>7. ASSUME NEW k \in 0 .. num_cpus - 1
      PROVE  At(k) \in cpus /\ ebda[At(k) + 1] = k
  <2>1. k \in 0 .. All - 1 /\ k < num_cpus
    BY <1>2
  <2>2. QED
    BY <1>3, <1>5, <2>1, EntryAt
<1>8. apics = {io} /\ ebda[io + 1] = num_cpus + 1
  <2>1. num_cpus + 1 \in 0 .. All - 1
    BY <1>2
  <2>2. io \in apics /\ ebda[io + 1] = num_cpus + 1
    BY <1>3, <1>5, <2>1, EntryAt
  <2>3. ASSUME NEW a \in apics
        PROVE  a = io
    BY <1>3, <1>5
  <2> HIDE DEF apics, io
  <2>4. QED
    BY <2>2, <2>3
<1>9. ASSUME NEW a \in irqs
      PROVE  \E k \in K : /\ a = At(k) /\ ebda[a + 5] = Of(k) /\ ebda[a + 6] = num_cpus + 1
                          /\ ebda[a + 7] = Pin(Of(k))
  <2>1. PICK k \in 0 .. All - 1 : a = At(k)
    BY <1>3
  <2>2. k \in K
    BY <1>5, <2>1
  <2>3. QED
    BY <2>1, <2>2, EntryAt
<1>10. ASSUME NEW k \in K
       PROVE  /\ At(k) \in irqs /\ ebda[At(k) + 5] = Of(k)
              /\ k - num_cpus - 2 \in 0 .. Irqs - 1
              /\ Of(k) \in 0 .. 15 /\ ~Skipped(Of(k)) /\ Nth(Of(k)) = k - num_cpus - 2
  <2>1. k \in 0 .. All - 1 /\ k - num_cpus - 2 \in 0 .. Irqs - 1
    BY <1>2
  <2>2. At(k) \in irqs /\ ebda[At(k) + 5] = Of(k)
    BY <1>3, <1>5, <2>1, EntryAt
  <2>3. Of(k) \in 0 .. 15 /\ ~Skipped(Of(k)) /\ Nth(Of(k)) = k - num_cpus - 2
    BY <1>2, <2>1, Interrupts
  <2>4. QED
    BY <2>1, <2>2, <2>3
<1> HIDE DEF all, cpus, apics, irqs, io, Of
<1>11. {ebda[a + 1] : a \in cpus} = 0 .. num_cpus - 1
  BY <1>6, <1>7
<1>12. \A a \in cpus : ebda[a + 3] >= 2 <=> ebda[a + 1] = 0
  BY <1>6 DEF CpuFlag
<1>13. \E o \in apics : /\ apics = {o}
                        /\ \A a \in cpus : ebda[a + 1] # ebda[o + 1]
                        /\ \A a \in irqs : ebda[a + 6] = ebda[o + 1]
  <2>1. \A a \in cpus : ebda[a + 1] # num_cpus + 1
    BY <1>2, <1>6
  <2>2. \A a \in irqs : ebda[a + 6] = num_cpus + 1
    BY <1>9
  <2>3. QED
    BY <1>8, <2>1, <2>2
<1>14. ASSUME NEW a \in irqs, NEW b \in irqs, a # b
       PROVE  ebda[a + 5] # ebda[b + 5] /\ ebda[a + 7] # ebda[b + 7]
  <2>1. PICK k \in K : a = At(k) /\ ebda[a + 5] = Of(k) /\ ebda[a + 7] = Pin(Of(k))
    BY <1>9
  <2>2. PICK l \in K : b = At(l) /\ ebda[b + 5] = Of(l) /\ ebda[b + 7] = Pin(Of(l))
    BY <1>9
  <2>3. Of(k) # Of(l)
    <3>1. /\ Nth(Of(k)) = k - num_cpus - 2 /\ Nth(Of(l)) = l - num_cpus - 2
          /\ k \in Nat /\ l \in Nat
      BY <1>2, <1>10
    <3>2. k # l
      BY <1>14, <2>1, <2>2
    <3>3. k - num_cpus - 2 # l - num_cpus - 2
      BY <1>2, <3>1, <3>2
    <3>4. QED
      BY <3>1, <3>3
  <2>4. /\ Of(k) \in 0 .. 15 /\ ~Skipped(Of(k))
        /\ Of(l) \in 0 .. 15 /\ ~Skipped(Of(l))
    BY <1>10
  <2>5. Pin(Of(k)) # Pin(Of(l))
    BY <1>2, <2>3, <2>4, Pins
  <2>6. QED
    BY <2>1, <2>2, <2>3, <2>5
<1>15. {ebda[a + 5] : a \in irqs} = 0 .. 15 \ IF irq0_override THEN {2} ELSE {}
  <2>1. ASSUME NEW a \in irqs
        PROVE  ebda[a + 5] \in 0 .. 15 /\ ~Skipped(ebda[a + 5])
    BY <1>9, <1>10
  <2>2. ASSUME NEW n \in 0 .. 15, ~Skipped(n)
        PROVE  \E a \in irqs : ebda[a + 5] = n
    <3> DEFINE k == num_cpus + 2 + Nth(n)
    <3>1. Nth(n) \in 0 .. Irqs - 1 /\ Irq(Nth(n)) = n
      BY <1>2, <2>2, Interrupts
    <3>2. k \in K /\ k - num_cpus - 2 = Nth(n)
      BY <1>2, <3>1
    <3>3. Of(k) = n
      BY <3>1, <3>2 DEF Of
    <3> HIDE DEF k, K
    <3>4. QED
      BY <1>10, <3>2, <3>3
  <2>3. \A n \in 0 .. 15 : ~Skipped(n) <=> n \in 0 .. 15 \ IF irq0_override THEN {2} ELSE {}
    BY <1>2 DEF Skipped
  <2> DEFINE X == {ebda[a + 5] : a \in irqs}
             Y == 0 .. 15 \ IF irq0_override THEN {2} ELSE {}
  <2>4. Y \subseteq 0 .. 15
    OBVIOUS
  <2>5. \A n \in X : n \in Y
    BY <2>1, <2>3
  <2>6. \A n \in Y : n \in X
    BY <2>2, <2>3, <2>4
  <2> HIDE DEF X, Y
  <2>7. X = Y
    BY <2>5, <2>6
  <2>8. QED
    BY <2>7 DEF X, Y
<1>16. ASSUME NEW a \in irqs, ebda[a + 7] # ebda[a + 5]
       PROVE  irq0_override /\ ebda[a + 5] = 0
  <2>1. PICK k \in K : a = At(k) /\ ebda[a + 5] = Of(k) /\ ebda[a + 7] = Pin(Of(k))
    BY <1>9
  <2>2. Of(k) \in 0 .. 15 /\ ~Skipped(Of(k))
    BY <1>10
  <2>3. QED
    BY <1>2, <1>16, <2>1, <2>2, Pins
<1>17. QED
  BY <1>11, <1>12, <1>13, <1>14, <1>15, <1>16 DEF EntriesTrue, all, cpus, apics, irqs

\* A kernel that walks the table of any machine finds each CPU by its number,
\* the boot processor as the first, the I/O APIC under a number of its own, and
\* every ISA interrupt once, at a pin of its own, but IRQ 2 if IRQ 0 has its pin.
THEOREM MpEntriesTrue == Spec => []EntriesTrue
<1>1. MpIInv => EntriesTrue
  BY WalkTrue DEF EntriesTrue
<1>2. QED
  BY <1>1, MpInvariant, PTL

-----------------------------------------------------------------------------
(* The inductive invariant of extract_smbios.                              *)

Walking == {"walk", "type_0", "seal", "done"}

\* The structures' bytes up to the k-th, and how many they are.
Before(s, k) == FlattenSeq(SubSeq(s, 1, k))
Past(s, k) == Len(Before(s, k))

\* Whether type 0 has been put, and the room it takes.
Put0 == pc \in {"seal", "done"} /\ need_t0
Room == IF Put0 THEN t0_len ELSE 0

\* The anchor's block, with what is written in it, and that of the structures.
InAnchor(x) == ep <= x /\ x < ep + EP_SIZE
InTables(x) == qtables - t0_len <= x /\ x < qtables + Len(machine.tables)

AnchorBlock ==
  /\ ep \in Nat /\ EDATA <= ep /\ ep + EP_SIZE <= fseg_base
  /\ \E b \in blocks : b.addr = ep /\ b.size = EP_SIZE

TablesBlock ==
  /\ qtables \in Nat /\ ep + EP_SIZE <= qtables - t0_len
  /\ qtables + Len(machine.tables) <= fseg_base
  /\ \E b \in blocks : b.addr = qtables - t0_len /\ b.size = Len(machine.tables) + t0_len

InBlocks(x) == \E b \in blocks : b.addr <= x /\ x < b.addr + b.size

Placed ==
  /\ pc = "anchor" => \A x \in Addresses : mem[x] = Junk
  /\ pc = "tables" => AnchorBlock /\ \A x \in Addresses : mem[x] # Junk => InAnchor(x)
  /\ pc \in Walking =>
       /\ AnchorBlock /\ TablesBlock
       /\ \A x \in Addresses : mem[x] # Junk => InAnchor(x) \/ InTables(x)
  /\ pc = "return" => \A x \in Addresses : mem[x] # Junk => InBlocks(x)

\* What the anchor, at e of memory m, says of the n bytes t that are at q: all of
\* anchor a that is still true, and of a type 0 if that is put.
TablesHold(m, e, q, a, t, n, put, room) ==
  /\ IsBytes(a, EP_SIZE) /\ IsBytes(t, n) /\ n = Len(t)
  /\ m[e + 5] = a[6]
  /\ Half(m, e + 22) = n + room
  /\ Half(m, e + 24) + 65536 * Half(m, e + 26) = q - room
  /\ \/ put /\ Half(a, 29) = 65535
     \/ Half(m, e + 28) = Half(a, 29) + IF put THEN 1 ELSE 0
  /\ Half(m, e + 8) = IF put THEN Largest(Half(a, 9)) ELSE Half(a, 9)
  /\ Holds(m, q, t)
  /\ put => Holds(m, q - t0_len, Type0)

\* The anchor is in its block, and then the structures are in theirs.
Filled ==
  /\ pc = "tables" => IsBytes(machine.anchor, EP_SIZE) /\ Holds(mem, ep, machine.anchor)
  /\ pc \in Walking => TablesHold(mem, ep, qtables, machine.anchor, machine.tables,
                               Len(machine.tables), Put0, Room)

\* The walk is at the k-th structure, and none up to it was a type 0.
Walked ==
  pc \in Walking /\ Described(machine) =>
    LET s == machine.structs
    IN  /\ pc = "walk" => \E k \in 0 .. Len(s) :
             /\ table_header = IF k = 0 THEN NULL ELSE qtables + Past(s, k - 1)
             /\ \A j \in 1 .. k : s[j][1] # 0
        /\ pc = "type_0" => ~HasType0
        /\ pc \in {"seal", "done"} => (need_t0 <=> ~HasType0)

\* The sums are zero; the second is the anchor's if it has the right length.
SumsZero ==
  pc = "done" =>
    /\ csum8(Load(mem, ep, HALF_EP)) = 0
    /\ machine.anchor[6] = EP_SIZE => csum8(Load(mem, ep + HALF_EP, EP_SIZE - HALF_EP)) = 0

SmTypes ==
  /\ machine \in Machines /\ need_t0 \in BOOLEAN
  /\ pc \in {"anchor", "tables", "return"} \cup Walking
  /\ pc \in {"anchor", "tables"} => table_header = NULL
  /\ pc = "type_0" => need_t0

SmMemory == pc # "done" \/ machine.anchor[6] = EP_SIZE => IsMemory(mem, Addresses)

SmIInv ==
  /\ MallocIInv /\ SmTypes
  /\ Fit => SmMemory /\ Placed /\ Filled /\ Walked /\ SumsZero

-----------------------------------------------------------------------------
(* Structures one after the other.                                         *)

\* A sequence of bytes is an array of them.
LEMMA SeqBytes ==
  /\ \A b \in Seq(Byte) : IsBytes(b, Len(b))
  /\ \A b, n : IsBytes(b, n) => b \in Seq(Byte) /\ Len(b) = n
<1>1. ASSUME NEW b \in Seq(Byte)
      PROVE  IsBytes(b, Len(b))
  BY LenProperties DEF IsBytes
<1>2. ASSUME NEW b, NEW n, IsBytes(b, n)
      PROVE  b \in Seq(Byte) /\ Len(b) = n
  BY <1>2, Sized DEF IsBytes
<1>3. QED
  BY <1>1, <1>2

\* What Cat is for sequences.
LEMMA CatSeq ==
  ASSUME NEW a \in Seq(Byte), NEW b \in Seq(Byte)
  PROVE  /\ Cat(a, b) \in Seq(Byte) /\ Len(Cat(a, b)) = Len(a) + Len(b)
         /\ Len(a) \in Nat /\ Len(b) \in Nat
         /\ \A k \in 1 .. Len(a) : Cat(a, b)[k] = a[k]
         /\ \A k \in 1 .. Len(b) : Cat(a, b)[Len(a) + k] = b[k]
<1>1. IsBytes(a, Len(a)) /\ IsBytes(b, Len(b)) /\ Len(a) \in Nat /\ Len(b) \in Nat
  BY SeqBytes, LenProperties
<1>2. PICK l : l = Len(a) + Len(b)
  OBVIOUS
<1>3. IsBytes(Cat(a, b), l)
  BY <1>1, <1>2, JoinedSize
<1>4. QED
  BY <1>1, <1>2, <1>3, Joined, SeqBytes

\* How they are bracketed does not matter.
LEMMA CatAgain ==
  ASSUME NEW a \in Seq(Byte), NEW b \in Seq(Byte), NEW c \in Seq(Byte)
  PROVE  Cat(Cat(a, b), c) = Cat(a, Cat(b, c))
BY ConcatAssociative DEF Cat

\* Function g collects the first of n sequences s.
Collects(g, s, n) ==
  /\ g \in [0 .. n -> Seq(Byte)] /\ g[0] = <<>>
  /\ \A k \in 1 .. n : g[k] = Cat(g[k - 1], s[k])

\* There is one.
LEMMA CollectsExists ==
  ASSUME NEW n \in Nat, NEW s, \A k \in 1 .. n : s[k] \in Seq(Byte)
  PROVE  \E g : Collects(g, s, n)
<1> DEFINE T == Seq(Byte)
           rec == [k \in 1 .. n |-> [x \in T |-> Cat(x, s[k])]]
<1>1. rec \in [1 .. n -> [T -> T]]
  <2>1. \A k \in 1 .. n : \A x \in T : Cat(x, s[k]) \in T
    BY CatSeq
  <2> HIDE DEF T
  <2>2. QED
    BY <2>1
<1>2. <<>> \in T
  OBVIOUS
<1>3. \A k \in 1 .. n : \A x \in T : rec[k][x] = Cat(x, s[k])
  OBVIOUS
<1> HIDE DEF T, rec
<1>4. PICK g \in [0 .. n -> T] : Recurs(g, <<>>, rec, n)
  BY <1>1, <1>2, Recursion
<1>5. g[0] = <<>>
  <2>1. 0 \in 0 .. n
    OBVIOUS
  <2>2. QED
    BY <1>4, <2>1 DEF Recurs
<1>6. ASSUME NEW k \in 1 .. n
      PROVE  g[k] = Cat(g[k - 1], s[k])
  <2>1. k \in 0 .. n /\ k # 0 /\ k - 1 \in 0 .. n
    OBVIOUS
  <2>2. g[k] = rec[k][g[k - 1]]
    BY <1>4, <2>1 DEF Recurs
  <2>3. g[k - 1] \in T
    BY <2>1
  <2>4. QED
    BY <1>3, <2>2, <2>3
<1>7. QED
  BY <1>5, <1>6 DEF Collects, T

\* FlattenSeq gives what it collects in the end.
LEMMA Flattened ==
  ASSUME NEW n \in Nat, NEW s, NEW g, Collects(g, s, n), \A k \in 1 .. n : s[k] \in Seq(Byte),
         NEW m \in 0 .. n, NEW t \in Seq(Seq(Byte)), Len(t) = m, \A k \in 1 .. m : t[k] = s[k]
  PROVE  FlattenSeq(t) = g[m]
<1>1. CASE m = 0
  <2>1. t = <<>>
    BY <1>1, EmptySeq
  <2>2. QED
    BY <1>1, <2>1 DEF FlattenSeq, Collects
<1>2. CASE m # 0
  <2> DEFINE Is(f) == f = [y \in 1 .. Len(t) |-> IF y = 1 THEN t[y] ELSE f[y - 1] \o t[y]]
             h == CHOOSE f : Is(f)
             f == [y \in 1 .. m |-> g[y]]
  <2>1. FlattenSeq(t) = h[Len(t)]
    <3>1. Len(t) # 0
      BY <1>2
    <3>2. QED
      BY <3>1 DEF FlattenSeq
  <2>2. g[1] = t[1]
    <3>1. 1 \in 1 .. n /\ 1 - 1 = 0 /\ 1 \in 1 .. m
      BY <1>2
    <3>2. g[1] = Cat(<<>>, s[1]) /\ s[1] = t[1] /\ s[1] \in Seq(Byte)
      BY <3>1 DEF Collects
    <3>3. QED
      BY <3>2, ConcatEmptySeq DEF Cat
  <2>3. ASSUME NEW y \in 1 .. m
        PROVE  f[y] = IF y = 1 THEN t[y] ELSE f[y - 1] \o t[y]
    <3>1. CASE y = 1
      BY <2>2, <3>1
    <3>2. CASE y # 1
      <4>1. y - 1 \in 1 .. m /\ y \in 1 .. n
        BY <3>2
      <4>2. g[y] = Cat(g[y - 1], t[y])
        BY <4>1 DEF Collects
      <4>3. QED
        BY <3>2, <4>1, <4>2 DEF Cat
    <3>3. QED
      BY <3>1, <3>2
  <2>4. Is(f)
    <3>1. f = [y \in 1 .. m |-> f[y]]
      OBVIOUS
    <3> HIDE DEF f
    <3>2. QED
      BY <2>3, <3>1
  <2>5. Is(h)
    <3> HIDE DEF Is, f
    <3>1. QED
      BY <2>4
  <2>6. \A y \in 1 .. m : h[y] = IF y = 1 THEN t[y] ELSE h[y - 1] \o t[y]
    <3> HIDE DEF h
    <3>1. QED
      BY <2>5
  <2> HIDE DEF h, Is
  <2> DEFINE S == {y \in 0 .. m : y # 0 => h[y] = g[y]}
  <2>7. 0 \in S
    OBVIOUS
  <2>8. ASSUME NEW y \in 1 .. m, y - 1 \in S
        PROVE  y \in S
    <3>1. CASE y = 1
      BY <2>2, <2>6, <3>1
    <3>2. CASE y # 1
      <4>1. y - 1 \in 1 .. m /\ y \in 1 .. n /\ y - 1 # 0
        BY <3>2
      <4>2. h[y] = Cat(g[y - 1], t[y])
        BY <2>6, <2>8, <3>2, <4>1 DEF Cat
      <4>3. g[y] = Cat(g[y - 1], t[y])
        BY <4>1 DEF Collects
      <4>4. QED
        BY <4>2, <4>3
    <3>3. QED
      BY <3>1, <3>2
  <2>9. 0 .. m \subseteq S
    <3>1. m \in Nat
      OBVIOUS
    <3> HIDE DEF S
    <3>2. QED
      BY <2>7, <2>8, <3>1, Counting
  <2>10. m \in S /\ m # 0
    BY <1>2, <2>9
  <2>11. QED
    BY <2>1, <2>10
<1>3. QED
  BY <1>1, <1>2

\* The structures' bytes up to the k-th are put together from theirs.
LEMMA BeforeIs ==
  ASSUME NEW s \in Seq(Seq(Byte))
  PROVE  /\ Len(s) \in Nat
         /\ \A k \in 0 .. Len(s) : Before(s, k) \in Seq(Byte)
         /\ Before(s, 0) = <<>> /\ Before(s, Len(s)) = FlattenSeq(s)
         /\ \A k \in 1 .. Len(s) : s[k] \in Seq(Byte) /\ Before(s, k) = Cat(Before(s, k - 1), s[k])
<1>1. PICK n \in Nat : n = Len(s)
  BY LenProperties
<1>2. \A k \in 1 .. n : s[k] \in Seq(Byte)
  BY <1>1, ElementOfSeq
<1>3. PICK g : Collects(g, s, n)
  BY <1>2, CollectsExists
<1>4. ASSUME NEW m \in 0 .. n
      PROVE  Before(s, m) = g[m]
  <2>1. PICK t : t = SubSeq(s, 1, m)
    OBVIOUS
  <2>2. t \in Seq(Seq(Byte)) /\ Len(t) = m /\ \A k \in 1 .. m : t[k] = s[k]
    <3>1. CASE m = 0
      <4>1. t = <<>>
        BY <2>1, <3>1, SubSeqEmpty
      <4>2. QED
        BY <3>1, <4>1
    <3>2. CASE m # 0
      <4>1. \A k \in 1 .. m : k \in 1 .. Len(s)
        BY <1>1
      <4>2. /\ t \in Seq(Seq(Byte)) /\ Len(t) = IF 1 <= m THEN m - 1 + 1 ELSE 0
            /\ \A k \in 1 .. m - 1 + 1 : t[k] = s[1 + k - 1]
        BY <2>1, <4>1, SubSeqProperties
      <4>3. m - 1 + 1 = m /\ 1 <= m /\ \A k \in 1 .. m : 1 + k - 1 = k
        BY <3>2
      <4>4. QED
        BY <4>2, <4>3
    <3>3. QED
      BY <3>1, <3>2
  <2>3. FlattenSeq(t) = g[m]
    BY <1>2, <1>3, <2>2, Flattened
  <2>4. QED
    BY <2>1, <2>3 DEF Before
<1>5. FlattenSeq(s) = g[n]
  <2>1. n \in 0 .. n
    OBVIOUS
  <2>2. QED
    BY <1>1, <1>2, <1>3, <2>1, Flattened
<1>6. ASSUME NEW k \in 1 .. n
      PROVE  Before(s, k) = Cat(Before(s, k - 1), s[k])
  <2>1. k \in 0 .. n /\ k - 1 \in 0 .. n
    OBVIOUS
  <2>2. QED
    BY <1>3, <1>4, <2>1 DEF Collects
<1>7. 0 \in 0 .. n /\ n \in 0 .. n
  OBVIOUS
<1>8. \A k \in 0 .. n : g[k] \in Seq(Byte)
  BY <1>3 DEF Collects
<1>9. QED
  BY <1>1, <1>2, <1>3, <1>4, <1>5, <1>6, <1>7, <1>8 DEF Collects

\* Where the k-th structure is among them.
LEMMA Within ==
  ASSUME NEW s \in Seq(Seq(Byte)), NEW k \in 1 .. Len(s)
  PROVE  LET all == FlattenSeq(s)
             o == Len(Before(s, k - 1))
         IN  /\ o \in Nat /\ Len(s[k]) \in Nat /\ Len(Before(s, k)) = o + Len(s[k])
             /\ o + Len(s[k]) <= Len(all) /\ Len(all) \in Nat
             /\ \A j \in 1 .. Len(s[k]) : all[o + j] = s[k][j]
<1> DEFINE n == Len(s)
           o == Len(Before(s, k - 1))
           b == Before(s, k)
           S == {y \in 0 .. n - k : /\ Len(b) <= Len(Before(s, k + y))
                                    /\ \A j \in 1 .. Len(b) : Before(s, k + y)[j] = b[j]}
<1>1. n \in Nat /\ n - k \in Nat /\ k + (n - k) = n /\ k - 1 \in 0 .. n /\ k \in 0 .. n
  BY BeforeIs
<1>2. \A m \in 0 .. n : Before(s, m) \in Seq(Byte) /\ Len(Before(s, m)) \in Nat
  BY BeforeIs, LenProperties
<1>3. 0 \in S
  <2>1. k + 0 = k /\ 0 \in 0 .. n - k /\ Len(b) <= Len(b)
    BY <1>1, <1>2
  <2> HIDE DEF b
  <2>2. QED
    BY <2>1 DEF b
<1>4. ASSUME NEW y \in 1 .. n - k, y - 1 \in S
      PROVE  y \in S
  <2> DEFINE m == k + y
             u == Before(s, m - 1)
             v == s[m]
  <2>1. m \in 1 .. n /\ m - 1 = k + (y - 1) /\ m - 1 \in 0 .. n /\ y \in 0 .. n - k
    BY <1>1
  <2> HIDE DEF m
  <2>2. Before(s, m) = Cat(u, v) /\ u \in Seq(Byte) /\ v \in Seq(Byte)
    BY <1>2, <2>1, BeforeIs
  <2>3. Len(b) <= Len(u) /\ \A j \in 1 .. Len(b) : u[j] = b[j]
    BY <1>4, <2>1
  <2>4. Len(b) \in Nat
    BY <1>1, <1>2
  <2> HIDE DEF b, u, v
  <2>5. /\ Len(Cat(u, v)) = Len(u) + Len(v) /\ Len(u) \in Nat /\ Len(v) \in Nat
        /\ \A j \in 1 .. Len(u) : Cat(u, v)[j] = u[j]
    BY <2>2, CatSeq
  <2>6. Len(b) <= Len(Before(s, m)) /\ \A j \in 1 .. Len(b) : Before(s, m)[j] = b[j]
    BY <2>2, <2>3, <2>4, <2>5
  <2>7. QED
    BY <2>1, <2>6 DEF m
<1>5. 0 .. n - k \subseteq S
  <2> HIDE DEF S
  <2>1. QED
    BY <1>1, <1>3, <1>4, Counting
<1>6. n - k \in S
  <2>1. n - k \in 0 .. n - k
    BY <1>1
  <2> HIDE DEF S, n
  <2>2. QED
    BY <1>5, <2>1
<1>7. /\ Len(b) <= Len(FlattenSeq(s))
      /\ \A j \in 1 .. Len(b) : FlattenSeq(s)[j] = b[j]
  <2>1. Before(s, k + (n - k)) = FlattenSeq(s)
    BY <1>1, BeforeIs
  <2>2. QED
    BY <1>6, <2>1
<1>8. b = Cat(Before(s, k - 1), s[k]) /\ s[k] \in Seq(Byte) /\ Before(s, k - 1) \in Seq(Byte)
  BY <1>1, <1>2, BeforeIs
<1>9. Len(FlattenSeq(s)) \in Nat
  <2>1. n \in 0 .. n /\ Before(s, n) = FlattenSeq(s)
    BY <1>1, BeforeIs
  <2>2. QED
    BY <1>2, <2>1
<1> HIDE DEF b, n
<1>10. /\ o \in Nat /\ Len(s[k]) \in Nat /\ Len(b) = o + Len(s[k])
       /\ \A j \in 1 .. Len(s[k]) : b[o + j] = s[k][j]
  BY <1>8, CatSeq
<1>11. ASSUME NEW j \in 1 .. Len(s[k])
       PROVE  FlattenSeq(s)[o + j] = s[k][j]
  <2>1. o + j \in 1 .. Len(b)
    BY <1>10
  <2>2. QED
    BY <1>7, <1>10, <2>1
<1>12. QED
  BY <1>7, <1>9, <1>10, <1>11 DEF b

\* A structure before all others.
LEMMA OneMore ==
  ASSUME NEW s \in Seq(Seq(Byte)), NEW a \in Seq(Byte)
  PROVE  FlattenSeq(<<a>> \o s) = Cat(a, FlattenSeq(s))
<1> DEFINE n == Len(s)
           t == <<a>> \o s
           S == {k \in 0 .. n : Before(t, k + 1) = Cat(a, Before(s, k))}
<1>1. n \in Nat
  BY LenProperties
<1>2. /\ t \in Seq(Seq(Byte)) /\ Len(t) = n + 1 /\ t[1] = a
      /\ \A k \in 1 .. n : t[k + 1] = s[k]
  <2>1. PICK u : u = <<a>>
    OBVIOUS
  <2>2. u \in Seq(Seq(Byte)) /\ Len(u) = 1 /\ u[1] = a
    BY <2>1
  <2>3. /\ u \o s \in Seq(Seq(Byte)) /\ Len(u \o s) = Len(u) + Len(s)
        /\ \A y \in 1 .. Len(u) + Len(s) : (u \o s)[y] = IF y <= Len(u) THEN u[y] ELSE s[y - Len(u)]
    BY <2>2, ConcatProperties
  <2>4. PICK w : w = u \o s
    OBVIOUS
  <2>5. /\ w \in Seq(Seq(Byte)) /\ Len(w) = 1 + n
        /\ \A y \in 1 .. 1 + n : w[y] = IF y <= 1 THEN u[y] ELSE s[y - 1]
    BY <2>2, <2>3, <2>4
  <2>6. w[1] = a /\ \A k \in 1 .. n : w[k + 1] = s[k]
    BY <1>1, <2>2, <2>5
  <2>7. QED
    BY <1>1, <2>1, <2>4, <2>5, <2>6
<1> HIDE DEF t, n
<1>3. /\ Before(t, 0) = <<>> /\ Before(t, n + 1) = FlattenSeq(t)
      /\ \A k \in 1 .. n + 1 : Before(t, k) = Cat(Before(t, k - 1), t[k])
  BY <1>2, BeforeIs
<1>4. /\ Before(s, 0) = <<>> /\ Before(s, n) = FlattenSeq(s)
      /\ \A k \in 1 .. n : s[k] \in Seq(Byte) /\ Before(s, k) = Cat(Before(s, k - 1), s[k])
      /\ \A k \in 0 .. n : Before(s, k) \in Seq(Byte)
  BY BeforeIs DEF n
<1>5. 0 \in S
  <2>1. 1 \in 1 .. n + 1 /\ 1 - 1 = 0 /\ 0 + 1 = 1 /\ 0 \in 0 .. n
    BY <1>1
  <2>2. Before(t, 1) = Cat(<<>>, a)
    BY <1>2, <1>3, <2>1
  <2>3. Cat(<<>>, a) = Cat(a, <<>>)
    BY ConcatEmptySeq DEF Cat
  <2>4. QED
    BY <1>4, <2>1, <2>2, <2>3
<1>6. ASSUME NEW k \in 1 .. n, k - 1 \in S
      PROVE  k \in S
  <2>1. k + 1 \in 1 .. n + 1 /\ (k + 1) - 1 = k /\ (k - 1) + 1 = k /\ k \in 0 .. n /\ k - 1 \in 0 .. n
    BY <1>1
  <2>2. Before(t, k + 1) = Cat(Before(t, k), s[k])
    BY <1>2, <1>3, <2>1
  <2>3. Before(t, k) = Cat(a, Before(s, k - 1))
    BY <1>6, <2>1
  <2>4. Before(s, k - 1) \in Seq(Byte) /\ s[k] \in Seq(Byte)
    BY <1>4, <2>1
  <2>5. Cat(Cat(a, Before(s, k - 1)), s[k]) = Cat(a, Cat(Before(s, k - 1), s[k]))
    BY <2>4, CatAgain
  <2>6. QED
    BY <1>4, <2>1, <2>2, <2>3, <2>5
<1>7. 0 .. n \subseteq S
  <2> HIDE DEF S
  <2>1. QED
    BY <1>1, <1>5, <1>6, Counting
<1>8. n \in S
  BY <1>1, <1>7
<1>9. QED
  BY <1>3, <1>4, <1>8 DEF t


-----------------------------------------------------------------------------
(* Numbers in memory.                                                      *)

\* What memory holds, in two parts.
LEMMA HoldsParts ==
  ASSUME NEW mm, NEW p \in Int, NEW m, NEW n, NEW a, NEW b, IsBytes(a, m), IsBytes(b, n),
         Holds(mm, p, Cat(a, b))
  PROVE  Holds(mm, p, a) /\ Holds(mm, p + m, b)
<1>1. m \in Nat /\ n \in Nat /\ Len(a) = m /\ Len(b) = n
  BY LengthOfBytes
<1>2. PICK l : l = m + n
  OBVIOUS
<1>3. IsBytes(Cat(a, b), l)
  BY <1>2, JoinedSize
<1>4. Len(Cat(a, b)) = l
  BY <1>3, LengthOfBytes
<1>5. /\ \A k \in 1 .. m : Cat(a, b)[k] = a[k]
      /\ \A k \in 1 .. n : Cat(a, b)[m + k] = b[k]
  BY Joined
<1>6. \A j \in 1 .. l : mm[p + j - 1] = Cat(a, b)[j]
  BY <1>4 DEF Holds
<1>7. ASSUME NEW j \in 1 .. m
      PROVE  mm[p + j - 1] = a[j]
  <2>1. j \in 1 .. l
    BY <1>1, <1>2
  <2>2. QED
    BY <1>5, <1>6, <2>1
<1>8. ASSUME NEW j \in 1 .. n
      PROVE  mm[p + m + j - 1] = b[j]
  <2>1. m + j \in 1 .. l /\ p + (m + j) - 1 = p + m + j - 1
    BY <1>1, <1>2
  <2>2. mm[p + (m + j) - 1] = Cat(a, b)[m + j]
    BY <1>6, <2>1
  <2>3. QED
    BY <1>5, <2>1, <2>2
<1>9. QED
  BY <1>1, <1>7, <1>8 DEF Holds

\* A number in two bytes,
LEMMA HalfRead ==
  ASSUME NEW m, NEW a \in Int, NEW v \in Nat, v < 65536, Holds(m, a, LE(v, 2))
  PROVE  Half(m, a) = v
<1>1. IsBytes(LE(v, 2), 2) /\ \A k \in 1 .. 2 : LE(v, 2)[k] = (v \div Place[k]) % 256
  BY LEBytes
<1>2. \A k \in 1 .. 2 : m[a + k - 1] = (v \div Place[k]) % 256
  BY <1>1, LengthOfBytes DEF Holds
<1>3. Place[1] = 1 /\ Place[2] = 256 /\ a + 1 - 1 = a /\ a + 2 - 1 = a + 1
  BY SMT DEF Place
<1>4. m[a] = (v \div 1) % 256 /\ m[a + 1] = (v \div 256) % 256
  BY <1>2, <1>3
<1>5. QED
  BY <1>4, TwoBytes DEF Half

\* and an address in four.
LEMMA WordRead ==
  ASSUME NEW m, NEW a \in Int, NEW v \in Nat, v < 256 * 65536, Holds(m, a, LE(v, 4))
  PROVE  Half(m, a) + 65536 * Half(m, a + 2) = v
<1>1. IsBytes(LE(v, 4), 4) /\ \A k \in 1 .. 4 : LE(v, 4)[k] = (v \div Place[k]) % 256
  BY LEBytes
<1>2. \A k \in 1 .. 4 : m[a + k - 1] = (v \div Place[k]) % 256
  BY <1>1, LengthOfBytes DEF Holds
<1>3. PICK top : top = Place[4]
  OBVIOUS
<1>4. Place[1] = 1 /\ Place[2] = 256 /\ Place[3] = 65536 /\ top \in Nat /\ v < top
  <2>1. top = 256 * 65536
    BY SMT, <1>3 DEF Place
  <2>2. Place[1] = 1 /\ Place[2] = 256 /\ Place[3] = 65536
    BY SMT DEF Place
  <2>3. QED
    BY <2>1, <2>2
<1>5. /\ a + 1 - 1 = a /\ a + 2 - 1 = a + 1 /\ a + 3 - 1 = a + 2 /\ a + 4 - 1 = a + 2 + 1
      /\ 1 \in 1 .. 4 /\ 2 \in 1 .. 4 /\ 3 \in 1 .. 4 /\ 4 \in 1 .. 4
  OBVIOUS
<1>6. /\ m[a] = (v \div 1) % 256 /\ m[a + 1] = (v \div 256) % 256
      /\ m[a + 2] = (v \div 65536) % 256 /\ m[a + 2 + 1] = (v \div top) % 256
  BY <1>2, <1>3, <1>4, <1>5
<1>7. Half(m, a) + 65536 * Half(m, a + 2)
        = ((v \div 1) % 256) + 256 * ((v \div 256) % 256)
            + 65536 * (((v \div 65536) % 256) + 256 * ((v \div top) % 256))
  BY <1>6 DEF Half
<1>8. QED
  BY <1>4, <1>7, FourBytes

\* A number among bytes,
LEMMA HalfOfBytes ==
  ASSUME NEW n, NEW b, IsBytes(b, n), NEW k \in 1 .. n - 1
  PROVE  Half(b, k) \in Nat /\ Half(b, k) < 65536
<1>1. n \in Nat /\ \A j \in 1 .. n : b[j] \in Byte
  BY DEF IsBytes
<1>2. k \in 1 .. n /\ k + 1 \in 1 .. n
  BY <1>1
<1>3. b[k] \in Byte /\ b[k + 1] \in Byte
  BY <1>1, <1>2
<1>4. PICK x, y : x = b[k] /\ y = b[k + 1]
  OBVIOUS
<1>5. x \in 0 .. 255 /\ y \in 0 .. 255
  BY <1>3, <1>4 DEF Byte
<1>6. x + 256 * y \in Nat /\ x + 256 * y < 65536
  BY <1>5
<1>7. QED
  BY <1>4, <1>6 DEF Half

\* which memory holds at a.
LEMMA HalfHolds ==
  ASSUME NEW m, NEW a \in Int, NEW n, NEW b, IsBytes(b, n), NEW k \in 1 .. n - 1, Holds(m, a, b)
  PROVE  Half(m, a + k - 1) = Half(b, k)
<1>1. n \in Nat /\ Len(b) = n
  BY LengthOfBytes
<1>2. k \in 1 .. n /\ k + 1 \in 1 .. n /\ a + (k + 1) - 1 = a + k - 1 + 1
  BY <1>1
<1>3. m[a + k - 1] = b[k] /\ m[a + (k + 1) - 1] = b[k + 1]
  BY <1>1, <1>2 DEF Holds
<1>4. QED
  BY <1>2, <1>3 DEF Half

\* The anchor's last fields, one after the other.
LEMMA FieldsCat ==
  ASSUME NEW length, NEW address, NEW number
  PROVE  TableFields(length, address, number)
           = Cat(Cat(LE(length, 2), LE(address, 4)), LE(number, 2))
BY Zenon DEF TableFields, Cat

\* They are bytes.
LEMMA FieldsBytes ==
  ASSUME NEW length \in Nat, NEW address \in Nat, NEW number \in Nat
  PROVE  IsBytes(TableFields(length, address, number), 8)
<1> DEFINE a == LE(length, 2)
           b == LE(address, 4)
           c == LE(number, 2)
<1>1. IsBytes(a, 2) /\ IsBytes(b, 4) /\ IsBytes(c, 2)
  BY LEBytes
<1>2. TableFields(length, address, number) = Cat(Cat(a, b), c)
  BY FieldsCat
<1> HIDE DEF a, b, c
<1>3. IsBytes(Cat(a, b), 6)
  BY <1>1, JoinedSize
<1> DEFINE d == Cat(a, b)
<1> HIDE DEF d
<1>4. IsBytes(Cat(d, c), 8)
  <2>1. IsBytes(d, 6) /\ 8 = 6 + 2
    BY <1>3 DEF d
  <2>2. QED
    BY <1>1, <2>1, JoinedSize
<1>5. QED
  BY <1>2, <1>4 DEF d

\* What is read of them when they are written: an overflow of the number stays
\* in its field.
LEMMA FieldsRead ==
  ASSUME NEW m, NEW p \in Int, NEW length \in Nat, NEW address \in Nat, NEW number \in Nat,
         length < 65536, address < 256 * 65536,
         Holds(m, p, TableFields(length, address, number))
  PROVE  /\ Half(m, p) = length
         /\ Half(m, p + 2) + 65536 * Half(m, p + 4) = address
         /\ number < 65536 => Half(m, p + 6) = number
<1> DEFINE a == LE(length, 2)
           b == LE(address, 4)
           c == LE(number, 2)
<1>1. IsBytes(a, 2) /\ IsBytes(b, 4) /\ IsBytes(c, 2)
  BY LEBytes
<1>2. TableFields(length, address, number) = Cat(Cat(a, b), c)
  BY FieldsCat
<1> HIDE DEF a, b, c
<1>3. IsBytes(Cat(a, b), 6)
  BY <1>1, JoinedSize
<1>4. Holds(m, p, Cat(a, b)) /\ Holds(m, p + 6, c)
  BY <1>1, <1>2, <1>3, HoldsParts
<1>5. Holds(m, p, a) /\ Holds(m, p + 2, b)
  BY <1>1, <1>4, HoldsParts
<1>6. p + 2 \in Int /\ p + 6 \in Int /\ p + 2 + 2 = p + 4
  OBVIOUS
<1>7. Half(m, p) = length
  BY <1>5, HalfRead DEF a
<1>8. Half(m, p + 2) + 65536 * Half(m, p + 2 + 2) = address
  BY <1>5, <1>6, WordRead DEF b
<1>9. number < 65536 => Half(m, p + 6) = number
  BY <1>4, <1>6, HalfRead DEF c
<1>10. QED
  BY <1>6, <1>7, <1>8, <1>9

\* A string and its terminator.
LEMMA StrBytes ==
  ASSUME NEW n \in Nat
  PROVE  IsBytes(Str(n), n + 1)
BY DEF IsBytes, Str, Byte

\* The type 0 structure fills its room.
LEMMA Type0Bytes == IsBytes(Type0, t0_len) /\ t0_len = 46 /\ t0_len \in Nat /\ Type0[1] = 0
<1> DEFINE a == <<0, T0_SIZE, 0, 0>>
           b == <<1, 2>>
           c == <<0, 232>>
           d == <<3, 0>>
           e == <<8, 0, 0, 0, 0, 0, 0, 0>>
           f == <<0, 4>>
           g == <<0, 0, 255, 255>>
           h == <<0>>
           all == Cat(Cat(Cat(Cat(Cat(Cat(Cat(Cat(Cat(Cat(a, b), c), d), e), f), g),
                                  Str(5)), Str(3)), Str(10)), h)
<1>1. {0, 1, 2, 3, 4, 8, 24, 232, 255} \subseteq Byte
  BY DEF Byte
<1>2. /\ IsBytes(a, 4) /\ IsBytes(b, 2) /\ IsBytes(c, 2) /\ IsBytes(d, 2) /\ IsBytes(f, 2)
      /\ IsBytes(g, 4)
  <2>1. T0_SIZE \in Byte
    BY <1>1 DEF T0_SIZE
  <2> HIDE DEF a, b, c, d, f, g
  <2>2. IsBytes(a, 4)
    BY <1>1, <2>1, Tuples DEF a
  <2>3. IsBytes(b, 2) /\ IsBytes(c, 2) /\ IsBytes(d, 2) /\ IsBytes(f, 2)
    <3>1. IsBytes(b, 2)
      BY <1>1, Tuples DEF b
    <3>2. IsBytes(c, 2)
      BY <1>1, Tuples, ZenonT(60) DEF c
    <3>3. IsBytes(d, 2)
      BY <1>1, Tuples DEF d
    <3>4. IsBytes(f, 2)
      BY <1>1, Tuples DEF f
    <3>5. QED
      BY <3>1, <3>2, <3>3, <3>4
  <2>4. IsBytes(g, 4)
    BY <1>1, Tuples, ZenonT(60) DEF g
  <2>5. QED
    BY <2>2, <2>3, <2>4
<1>3. IsBytes(e, 8)
  BY <1>1, LongTuples
<1>4. IsBytes(h, 1)
  BY <1>1 DEF IsBytes
<1>5. IsBytes(Str(5), 6) /\ IsBytes(Str(3), 4) /\ IsBytes(Str(10), 11)
  <2>1. 5 \in Nat /\ 3 \in Nat /\ 10 \in Nat /\ 5 + 1 = 6 /\ 3 + 1 = 4 /\ 10 + 1 = 11
    OBVIOUS
  <2>2. QED
    BY <2>1, StrBytes
<1>6. Type0 = all
  BY Zenon DEF Type0, Cat
<1>7. a[1] = 0
  OBVIOUS
<1> HIDE DEF a, b, c, d, e, f, g, h
<1> DEFINE Good(x, n) == IsBytes(x, n) /\ n >= 1 /\ x[1] = 0
<1>8. ASSUME NEW x, NEW m \in Nat, Good(x, m), NEW y, NEW n \in Nat, IsBytes(y, n),
             NEW l, l = m + n
      PROVE  Good(Cat(x, y), l)
  <2>1. 1 \in 1 .. m /\ l >= 1
    BY <1>8
  <2>2. IsBytes(Cat(x, y), l)
    BY <1>8, JoinedSize
  <2>3. Cat(x, y)[1] = x[1]
    BY <1>8, <2>1, Joined
  <2>4. QED
    BY <1>8, <2>1, <2>2, <2>3
<1>9. Good(a, 4)
  BY <1>2, <1>7
<1> HIDE DEF Good
<1> DEFINE x1 == Cat(a, b)
           x2 == Cat(x1, c)
           x3 == Cat(x2, d)
           x4 == Cat(x3, e)
           x5 == Cat(x4, f)
           x6 == Cat(x5, g)
           x7 == Cat(x6, Str(5))
           x8 == Cat(x7, Str(3))
           x9 == Cat(x8, Str(10))
           x10 == Cat(x9, h)
<1>10. all = x10
  OBVIOUS
<1> HIDE DEF x1, x2, x3, x4, x5, x6, x7, x8, x9, x10, all
<1>11. Good(x1, 6)
  BY <1>2, <1>8, <1>9 DEF x1
<1>12. Good(x2, 8)
  BY <1>2, <1>8, <1>11 DEF x2
<1>13. Good(x3, 10)
  BY <1>2, <1>8, <1>12 DEF x3
<1>14. Good(x4, 18)
  BY <1>3, <1>8, <1>13 DEF x4
<1>15. Good(x5, 20)
  BY <1>2, <1>8, <1>14 DEF x5
<1>16. Good(x6, 24)
  BY <1>2, <1>8, <1>15 DEF x6
<1>17. Good(x7, 30)
  BY <1>5, <1>8, <1>16 DEF x7
<1>18. Good(x8, 34)
  BY <1>5, <1>8, <1>17 DEF x8
<1>19. Good(x9, 45)
  BY <1>5, <1>8, <1>18 DEF x9
<1>20. Good(x10, 46)
  BY <1>4, <1>8, <1>19 DEF x10
<1>21. t0_len = 46
  BY DEF t0_len, T0_SIZE
<1>22. QED
  BY <1>6, <1>10, <1>20, <1>21 DEF Good

-----------------------------------------------------------------------------
(* Blocks of the F segment.                                                *)

\* The demand on the F segment is at most what it has.
LEMMA FitMeans ==
  ASSUME MallocIInv, Fit
  PROVE  /\ fseg_base \in Nat /\ EDATA <= fseg_base /\ fseg_base <= FSEG_END
         /\ demand["FSEG"] \in Nat /\ demand["FSEG"] <= FSEG_END - EDATA
<1>1. "FSEG" \in Zones
  BY DEF Zones
<1>2. Fits("FSEG")
  BY <1>1 DEF Fit
<1>3. demand["FSEG"] \in Nat /\ demand["FSEG"] <= FSEG_END - EDATA
  BY <1>1, <1>2 DEF Fits, ZoneLow, ZoneHigh, MallocIInv, MallocTypeOK
<1>4. fseg_base \in Nat
  BY Numbers DEF MallocIInv, MallocTypeOK
<1>5. EDATA <= fseg_base /\ fseg_base <= FSEG_END
  BY <1>2, <1>3, <1>4, Numbers DEF MallocIInv, FsegInv
<1>6. QED
  BY <1>3, <1>4, <1>5

\* A block of n bytes is asked for: it is above all others, and ends where the
\* next one may start.
LEMMA Allocated ==
  ASSUME MallocIInv, NEW n \in Sizes, malloc_fseg_align(n, 16), NEW p, p = FsegAddr(n, 16)
  PROVE  /\ MallocIInv'
         /\ \A b \in blocks : b \in blocks'
         /\ Fit' => /\ Fit /\ p \in Nat /\ EDATA <= fseg_base /\ fseg_base <= p
                    /\ fseg_base \in Nat /\ p + n <= FSEG_END /\ fseg_base' = p + n
                    /\ \E b \in blocks' : b.addr = p /\ b.size = n
<1>1. 16 \in Aligns /\ n \in Nat
  BY SmbiosAssumption, RequestAssumption
<1>2. MallocIInv'
  BY <1>1, FsegStep
<1>3. /\ fseg_base' = (p + n) % ADDR_SPACE
      /\ blocks' = blocks \cup {[id |-> calls, zone |-> "FSEG", addr |-> p, size |-> n,
                                 align |-> 16]}
      /\ demand' = [demand EXCEPT !["FSEG"] = @ + n + 16 - 1]
  BY DEF malloc_fseg_align, Hand
<1>4. demand \in [Zones -> Nat] /\ Zones = {"HIGH", "FSEG"}
  BY DEF MallocIInv, MallocTypeOK, Zones
<1>5. demand'["FSEG"] = demand["FSEG"] + n + 16 - 1 /\ demand'["HIGH"] = demand["HIGH"]
      /\ demand["FSEG"] \in Nat
  BY <1>3, <1>4
<1>6. ASSUME Fit'
      PROVE  /\ Fit /\ p \in Nat /\ EDATA <= fseg_base /\ fseg_base <= p
             /\ fseg_base \in Nat /\ p + n <= FSEG_END /\ fseg_base' = p + n
  <2>1. /\ demand'["FSEG"] <= FSEG_END - EDATA
        /\ demand'["HIGH"] <= STEXT - HIGH_BASE
    BY <1>4, <1>6 DEF Fit, Fits, ZoneLow, ZoneHigh
  <2>2. demand["FSEG"] <= FSEG_END - EDATA /\ demand["HIGH"] <= STEXT - HIGH_BASE
    BY <1>1, <1>5, <2>1, Numbers
  <2>3. Fit
    BY <1>4, <2>2 DEF Fit, Fits, ZoneLow, ZoneHigh
  <2>4. /\ p \in Nat /\ EDATA <= fseg_base /\ fseg_base <= p
        /\ p + n <= FSEG_END /\ (p + n) % ADDR_SPACE = p + n
    BY <1>1, <1>5, <2>1, FsegRoom
  <2>5. QED
    BY <1>3, <2>3, <2>4, FitMeans
<1>7. \E b \in blocks' : b.addr = p /\ b.size = n
  <2> DEFINE new == [id |-> calls, zone |-> "FSEG", addr |-> p, size |-> n, align |-> 16]
  <2>1. new.addr = p /\ new.size = n
    OBVIOUS
  <2>2. new \in blocks'
    BY <1>3
  <2> HIDE DEF new
  <2>3. QED
    BY <2>1, <2>2
<1>8. QED
  BY <1>2, <1>3, <1>6, <1>7

\* Addresses below the end of the F segment.
LEMMA SegmentAddresses ==
  /\ Addresses \subseteq Int
  /\ \A x \in Nat : x < FSEG_END => x \in Addresses
BY Numbers DEF Addresses

-----------------------------------------------------------------------------
(* The walk over the structures.                                           *)

\* The strings of a structure b end where it does.
LEMMA StringsEnd ==
  ASSUME NEW hdr \in Nat, NEW end \in Nat, NEW b \in Seq(Byte), Structure(b),
         Holds(mem, hdr, b), hdr + Len(b) <= end
  PROVE  AfterStrings(hdr, end) = hdr + Len(b) /\ Len(b) >= 6 /\ b[2] \in Nat
         /\ mem[hdr] = b[1] /\ mem[hdr + 1] = b[2] /\ b[2] + 2 <= Len(b)
<1> DEFINE l == Len(b)
           from == StringsFrom(hdr)
           Ends(p) == EndsAt(p, end) /\ \A q \in from .. p - 1 : ~EndsAt(q, end)
<1>1. l \in Nat /\ \A j \in 1 .. l : b[j] \in Byte
  BY LenProperties, ElementOfSeq
<1>2. /\ b[2] \in HDR_SIZE .. l - 2
      /\ \A k \in b[2] + 2 .. l : b[k - 1] = 0 /\ b[k] = 0 <=> k = l
  BY DEF Structure
<1>3. \A j \in 1 .. l : mem[hdr + j - 1] = b[j]
  BY DEF Holds
<1> HIDE DEF l
<1>4. l >= 6 /\ b[2] \in Nat /\ b[2] + 2 <= l
  BY <1>1, <1>2 DEF HDR_SIZE
<1>5. mem[hdr] = b[1] /\ mem[hdr + 1] = b[2]
  <2>1. 1 \in 1 .. l /\ 2 \in 1 .. l /\ hdr + 1 - 1 = hdr /\ hdr + 2 - 1 = hdr + 1
    BY <1>1, <1>4
  <2>2. QED
    BY <1>3, <2>1
<1>6. from \in Nat /\ from = hdr + b[2] + 2 /\ from <= hdr + l /\ hdr + l <= end
  BY <1>4, <1>5 DEF StringsFrom, l
<1> HIDE DEF from
<1>7. ASSUME NEW q \in from .. hdr + l
      PROVE  EndsAt(q, end) <=> q = hdr + l
  <2> DEFINE k == q - hdr
  <2>1. k \in b[2] + 2 .. l /\ k \in 1 .. l /\ k - 1 \in 1 .. l
    BY <1>1, <1>4, <1>6
  <2>2. b[k - 1] = 0 /\ b[k] = 0 <=> k = l
    BY <1>2, <2>1
  <2>3. hdr + k - 1 = q - 1 /\ hdr + (k - 1) - 1 = q - 2
    OBVIOUS
  <2>4. mem[hdr + k - 1] = b[k] /\ mem[hdr + (k - 1) - 1] = b[k - 1]
    BY <1>3, <2>1
  <2>5. mem[q - 1] = b[k] /\ mem[q - 2] = b[k - 1]
    BY <2>3, <2>4
  <2>6. q >= end => q = hdr + l
    BY <1>1, <1>6
  <2>7. k = l <=> q = hdr + l
    BY <1>1
  <2> HIDE DEF k
  <2>8. QED
    BY <2>2, <2>5, <2>6, <2>7 DEF EndsAt
<1>8. hdr + l \in from .. from + end /\ Ends(hdr + l)
  <2>1. hdr + l \in from .. hdr + l /\ hdr + l \in from .. from + end
    BY <1>1, <1>6
  <2>2. EndsAt(hdr + l, end)
    BY <1>7, <2>1
  <2>3. ASSUME NEW q \in from .. hdr + l - 1
        PROVE  ~EndsAt(q, end)
    <3>1. q \in from .. hdr + l /\ q # hdr + l
      BY <1>1, <1>6
    <3>2. QED
      BY <1>7, <3>1
  <2>4. PICK p : p = hdr + l
    OBVIOUS
  <2>5. EndsAt(p, end) /\ \A q \in from .. p - 1 : ~EndsAt(q, end)
    <3>1. p - 1 = hdr + l - 1
      BY <1>1, <2>4
    <3>2. QED
      BY <2>2, <2>3, <2>4, <3>1
  <2>6. Ends(p)
    BY <2>5
  <2> HIDE DEF Ends
  <2>7. QED
    BY <2>1, <2>4, <2>6
<1>9. ASSUME NEW p \in from .. from + end, Ends(p)
       PROVE  p = hdr + l
  <2>1. CASE p < hdr + l
    <3>1. p \in from .. hdr + l /\ p # hdr + l
      BY <1>1, <1>6, <2>1
    <3>2. QED
      BY <1>7, <1>9, <3>1
  <2>2. CASE p > hdr + l
    <3>1. hdr + l \in from .. p - 1
      BY <1>1, <1>6, <2>2
    <3>2. QED
      BY <1>8, <1>9, <3>1
  <2>3. p \in Int /\ hdr + l \in Int
    BY <1>1, <1>6
  <2>4. p < hdr + l \/ p = hdr + l \/ p > hdr + l
    BY <2>3
  <2>5. QED
    BY <2>1, <2>2, <2>4
<1>10. AfterStrings(hdr, end) = CHOOSE p \in from .. from + end : Ends(p)
  BY DEF AfterStrings, from
<1> HIDE DEF Ends
<1>11. AfterStrings(hdr, end) = hdr + l
  BY <1>8, <1>9, <1>10
<1>12. QED
  BY <1>4, <1>5, <1>11 DEF l

\* The l bytes b follow the first o of the t bytes all.
Among(all, t, b, l, o) ==
  /\ all \in Seq(Byte) /\ t \in Nat /\ t = Len(all)
  /\ b \in Seq(Byte) /\ l \in Nat /\ l = Len(b)
  /\ o \in Nat /\ o + l <= t /\ \A j \in 1 .. l : all[o + j] = b[j]

\* What is found of it when they are at q.
Found(b, l, o, t, q) ==
  /\ l >= 6 /\ AfterStrings(q + o, q + t) = q + o + l
  /\ mem[q + o] = b[1] /\ mem[q + o + 1] \in Nat /\ mem[q + o + 1] + 2 <= l

\* That is found of structures.
LEMMA AtStructure ==
  ASSUME NEW all, NEW t, NEW b, NEW l, NEW o, Among(all, t, b, l, o), Structure(b),
         NEW q \in Nat, Holds(mem, q, all)
  PROVE  Found(b, l, o, t, q)
<1> USE DEF Among
<1> DEFINE h == q + o
           end == q + t
<1>1. h \in Nat /\ end \in Nat /\ h = q + o /\ end = q + t
  OBVIOUS
<1> HIDE DEF h, end
<1>2. h + l <= end
  BY <1>1
<1>3. Holds(mem, h, b)
  <2>1. ASSUME NEW j \in 1 .. l
        PROVE  mem[h + j - 1] = b[j]
    <3>1. o + j \in 1 .. t /\ q + (o + j) - 1 = h + j - 1
      BY <1>1
    <3>2. mem[q + (o + j) - 1] = all[o + j]
      BY <3>1 DEF Holds
    <3>3. QED
      BY <3>1, <3>2
  <2>2. QED
    BY <2>1 DEF Holds
<1>4. /\ AfterStrings(h, end) = h + Len(b) /\ Len(b) >= 6 /\ b[2] \in Nat
      /\ mem[h] = b[1] /\ mem[h + 1] = b[2] /\ b[2] + 2 <= Len(b)
  BY <1>1, <1>2, <1>3, StringsEnd
<1>5. QED
  BY <1>1, <1>4 DEF Found

\* Where the k-th of the structures s at q is.
Located(s, k, q, t, o, l) ==
  /\ o = Past(s, k - 1) /\ Past(s, k) = o + l /\ o + l <= t
  /\ Found(s[k], l, o, t, q)

\* n structures s, t bytes, without a gap at q.
TableAt(s, n, q, t) ==
  /\ s \in Seq(Seq(Byte)) /\ n = Len(s) /\ \A k \in 1 .. n : Structure(s[k])
  /\ t = Len(FlattenSeq(s)) /\ q \in Nat /\ Holds(mem, q, FlattenSeq(s))

\* Their number and their lengths are numbers.
LEMMA TableNumbers ==
  ASSUME NEW s, NEW n, NEW q, NEW t, TableAt(s, n, q, t)
  PROVE  /\ n \in Nat /\ q \in Nat /\ t \in Nat /\ Past(s, 0) = 0 /\ Past(s, n) = t
         /\ \A k \in 0 .. n : Past(s, k) \in Nat
<1>1. /\ n \in Nat /\ \A m \in 0 .. n : Before(s, m) \in Seq(Byte)
      /\ Before(s, n) = FlattenSeq(s) /\ Before(s, 0) = <<>>
  BY BeforeIs DEF TableAt
<1>2. \A m \in 0 .. n : Past(s, m) \in Nat
  BY <1>1, LenProperties DEF Past
<1>3. n \in 0 .. n /\ Past(s, n) = t /\ Past(s, 0) = 0 /\ q \in Nat
  BY <1>1 DEF Past, TableAt
<1>4. QED
  BY <1>1, <1>2, <1>3

\* Each is somewhere.
LEMMA LocatedAt ==
  ASSUME NEW s, NEW n, NEW q, NEW t, TableAt(s, n, q, t), NEW k \in 1 .. n
  PROVE  \E o \in Nat, l \in Nat : Located(s, k, q, t, o, l)
<1>0. s \in Seq(Seq(Byte)) /\ k \in 1 .. Len(s) /\ t \in Nat
  BY TableNumbers DEF TableAt
<1>1. PICK all : all = FlattenSeq(s)
  OBVIOUS
<1>2. PICK b : b = s[k]
  OBVIOUS
<1>3. all \in Seq(Byte) /\ b \in Seq(Byte)
  <2>1. Len(s) \in 0 .. Len(s)
    BY <1>0, BeforeIs
  <2>2. QED
    BY <1>0, <1>1, <1>2, <2>1, BeforeIs
<1>4. PICK o \in Nat : o = Len(Before(s, k - 1))
  BY <1>0, Within
<1>5. PICK l \in Nat : l = Len(b)
  BY <1>0, <1>2, Within
<1>6. Len(Before(s, k)) = o + l /\ o + l <= Len(all) /\ \A j \in 1 .. l : all[o + j] = b[j]
  BY <1>0, <1>1, <1>2, <1>4, <1>5, Within
<1>7. Among(all, t, b, l, o) /\ Structure(b) /\ Holds(mem, q, all) /\ q \in Nat
  <2>1. t = Len(all) /\ Structure(b) /\ Holds(mem, q, all) /\ q \in Nat
    BY <1>0, <1>1, <1>2 DEF TableAt
  <2>2. QED
    BY <1>0, <1>3, <1>5, <1>6, <2>1 DEF Among
<1>8. Found(b, l, o, t, q)
  BY <1>7, AtStructure
<1>9. Located(s, k, q, t, o, l)
  <2>1. o + l <= t
    BY <1>7 DEF Among
  <2>2. QED
    BY <1>2, <1>4, <1>6, <1>8, <2>1 DEF Located, Past
<1>10. QED
  BY <1>9

\* smbios_next, once the table's start q and end are known.
NextFrom(h, q, end) ==
  LET ptr == IF h = NULL THEN q ELSE AfterStrings(h, end)
  IN  IF \/ h # NULL /\ h + HDR_SIZE > end
         \/ ptr + HDR_SIZE >= end
         \/ ptr + mem[ptr + 1] >= end
      THEN NULL ELSE ptr

\* There is room for a structure at p.
HeaderAt(p, end) == mem[p + 1] \in Nat /\ p + 6 <= end /\ p + mem[p + 1] + 2 <= end

\* h is NULL or a structure; p is the first, or the one behind h.
Leads(h, q, end, p) ==
  /\ p \in Nat /\ p > 0 /\ end \in Nat
  /\ h = NULL => p = q
  /\ h # NULL => AfterStrings(h, end) = p /\ h \in Nat /\ h + 6 <= end

\* It goes to p if there is a header, with its formatted area, before the end.
LEMMA Goes ==
  ASSUME NEW h, NEW q, NEW end, NEW p, Leads(h, q, end, p)
  PROVE  /\ p = end => NextFrom(h, q, end) = NULL
         /\ HeaderAt(p, end) => NextFrom(h, q, end) = p /\ p # NULL
<1> USE DEF Leads
<1>1. NextFrom(h, q, end) = IF \/ h # NULL /\ h + HDR_SIZE > end
                               \/ p + HDR_SIZE >= end
                               \/ p + mem[p + 1] >= end
                            THEN NULL ELSE p
  BY DEF NextFrom
<1>2. ~(h # NULL /\ h + HDR_SIZE > end)
  BY DEF HDR_SIZE
<1>3. p = end => p + HDR_SIZE >= end
  BY DEF HDR_SIZE
<1>4. ASSUME HeaderAt(p, end)
      PROVE  ~(p + HDR_SIZE >= end) /\ ~(p + mem[p + 1] >= end) /\ p # NULL
  BY <1>4 DEF HeaderAt, HDR_SIZE, NULL
<1>5. QED
  BY <1>1, <1>2, <1>3, <1>4

\* The walk is at h, the k-th of the structures, and p is behind it.
WalkAt(s, k, q, h, p) ==
  /\ h = IF k = 0 THEN NULL ELSE q + Past(s, k - 1)
  /\ p = q + Past(s, k)

\* It goes on there, to a structure of the same type, unless it was the last.
WalksTo(s, n, q, t, k, h, p) ==
  /\ k = n => NextFrom(h, q, q + t) = NULL
  /\ k # n => NextFrom(h, q, q + t) = p /\ p # NULL /\ mem[p] = s[k + 1][1]

\* It goes from each structure to the one behind it.
LEMMA NextStructure ==
  ASSUME NEW s, NEW n, NEW q \in Nat, q > 0, NEW t \in Nat, TableAt(s, n, q, t),
         NEW k \in 0 .. n, NEW h, NEW p, WalkAt(s, k, q, h, p)
  PROVE  WalksTo(s, n, q, t, k, h, p)
<1>0. h = (IF k = 0 THEN NULL ELSE q + Past(s, k - 1)) /\ p = q + Past(s, k)
  BY DEF WalkAt
<1> USE <1>0
<1>1. /\ n \in Nat /\ q \in Nat /\ t \in Nat /\ Past(s, k) \in Nat
      /\ Past(s, 0) = 0 /\ Past(s, n) = t
  BY TableNumbers
<1>2. PICK a \in Nat : a = Past(s, k)
  BY <1>1
<1>3. PICK end \in Nat : end = q + t
  BY <1>1
<1>4. p \in Nat /\ p > 0 /\ p = q + a
  BY <1>1, <1>2
<1>5. Leads(h, q, end, p)
  <2>1. CASE k = 0
    <3>1. h = NULL /\ a = 0
      BY <1>1, <1>2, <2>1
    <3>2. QED
      BY <1>1, <1>3, <1>4, <3>1 DEF Leads
  <2>2. CASE k # 0
    <3>1. k \in 1 .. n /\ h = q + Past(s, k - 1)
      BY <1>1, <2>2
    <3>2. PICK o \in Nat, l \in Nat : Located(s, k, q, t, o, l)
      BY <3>1, LocatedAt
    <3>3. /\ h = q + o /\ a = o + l /\ o + l <= t /\ l >= 6
          /\ AfterStrings(q + o, q + t) = q + o + l
      BY <1>2, <3>1, <3>2 DEF Located, Found
    <3>4. AfterStrings(h, end) = q + o + l
      BY <1>3, <3>3
    <3>5. h \in Nat /\ h # NULL /\ h + 6 <= end /\ q + o + l = p
      BY <1>1, <1>3, <1>4, <3>3 DEF NULL
    <3>6. QED
      BY <1>3, <1>4, <3>4, <3>5 DEF Leads
  <2>3. QED
    BY <2>1, <2>2
<1>6. /\ p = end => NextFrom(h, q, end) = NULL
      /\ HeaderAt(p, end) => NextFrom(h, q, end) = p /\ p # NULL
  BY <1>5, Goes
<1>7. ASSUME k = n
      PROVE  p = end
  BY <1>1, <1>2, <1>3, <1>4, <1>7
<1>8. ASSUME k # n
      PROVE  HeaderAt(p, end) /\ mem[p] = s[k + 1][1]
  <2>1. PICK j : j = k + 1
    OBVIOUS
  <2>2. j \in 1 .. n /\ j - 1 = k
    BY <1>1, <1>8, <2>1
  <2>3. PICK o \in Nat, l \in Nat : Located(s, j, q, t, o, l)
    BY <2>2, LocatedAt
  <2>4. /\ p = q + o /\ o + l <= t /\ l >= 6
        /\ mem[q + o] = s[j][1] /\ mem[q + o + 1] \in Nat /\ mem[q + o + 1] + 2 <= l
    BY <2>2, <2>3 DEF Located, Found
  <2>5. PICK y \in Nat : y = mem[p + 1]
    BY <2>4
  <2>6. y + 2 <= l /\ mem[p] = s[j][1]
    BY <2>4, <2>5
  <2>7. p + 6 <= end /\ p + y + 2 <= end
    BY <1>1, <1>3, <2>4, <2>6
  <2>8. HeaderAt(p, end)
    BY <2>5, <2>7 DEF HeaderAt
  <2>9. QED
    BY <2>1, <2>6, <2>8
<1>9. QED
  BY <1>3, <1>6, <1>7, <1>8 DEF WalksTo

\* Structures take 6 bytes or more.
LEMMA SixEach ==
  ASSUME NEW s \in Seq(Seq(Byte)), \A k \in 1 .. Len(s) : Structure(s[k])
  PROVE  Len(s) \in Nat /\ Len(FlattenSeq(s)) \in Nat /\ 6 * Len(s) <= Len(FlattenSeq(s))
<1> DEFINE n == Len(s)
           S == {k \in 0 .. n : 6 * k <= Len(Before(s, k))}
<1>1. /\ n \in Nat /\ Before(s, 0) = <<>> /\ Before(s, n) = FlattenSeq(s)
      /\ \A k \in 0 .. n : Before(s, k) \in Seq(Byte)
  BY BeforeIs
<1>2. 0 \in S
  BY <1>1
<1>3. ASSUME NEW k \in 1 .. n, k - 1 \in S
      PROVE  k \in S
  <2>1. PICK x, y, l : x = Len(Before(s, k - 1)) /\ y = Len(Before(s, k)) /\ l = Len(s[k])
    OBVIOUS
  <2>2. x \in Nat /\ l \in Nat /\ y = x + l
    BY <2>1, Within
  <2>3. l >= 6
    <3>1. s[k][2] \in 4 .. l - 2
      BY <2>1 DEF Structure, HDR_SIZE
    <3>2. QED
      BY <2>2, <3>1
  <2>4. 6 * (k - 1) <= x
    BY <1>3, <2>1
  <2>5. 6 * k <= y
    BY <2>2, <2>3, <2>4
  <2>6. k \in 0 .. n
    OBVIOUS
  <2>7. QED
    BY <2>1, <2>5, <2>6
<1>4. 0 .. n \subseteq S
  <2> HIDE DEF S, n
  <2>1. QED
    BY <1>1, <1>2, <1>3, Counting
<1>5. n \in S /\ n \in 0 .. n
  <2>1. n \in 0 .. n
    BY <1>1
  <2> HIDE DEF S, n
  <2>2. QED
    BY <1>4, <2>1
<1>6. Len(FlattenSeq(s)) \in Nat
  BY <1>1, <1>5, LenProperties
<1>7. QED
  BY <1>1, <1>5, <1>6

-----------------------------------------------------------------------------
(* The steps of extract_smbios.                                            *)

\* The F segment, as plain numbers.
LEMMA SegmentNumbers ==
  /\ EDATA \in Nat /\ EDATA > 0 /\ FSEG_END \in Nat /\ FSEG_END < ADDR_SPACE
  /\ FSEG_END <= 16 * 65536 /\ FSEG_END <= EDATA + 65536 /\ EP_SIZE = 31
<1>1. FSEG_END <= 1048576 /\ FSEG_END - EDATA <= 65536
  BY SmbiosAssumption
<1>2. FSEG_END <= 16 * 65536
  BY <1>1, Numbers, SMT
<1>3. QED
  BY <1>1, <1>2, Numbers DEF EP_SIZE

\* Files are bytes.
LEMMA Files ==
  ASSUME SmTypes
  PROVE  /\ machine.anchor # None => machine.anchor \in Seq(Byte)
         /\ machine.tables # None => /\ machine.tables \in Seq(Byte)
                                     /\ Len(machine.tables) + t0_len \in Sizes
         /\ machine.structs \in Seq(Seq(Byte))
BY SmbiosAssumption DEF SmTypes

\* While nothing changes in the allocators, what is in their blocks stays there.
LEMMA SameBlocks ==
  ASSUME MallocIInv, UNCHANGED mallocVars
  PROVE  MallocIInv' /\ Fit' = Fit /\ fseg_base' = fseg_base /\ blocks' = blocks
<1>1. MallocIInv'
  BY MallocStutter
<1>2. demand' = demand /\ fseg_base' = fseg_base /\ blocks' = blocks
  BY DEF mallocVars
<1>3. Fit' = Fit
  BY <1>2 DEF Fit, Fits
<1>4. QED
  BY <1>1, <1>2, <1>3

\* Giving up leaves what is written where it is.
LEMMA GiveUp ==
  ASSUME SmIInv, pc \in {"anchor", "tables"}, pc' = "return", mem' = mem,
         UNCHANGED mallocVars, machine' = machine, need_t0' = need_t0
  PROVE  SmIInv'
<1>1. MallocIInv /\ SmTypes
  BY DEF SmIInv
<1>2. MallocIInv' /\ Fit' = Fit /\ blocks' = blocks
  BY <1>1, SameBlocks
<1>3. SmTypes'
  BY <1>1 DEF SmTypes
<1>4. ASSUME Fit
      PROVE  /\ SmMemory' /\ Placed' /\ Filled' /\ Walked' /\ SumsZero'
  <2>1. SmMemory /\ Placed
    BY <1>4 DEF SmIInv
  <2>2. SmMemory'
    BY <2>1 DEF SmMemory, IsMemory
  <2>3. ASSUME NEW x \in Addresses, mem[x] # Junk
        PROVE  InBlocks(x)
    <3>1. pc = "tables"
      BY <2>1, <2>3 DEF Placed
    <3>2. AnchorBlock /\ InAnchor(x)
      BY <2>1, <2>3, <3>1 DEF Placed
    <3>3. QED
      BY <3>2 DEF AnchorBlock, InAnchor, InBlocks
  <2>4. Placed'
    BY <1>2, <2>3 DEF Placed, InBlocks, Walking
  <2>5. Filled' /\ Walked' /\ SumsZero'
    BY DEF Filled, Walked, SumsZero, Walking
  <2>6. QED
    BY <2>2, <2>4, <2>5
<1>5. QED
  BY <1>2, <1>3, <1>4 DEF SmIInv

\* The anchor is copied to its block.
LEMMA ReadAnchorStep == SmIInv /\ read_anchor => SmIInv'
<1> SUFFICES ASSUME SmIInv, read_anchor
             PROVE  SmIInv'
  OBVIOUS
<1>1. MallocIInv /\ SmTypes /\ pc = "anchor"
  BY DEF SmIInv, read_anchor
<1>2. UNCHANGED <<machine, qtables, table_header, need_t0>>
  BY DEF read_anchor
<1>3. CASE machine.anchor = None \/ Len(machine.anchor) # EP_SIZE
  <2>1. pc' = "return" /\ UNCHANGED mallocVars /\ mem' = mem
    BY <1>3 DEF read_anchor
  <2>2. QED
    BY <1>1, <1>2, <2>1, GiveUp
<1>4. CASE ~(machine.anchor = None \/ Len(machine.anchor) # EP_SIZE)
  <2>1. PICK p : p = FsegAddr(EP_SIZE, 16)
    OBVIOUS
  <2>2. PICK b : b = machine.anchor
    OBVIOUS
  <2>3. /\ malloc_fseg_align(EP_SIZE, 16) /\ ep' = p /\ mem' = Stored(mem, p, b)
        /\ pc' = "tables"
    BY <1>4, <2>1, <2>2 DEF read_anchor
  <2>4. IsBytes(b, EP_SIZE)
    BY <1>1, <1>4, <2>2, Files, SeqBytes
  <2>5. EP_SIZE \in Sizes
    BY SmbiosAssumption
  <2>6. MallocIInv'
    BY <1>1, <2>1, <2>3, <2>5, Allocated
  <2>7. SmTypes'
    BY <1>1, <1>2, <2>3 DEF SmTypes
  <2>8. ASSUME Fit'
        PROVE  SmMemory' /\ Placed' /\ Filled' /\ Walked' /\ SumsZero'
    <3>1. /\ Fit /\ p \in Nat /\ EDATA <= fseg_base /\ fseg_base <= p
          /\ fseg_base \in Nat /\ p + EP_SIZE <= FSEG_END /\ fseg_base' = p + EP_SIZE
          /\ \E c \in blocks' : c.addr = p /\ c.size = EP_SIZE
      BY <1>1, <2>1, <2>3, <2>5, <2>8, Allocated
    <3>2. SmMemory /\ Placed
      BY <3>1 DEF SmIInv
    <3>3. IsMemory(mem, Addresses) /\ \A x \in Addresses : mem[x] = Junk
      BY <1>1, <3>2 DEF SmMemory, Placed
    <3>4. Changed(mem', mem, Addresses, p, EP_SIZE, b)
      BY <2>3, <2>4, <3>1, <3>3, StoredBytes
    <3>5. p .. p + EP_SIZE - 1 \subseteq Addresses
      <4>1. \A x \in p .. p + EP_SIZE - 1 : x \in Nat /\ x < FSEG_END
        BY <3>1, SegmentNumbers
      <4>2. QED
        BY <4>1, SegmentAddresses
    <3>6. Holds(mem', p, b)
      BY <2>3, <2>4, <3>1, <3>3, <3>5, StoredHolds
    <3>7. SmMemory'
      BY <2>3, <3>4 DEF SmMemory, Changed, IsMemory
    <3>8. ASSUME NEW x \in Addresses, mem'[x] # Junk
          PROVE  p <= x /\ x < p + EP_SIZE
      <4>1. x \in Int /\ p \in Int /\ EP_SIZE \in Int
        BY <3>1, SegmentAddresses, SegmentNumbers
      <4>2. ~(x < p \/ p + EP_SIZE <= x)
        BY <3>3, <3>4, <3>8 DEF Changed
      <4>3. QED
        BY <4>1, <4>2
    <3>9. AnchorBlock'
      <4>1. EDATA <= p /\ p + EP_SIZE <= fseg_base'
        BY <3>1, SegmentNumbers
      <4>2. QED
        BY <2>3, <3>1, <4>1 DEF AnchorBlock
    <3>10. Placed'
      BY <2>3, <3>8, <3>9 DEF Placed, InAnchor, Walking
    <3>11. Filled'
      BY <1>2, <2>2, <2>3, <2>4, <3>6 DEF Filled, Holds, IsBytes, Walking
    <3>12. Walked' /\ SumsZero'
      BY <2>3 DEF Walked, SumsZero, Walking
    <3>13. QED
      BY <3>7, <3>10, <3>11, <3>12
  <2>9. QED
    BY <2>6, <2>7, <2>8 DEF SmIInv
<1>5. QED
  BY <1>3, <1>4

\* The anchor at e in memory l has these fields; a number that is too large is
\* another one.
HasFields(l, e, length, address, number) ==
  /\ Half(l, e + 22) = length
  /\ Half(l, e + 24) + 65536 * Half(l, e + 26) = address
  /\ number < 65536 => Half(l, e + 28) = number

\* They are written in memory m.
FieldsStored(l, m, e, length, address, number) ==
  l = Stored(m, e + 22, TableFields(length, address, number))

\* Then they are there, and nothing else changes.
LEMMA FieldsWritten ==
  ASSUME NEW m, IsMemory(m, Addresses), NEW e \in Nat, e + EP_SIZE <= FSEG_END,
         NEW length \in Nat, NEW address \in Nat, NEW number \in Nat,
         length < 65536, address < 256 * 65536,
         NEW l, FieldsStored(l, m, e, length, address, number)
  PROVE  /\ IsMemory(l, Addresses) /\ HasFields(l, e, length, address, number)
         /\ \A x \in Addresses : x < e + 22 \/ e + 30 <= x => l[x] = m[x]
<1>1. PICK b : b = TableFields(length, address, number)
  OBVIOUS
<1>2. IsBytes(b, 8)
  BY <1>1, FieldsBytes
<1>3. PICK a \in Nat : a = e + 22
  OBVIOUS
<1>4. l = Stored(m, a, b) /\ a \in Int
  BY <1>1, <1>3 DEF FieldsStored
<1>5. Changed(l, m, Addresses, a, 8, b)
  BY <1>2, <1>4, StoredBytes
<1>6. a .. a + 8 - 1 \subseteq Addresses
  <2>1. \A x \in a .. a + 8 - 1 : x \in Nat /\ x < FSEG_END
    BY <1>3, SegmentNumbers
  <2>2. QED
    BY <2>1, SegmentAddresses
<1>7. Holds(l, a, b)
  BY <1>2, <1>4, <1>6, StoredHolds
<1>8. /\ Half(l, a) = length /\ Half(l, a + 2) + 65536 * Half(l, a + 4) = address
      /\ number < 65536 => Half(l, a + 6) = number
  <2>1. Holds(l, a, TableFields(length, address, number))
    BY <1>1, <1>7
  <2>2. a \in Int
    BY <1>4
  <2>3. QED
    BY <2>1, <2>2, FieldsRead
<1>9. a + 2 = e + 24 /\ a + 4 = e + 26 /\ a + 6 = e + 28
  BY <1>3
<1>10. HasFields(l, e, length, address, number)
  BY <1>3, <1>8, <1>9 DEF HasFields
<1>11. ASSUME NEW x \in Addresses, x < e + 22 \/ e + 30 <= x
       PROVE  l[x] = m[x]
  <2>1. x < a \/ a + 8 <= x
    BY <1>3, <1>11, SegmentAddresses
  <2>2. QED
    BY <1>5, <2>1 DEF Changed
<1>12. QED
  BY <1>5, <1>10, <1>11 DEF Changed

\* The structures are in place in the next state.
LEMMA FillingNext ==
  ASSUME pc' \in Walking,
         TablesHold(mem', ep', qtables', machine'.anchor, machine'.tables,
                 Len(machine'.tables), Put0', Room')
  PROVE  Filled'
<1>1. pc' # "tables"
  BY DEF Walking
<1>2. QED
  BY <1>1 DEF Filled, TablesHold, Holds, IsBytes, Half, Largest

\* The structures are copied, and the anchor told where they are.
LEMMA ReadTablesStep == SmIInv /\ read_tables => SmIInv'
<1> SUFFICES ASSUME SmIInv, read_tables
             PROVE  SmIInv'
  OBVIOUS
<1>1. MallocIInv /\ SmTypes /\ pc = "tables"
  BY DEF SmIInv, read_tables
<1>2. UNCHANGED <<machine, ep, table_header, need_t0>>
  BY DEF read_tables
<1>3. PICK length : length = structure_table_length(ep)
  OBVIOUS
<1>4. CASE machine.tables = None \/ Len(machine.tables) # length
  <2>1. pc' = "return" /\ UNCHANGED mallocVars /\ mem' = mem
    BY <1>3, <1>4 DEF read_tables
  <2>2. QED
    BY <1>1, <1>2, <2>1, GiveUp
<1>5. CASE ~(machine.tables = None \/ Len(machine.tables) # length)
  <2>1. PICK n : n = length + t0_len
    OBVIOUS
  <2>2. PICK p : p = FsegAddr(n, 16)
    OBVIOUS
  <2>3. PICK b : b = machine.tables
    OBVIOUS
  <2>4. PICK number : number = number_of_structures(ep)
    OBVIOUS
  <2>5. /\ malloc_fseg_align(n, 16) /\ qtables' = p + t0_len
        /\ mem' = Stored(Stored(mem, qtables', b), ep + 22, TableFields(length, qtables', number))
        /\ pc' = "walk"
    BY <1>3, <1>5, <2>1, <2>2, <2>3, <2>4 DEF read_tables, TablesAt
  <2>6. IsBytes(b, length) /\ length \in Nat /\ Len(b) = length
    BY <1>1, <1>5, <2>3, Files, SeqBytes, LengthOfBytes
  <2>7. n \in Sizes /\ t0_len = 46
    BY <1>1, <1>5, <2>1, Files, Type0Bytes
  <2>8. MallocIInv'
    BY <1>1, <2>2, <2>5, <2>7, Allocated
  <2>9. SmTypes'
    BY <1>1, <1>2, <2>5 DEF SmTypes, Walking
  <2>10. ASSUME Fit'
         PROVE  SmMemory' /\ Placed' /\ Filled' /\ Walked' /\ SumsZero'
    <3>1. /\ Fit /\ p \in Nat /\ EDATA <= fseg_base /\ fseg_base <= p
          /\ fseg_base \in Nat /\ p + n <= FSEG_END /\ fseg_base' = p + n
          /\ \E c \in blocks' : c.addr = p /\ c.size = n
          /\ \A c \in blocks : c \in blocks'
      BY <1>1, <2>2, <2>5, <2>7, <2>10, Allocated
    <3>2. SmMemory /\ Placed /\ Filled
      BY <3>1 DEF SmIInv
    <3>3. /\ IsMemory(mem, Addresses) /\ AnchorBlock
          /\ \A x \in Addresses : mem[x] # Junk => InAnchor(x)
      BY <1>1, <3>2 DEF SmMemory, Placed
    <3>4. PICK a : a = machine.anchor
      OBVIOUS
    <3>5. IsBytes(a, 31) /\ Holds(mem, ep, a)
      BY <1>1, <3>2, <3>4, SegmentNumbers DEF Filled
    <3>6. PICK e \in Nat : e = ep
      BY <3>3 DEF AnchorBlock
    <3>7. PICK q \in Nat : q = p + 46 /\ q = qtables'
      BY <2>5, <2>7, <3>1
    <3>8. /\ e + 31 <= fseg_base /\ e + 31 <= p /\ q + length <= FSEG_END /\ n = length + 46
          /\ q + length = fseg_base' /\ e + 31 <= FSEG_END /\ EDATA <= e
      BY <2>1, <2>6, <2>7, <3>1, <3>3, <3>6, <3>7, SegmentNumbers DEF AnchorBlock
    <3>9. length < 65536 /\ q < 256 * 65536 /\ number = Half(a, 29) /\ number \in Nat /\ number < 65536
      <4>1. number = Half(a, 29)
        <5>1. 29 \in 1 .. 31 - 1 /\ e \in Int /\ e + 29 - 1 = e + 28
          BY <3>6
        <5>2. Half(mem, e + 29 - 1) = Half(a, 29)
          BY <3>5, <3>6, <5>1, HalfHolds
        <5>3. QED
          BY <2>4, <3>6, <5>1, <5>2 DEF number_of_structures
      <4>2. Half(a, 29) \in Nat /\ Half(a, 29) < 65536
        BY <3>5, HalfOfBytes
      <4>3. length < 65536 /\ q < 256 * 65536
        <5>1. PICK size \in Nat : size = length
          BY <2>6
        <5>2. /\ EDATA \in Nat /\ FSEG_END \in Nat /\ FSEG_END <= 16 * 65536
              /\ FSEG_END <= EDATA + 65536 /\ q \in Nat /\ e \in Nat
              /\ EDATA <= e /\ e + 31 <= p /\ q = p + 46 /\ q + size <= FSEG_END /\ p \in Nat
          BY <3>1, <3>6, <3>7, <3>8, <5>1, SegmentNumbers
        <5>3. size < 65536 /\ q < 256 * 65536
          BY <5>2
        <5>4. QED
          BY <5>1, <5>3
      <4>4. QED
        BY <4>1, <4>2, <4>3
    <3>10. PICK m : m = Stored(mem, q, b)
      OBVIOUS
    <3>11. mem' = Stored(m, e + 22, TableFields(length, q, number))
      BY <2>5, <3>6, <3>7, <3>10
    <3>12. Changed(m, mem, Addresses, q, length, b)
      BY <2>6, <3>3, <3>10, StoredBytes
    <3>13. IsMemory(m, Addresses)
      BY <3>12 DEF Changed
    <3>14. /\ IsMemory(mem', Addresses) /\ HasFields(mem', e, length, q, number)
           /\ \A x \in Addresses : x < e + 22 \/ e + 30 <= x => mem'[x] = m[x]
      <4>1. EP_SIZE = 31 /\ e + EP_SIZE <= FSEG_END
        BY <3>8, SegmentNumbers
      <4>2. length \in Nat /\ q \in Nat /\ number \in Nat /\ e \in Nat
        BY <2>6, <3>9
      <4>3. length < 65536 /\ q < 256 * 65536
        BY <3>9
      <4>4. FieldsStored(mem', m, e, length, q, number)
        BY <3>11 DEF FieldsStored
      <4>5. QED
        BY <3>13, <4>1, <4>2, <4>3, <4>4, FieldsWritten
    <3>15. \A x \in Addresses : x < q \/ q + length <= x => m[x] = mem[x]
      BY <3>12 DEF Changed
    <3>16. q .. q + length - 1 \subseteq Addresses
      <4>1. \A x \in q .. q + length - 1 : x \in Nat /\ x < FSEG_END
        BY <2>6, <3>8, SegmentNumbers
      <4>2. QED
        BY <4>1, SegmentAddresses
    <3>17. Holds(mem', q, b)
      <4>1. Holds(m, q, b)
        BY <2>6, <3>3, <3>10, <3>16, StoredHolds
      <4>2. \A x \in q .. q + length - 1 : x \in Addresses /\ e + 30 <= x
        BY <2>6, <3>1, <3>7, <3>8, <3>16
      <4>3. \A x \in q .. q + length - 1 : mem'[x] = m[x]
        BY <3>14, <4>2
      <4>4. QED
        BY <2>6, <4>1, <4>3, HoldsKept
    <3>18. ASSUME NEW j \in {5, 8, 9}
           PROVE  mem'[e + j] = a[j + 1]
      <4>1. e + j \in Nat /\ e + j < FSEG_END /\ e + j < e + 22 /\ e + j < q
            /\ j + 1 \in 1 .. 31 /\ e + (j + 1) - 1 = e + j
        <5>1. PICK y \in Nat : y = j
          OBVIOUS
        <5>2. j < 22 /\ j + 1 <= 31 /\ j + 1 >= 1
          OBVIOUS
        <5>3. PICK z \in Nat : z = p
          BY <3>1
        <5>4. e + 31 <= z /\ q = z + 46 /\ e + 31 <= FSEG_END /\ FSEG_END \in Nat
          BY <3>7, <3>8, <5>3, SegmentNumbers
        <5>5. QED
          BY <5>1, <5>2, <5>4
      <4>2. e + j \in Addresses
        BY <4>1, SegmentAddresses
      <4>3. mem'[e + j] = mem[e + j]
        BY <3>14, <3>15, <4>1, <4>2
      <4>4. Len(a) = 31
        BY <3>5, LengthOfBytes
      <4>5. mem[e + (j + 1) - 1] = a[j + 1]
        BY <3>5, <3>6, <4>1, <4>4 DEF Holds
      <4>6. QED
        BY <4>1, <4>3, <4>5
    <3>19. mem'[e + 5] = a[6] /\ Half(mem', e + 8) = Half(a, 9)
      <4>1. mem'[e + 5] = a[5 + 1] /\ mem'[e + 8] = a[8 + 1] /\ mem'[e + 9] = a[9 + 1]
        BY <3>18
      <4>2. e + 8 + 1 = e + 9 /\ 5 + 1 = 6 /\ 8 + 1 = 9 /\ 9 + 1 = 10
        OBVIOUS
      <4>3. QED
        BY <4>1, <4>2 DEF Half
    <3>20. Put0' = FALSE /\ Room' = 0
      BY <2>5 DEF Put0, Room
    <3>21. Filled'
      <4>1. PICK size \in Nat : size = length
        BY <2>6
      <4>2. IsBytes(a, EP_SIZE) /\ IsBytes(b, size) /\ size = Len(b)
        BY <2>6, <3>5, <4>1, SegmentNumbers
      <4>3. Half(mem', e + 22) = size + 0
        BY <3>14, <4>1 DEF HasFields
      <4>4. Half(mem', e + 24) + 65536 * Half(mem', e + 26) = q - 0
        BY <3>14 DEF HasFields
      <4>5. Half(mem', e + 28) = Half(a, 29) + 0
        BY <3>9, <3>14 DEF HasFields
      <4>6. TablesHold(mem', e, q, a, b, size, FALSE, 0)
        BY <3>17, <3>19, <4>2, <4>3, <4>4, <4>5 DEF TablesHold
      <4>7. /\ e = ep' /\ q = qtables' /\ pc' \in Walking /\ a = machine'.anchor
            /\ b = machine'.tables /\ size = Len(machine'.tables)
        BY <1>2, <2>3, <2>5, <3>4, <3>6, <3>7, <4>2 DEF Walking
      <4>8. QED
        BY <3>20, <4>6, <4>7, FillingNext
    <3>22. ASSUME NEW x \in Addresses, mem'[x] # Junk
           PROVE  InAnchor(x) \/ (p <= x /\ x < q + length)
      <4>1. x \in Int
        BY SegmentAddresses
      <4>2. CASE e + 22 <= x /\ x < e + 30
        BY <3>6, <4>1, <4>2, SegmentNumbers DEF InAnchor
      <4>3. CASE q <= x /\ x < q + length
        BY <3>1, <3>7, <4>1, <4>3
      <4>4. CASE ~(e + 22 <= x /\ x < e + 30) /\ ~(q <= x /\ x < q + length)
        <5>1. (x < e + 22 \/ e + 30 <= x) /\ (x < q \/ q + length <= x)
          BY <2>6, <4>1, <4>4
        <5>2. mem'[x] = mem[x]
          BY <3>14, <3>15, <5>1
        <5>3. QED
          BY <3>3, <3>22, <5>2
      <4>5. QED
        BY <4>2, <4>3, <4>4
    <3>23. AnchorBlock'
      <4>1. ep' = ep /\ ep + EP_SIZE <= fseg_base'
        BY <1>2, <2>6, <3>6, <3>7, <3>8, <3>1, SegmentNumbers
      <4>2. \E c \in blocks' : c.addr = ep /\ c.size = EP_SIZE
        BY <3>1, <3>3 DEF AnchorBlock
      <4>3. QED
        BY <3>3, <4>1, <4>2 DEF AnchorBlock
    <3>24. TablesBlock'
      <4>1. machine' = machine /\ Len(machine.tables) = length /\ ep' = ep
        BY <1>2, <2>3, <2>6
      <4>2. q - 46 = p /\ length + 46 = n
        BY <3>1, <3>7, <3>8
      <4>3. ep + EP_SIZE <= p
        BY <3>6, <3>8, SegmentNumbers
      <4>4. fseg_base' \in Nat /\ q \in Nat /\ q + length <= fseg_base'
        <5>1. fseg_base' \in Nat
          BY <2>6, <3>7, <3>8
        <5>2. QED
          BY <3>8, <5>1
      <4>5. QED
        BY <2>7, <3>1, <3>7, <4>1, <4>2, <4>3, <4>4 DEF TablesBlock
    <3>25. Placed'
      <4>1. ASSUME NEW x \in Addresses, mem'[x] # Junk
            PROVE  InAnchor(x)' \/ InTables(x)'
        <5>1. InAnchor(x) => InAnchor(x)'
          BY <1>2 DEF InAnchor
        <5>2. ASSUME p <= x /\ x < q + length
              PROVE  InTables(x)'
          <6>1. machine' = machine /\ Len(machine.tables) = length /\ q - 46 = p
            BY <1>2, <2>3, <2>6, <3>1, <3>7
          <6>2. QED
            BY <2>7, <3>7, <5>2, <6>1 DEF InTables
        <5>3. QED
          BY <3>22, <4>1, <5>1, <5>2
      <4>2. QED
        BY <2>5, <3>23, <3>24, <4>1 DEF Placed, Walking
    <3>26. Walked'
      <4>1. pc' = "walk" /\ table_header' = NULL /\ machine' = machine
        BY <1>1, <1>2, <2>5 DEF SmTypes
      <4>2. PICK s : s = machine.structs
        OBVIOUS
      <4>3. Len(s) \in Nat
        BY <1>1, <4>2, Files, LenProperties
      <4>4. 0 \in 0 .. Len(s) /\ \A j \in 1 .. 0 : s[j][1] # 0
        BY <4>3
      <4>5. QED
        BY <4>1, <4>2, <4>4 DEF Walked
    <3>27. SmMemory' /\ SumsZero'
      BY <2>5, <3>14 DEF SmMemory, SumsZero, IsMemory
    <3>28. QED
      BY <3>21, <3>25, <3>26, <3>27
  <2>11. QED
    BY <2>8, <2>9, <2>10 DEF SmIInv
<1>6. QED
  BY <1>4, <1>5

-----------------------------------------------------------------------------
(* The walk over the structures in memory.                                 *)

\* The structures in memory are QEMU's, and the walk goes from one to the next.
LEMMA WalksOn ==
  ASSUME Filled, Described(machine), SmTypes, AnchorBlock, TablesBlock, pc = "walk",
         NEW s, s = machine.structs, NEW n, n = Len(s),
         NEW k \in 0 .. n, NEW p, WalkAt(s, k, qtables, table_header, p)
  PROVE  /\ n \in Nat /\ DOMAIN s = 1 .. n
         /\ k = n => smbios_next(table_header) = NULL
         /\ k # n => smbios_next(table_header) = p /\ p # NULL /\ mem[p] = s[k + 1][1]
<1>1. PICK b : b = machine.tables
  OBVIOUS
<1>2. PICK t : t = Len(b)
  OBVIOUS
<1>3. s \in Seq(Seq(Byte)) /\ b = FlattenSeq(s) /\ \A j \in DOMAIN s : Structure(s[j])
  BY <1>1, Files DEF Described
<1>4. n \in Nat /\ DOMAIN s = 1 .. n
  BY <1>3, LenProperties
<1>5. Room = 0
  BY DEF Room, Put0
<1>6. /\ IsBytes(b, t) /\ Half(mem, ep + 22) = t + 0 /\ Holds(mem, qtables, b)
      /\ Half(mem, ep + 24) + 65536 * Half(mem, ep + 26) = qtables - 0
  BY <1>1, <1>2, <1>5 DEF Filled, TablesHold, Walking
<1>7. t \in Nat /\ qtables \in Nat /\ qtables > 0
  <2>1. t \in Nat
    BY <1>6 DEF IsBytes
  <2>2. ep \in Nat /\ qtables \in Nat /\ ep + EP_SIZE <= qtables - t0_len /\ t0_len = 46
    BY Type0Bytes DEF AnchorBlock, TablesBlock
  <2>3. QED
    BY <2>1, <2>2, SegmentNumbers
<1>8. structure_table_address(ep) = qtables /\ structure_table_length(ep) = t
  BY <1>6, <1>7 DEF structure_table_address, structure_table_length
<1>9. TableAt(s, n, qtables, t)
  <2>1. \A j \in 1 .. n : Structure(s[j])
    BY <1>3, <1>4
  <2>2. t = Len(FlattenSeq(s)) /\ Holds(mem, qtables, FlattenSeq(s))
    BY <1>2, <1>3, <1>6
  <2>3. QED
    BY <1>3, <1>7, <2>1, <2>2 DEF TableAt
<1>10. smbios_next(table_header) = NextFrom(table_header, qtables, qtables + t)
  BY <1>8, Zenon DEF smbios_next, NextFrom
<1>11. WalksTo(s, n, qtables, t, k, table_header, p)
  BY <1>7, <1>9, NextStructure
<1>12. QED
  BY <1>4, <1>10, <1>11 DEF WalksTo

\* A turn of the walk.
LEMMA WalkStep == SmIInv /\ walk => SmIInv'
<1> SUFFICES ASSUME SmIInv, walk
             PROVE  SmIInv'
  OBVIOUS
<1>1. PICK p : p = smbios_next(table_header)
  OBVIOUS
<1>2. /\ pc = "walk" /\ table_header' = p
      /\ UNCHANGED mallocVars /\ UNCHANGED <<machine, mem, ep, qtables>>
      /\ \/ p = NULL /\ pc' = "type_0" /\ need_t0' = TRUE
         \/ p # NULL /\ mem[p] = 0 /\ pc' = "seal" /\ need_t0' = FALSE
         \/ p # NULL /\ mem[p] # 0 /\ pc' = "walk" /\ need_t0' = TRUE
  <2>1. /\ pc = "walk" /\ table_header' = p
        /\ UNCHANGED mallocVars /\ UNCHANGED <<machine, mem, ep, qtables>>
    BY <1>1 DEF walk
  <2>2. /\ need_t0' = ~(p # NULL /\ mem[p] = 0)
        /\ pc' = CASE p = NULL -> "type_0" [] ~need_t0' -> "seal" [] OTHER -> "walk"
    BY <1>1 DEF walk
  <2>3. CASE p = NULL
    BY <2>1, <2>2, <2>3
  <2>4. CASE p # NULL /\ mem[p] = 0
    BY <2>1, <2>2, <2>4
  <2>5. CASE p # NULL /\ mem[p] # 0
    BY <2>1, <2>2, <2>5
  <2>6. QED
    BY <2>3, <2>4, <2>5
<1>3. MallocIInv /\ SmTypes
  BY DEF SmIInv
<1>4. MallocIInv' /\ Fit' = Fit /\ fseg_base' = fseg_base /\ blocks' = blocks
  BY <1>2, <1>3, SameBlocks
<1>5. SmTypes'
  BY <1>2, <1>3 DEF SmTypes, Walking
<1>6. ASSUME Fit
      PROVE  SmMemory' /\ Placed' /\ Filled' /\ Walked' /\ SumsZero'
  <2>1. SmMemory /\ Placed /\ Filled /\ Walked
    BY <1>6 DEF SmIInv
  <2>2. pc' \in Walking /\ pc \in Walking /\ pc' \notin {"done", "anchor", "tables", "return"}
    BY <1>2 DEF Walking
  <2>3. SmMemory' /\ SumsZero'
    BY <1>2, <2>1, <2>2 DEF SmMemory, SumsZero, IsMemory
  <2>4. Placed'
    BY <1>2, <1>4, <2>1, <2>2 DEF Placed, AnchorBlock, TablesBlock, InAnchor, InTables
  <2>5. Filled'
    <3>1. Put0 = FALSE /\ Put0' = FALSE /\ Room = 0 /\ Room' = 0
      BY <1>2 DEF Put0, Room
    <3>2. TablesHold(mem, ep, qtables, machine.anchor, machine.tables, Len(machine.tables), FALSE, 0)
      BY <2>1, <2>2, <3>1 DEF Filled
    <3>3. /\ mem' = mem /\ ep' = ep /\ qtables' = qtables /\ machine'.anchor = machine.anchor
          /\ machine'.tables = machine.tables /\ Len(machine'.tables) = Len(machine.tables)
      BY <1>2
    <3>4. QED
      BY <2>2, <3>1, <3>2, <3>3, FillingNext
  <2>6. ASSUME Described(machine)
        PROVE  Walked'
    <3>1. PICK s : s = machine.structs
      OBVIOUS
    <3>2. PICK n : n = Len(s)
      OBVIOUS
    <3>3. PICK k \in 0 .. n :
             /\ table_header = IF k = 0 THEN NULL ELSE qtables + Past(s, k - 1)
             /\ \A j \in 1 .. k : s[j][1] # 0
      BY <1>2, <2>1, <2>2, <2>6, <3>1, <3>2 DEF Walked
    <3>4. AnchorBlock /\ TablesBlock
      BY <2>1, <2>2 DEF Placed
    <3>5. PICK x : x = qtables + Past(s, k)
      OBVIOUS
    <3>6. WalkAt(s, k, qtables, table_header, x)
      BY <3>3, <3>5 DEF WalkAt
    <3>7. /\ n \in Nat /\ DOMAIN s = 1 .. n
          /\ k = n => p = NULL
          /\ k # n => p = x /\ x # NULL /\ mem[x] = s[k + 1][1]
      BY <1>1, <1>2, <1>3, <2>1, <2>6, <3>1, <3>2, <3>4, <3>6, WalksOn
    <3>8. CASE k = n
      <4>1. pc' = "type_0"
        BY <1>2, <3>7, <3>8
      <4>2. ~(\E j \in DOMAIN s : s[j][1] = 0)
        BY <3>3, <3>7, <3>8
      <4>3. QED
        BY <1>2, <3>1, <4>1, <4>2 DEF Walked, HasType0
    <3>9. CASE k # n /\ s[k + 1][1] = 0
      <4>1. pc' = "seal" /\ need_t0' = FALSE
        BY <1>2, <3>7, <3>9
      <4>2. k + 1 \in DOMAIN s
        BY <3>7, <3>9
      <4>3. \E j \in DOMAIN s : s[j][1] = 0
        BY <3>9, <4>2
      <4>4. QED
        BY <1>2, <3>1, <4>1, <4>3 DEF Walked, HasType0
    <3>10. CASE k # n /\ s[k + 1][1] # 0
      <4>1. pc' = "walk" /\ table_header' = qtables' + Past(s, k)
        BY <1>2, <3>5, <3>7, <3>10
      <4>2. PICK y : y = k + 1
        OBVIOUS
      <4>3. y \in 0 .. n /\ y # 0 /\ y - 1 = k
        BY <3>7, <3>10, <4>2
      <4>4. \A j \in 1 .. y : s[j][1] # 0
        <5>1. \A j \in 1 .. y : j \in 1 .. k \/ j = k + 1
          BY <3>7, <4>2
        <5>2. QED
          BY <3>3, <3>10, <5>1
      <4>5. table_header' = IF y = 0 THEN NULL ELSE qtables' + Past(s, y - 1)
        BY <4>1, <4>3
      <4>6. Walked'
        BY <1>2, <3>1, <3>2, <4>1, <4>3, <4>4, <4>5 DEF Walked, NULL
      <4>7. QED
        BY <4>6
    <3>11. QED
      BY <3>8, <3>9, <3>10
  <2>7. QED
    <3>1. Described(machine') => Walked'
      BY <1>2, <2>6
    <3>2. ~Described(machine') => Walked'
      BY DEF Walked
    <3>3. QED
      BY <2>3, <2>4, <2>5, <3>1, <3>2
<1>7. QED
  BY <1>4, <1>5, <1>6 DEF SmIInv

-----------------------------------------------------------------------------
(* The type 0 structure.                                                   *)

\* Bytes stored below the end of the F segment.
LEMMA Storing ==
  ASSUME NEW m, IsMemory(m, Addresses), NEW a \in Nat, NEW n, NEW b, IsBytes(b, n),
         a + n <= FSEG_END, NEW l, l = Stored(m, a, b)
  PROVE  Changed(l, m, Addresses, a, n, b) /\ Holds(l, a, b)
<1>1. n \in Nat /\ a \in Int
  BY LengthOfBytes
<1>2. a .. a + n - 1 \subseteq Addresses
  <2>1. \A x \in a .. a + n - 1 : x \in Nat /\ x < FSEG_END
    BY <1>1, SegmentNumbers
  <2>2. QED
    BY <2>1, SegmentAddresses
<1>3. QED
  BY <1>1, <1>2, StoredBytes, StoredHolds

\* Bytes below that end stay if no address of theirs is written.
LEMMA Staying ==
  ASSUME NEW m, NEW l, NEW a \in Nat, NEW n, NEW b, IsBytes(b, n), Holds(m, a, b),
         a + n <= FSEG_END, \A x \in Addresses : a <= x /\ x < a + n => l[x] = m[x]
  PROVE  Holds(l, a, b)
<1>1. n \in Nat /\ a \in Int
  BY LengthOfBytes
<1>2. ASSUME NEW x \in a .. a + n - 1
      PROVE  l[x] = m[x]
  <2>1. x \in Nat /\ x < FSEG_END /\ a <= x /\ x < a + n
    BY <1>1, SegmentNumbers
  <2>2. QED
    BY <2>1, SegmentAddresses
<1>3. QED
  BY <1>1, <1>2, HoldsKept

\* So do the anchor's fields.
LEMMA FieldsStay ==
  ASSUME NEW m, NEW l, NEW e \in Nat, e + EP_SIZE <= FSEG_END,
         NEW length, NEW address, NEW number, HasFields(m, e, length, address, number),
         \A x \in Addresses : e + 22 <= x /\ x < e + 30 => l[x] = m[x]
  PROVE  HasFields(l, e, length, address, number)
<1>1. ASSUME NEW j \in {22, 24, 26, 28}
      PROVE  Half(l, e + j) = Half(m, e + j)
  <2>1. EP_SIZE = 31 /\ FSEG_END \in Nat
    BY SegmentNumbers
  <2>2. /\ e + j \in Nat /\ e + j < FSEG_END /\ e + 22 <= e + j /\ e + j < e + 30
        /\ e + j + 1 \in Nat /\ e + j + 1 < FSEG_END /\ e + 22 <= e + j + 1 /\ e + j + 1 < e + 30
    BY <2>1
  <2>3. l[e + j] = m[e + j] /\ l[e + j + 1] = m[e + j + 1]
    BY <2>2, SegmentAddresses
  <2>4. QED
    BY <2>3 DEF Half
<1>2. /\ Half(l, e + 22) = Half(m, e + 22) /\ Half(l, e + 24) = Half(m, e + 24)
      /\ Half(l, e + 26) = Half(m, e + 26) /\ Half(l, e + 28) = Half(m, e + 28)
  BY <1>1
<1>3. QED
  BY <1>2 DEF HasFields

\* Memory l is m with Type0 at z, and an anchor at e that says so.
Type0Put(m, l, e, z, length, number, max) ==
  /\ IsMemory(l, Addresses)
  /\ Holds(l, z, Type0)
  /\ HasFields(l, e, length, z, number)
  /\ Half(l, e + 8) = max
  /\ \A x \in Addresses :
       /\ e + EP_SIZE <= x /\ (x < z \/ z + t0_len <= x) => l[x] = m[x]
       /\ x < e + 8 => l[x] = m[x]

\* What the three stores do.
LEMMA PuttingType0 ==
  ASSUME NEW m, IsMemory(m, Addresses), NEW e \in Nat, NEW z \in Nat,
         e + EP_SIZE <= z, z + t0_len <= FSEG_END,
         NEW length \in Nat, NEW number \in Nat, NEW max \in Nat,
         length < 65536, max < 65536,
         NEW l, l = Stored(Stored(Stored(m, z, Type0), e + 22, TableFields(length, z, number)),
                           e + 8, LE(max, 2))
  PROVE  Type0Put(m, l, e, z, length, number, max)
<1>1. /\ EP_SIZE = 31 /\ t0_len = 46 /\ FSEG_END \in Nat /\ FSEG_END <= 16 * 65536
      /\ IsBytes(Type0, t0_len)
  BY SegmentNumbers, Type0Bytes
<1>2. PICK k : k = Stored(m, z, Type0)
  OBVIOUS
<1>3. PICK j : j = Stored(k, e + 22, TableFields(length, z, number))
  OBVIOUS
<1>4. PICK a \in Nat : a = e + 8
  OBVIOUS
<1>5. l = Stored(j, a, LE(max, 2))
  BY <1>2, <1>3, <1>4
<1>6. Changed(k, m, Addresses, z, t0_len, Type0) /\ Holds(k, z, Type0)
  BY <1>1, <1>2, Storing
<1>7. IsMemory(k, Addresses)
  BY <1>6 DEF Changed
<1>8. e + EP_SIZE <= FSEG_END /\ z < 256 * 65536
  BY <1>1
<1>9. /\ IsMemory(j, Addresses) /\ HasFields(j, e, length, z, number)
      /\ \A x \in Addresses : x < e + 22 \/ e + 30 <= x => j[x] = k[x]
  <2>1. FieldsStored(j, k, e, length, z, number)
    BY <1>3 DEF FieldsStored
  <2>2. QED
    BY <1>7, <1>8, <2>1, FieldsWritten
<1>10. IsBytes(LE(max, 2), 2)
  BY LEBytes
<1>11. a + 2 <= FSEG_END
  BY <1>1, <1>4, <1>8
<1>12. Changed(l, j, Addresses, a, 2, LE(max, 2)) /\ Holds(l, a, LE(max, 2))
  BY <1>5, <1>9, <1>10, <1>11, Storing
<1>13. IsMemory(l, Addresses) /\ Addresses \subseteq Int
  BY <1>12 DEF Changed, IsMemory
<1>14. \A x \in Addresses : x < e + 8 \/ e + 10 <= x => l[x] = j[x]
  <2>1. \A x \in Addresses : x < a \/ a + 2 <= x => l[x] = j[x]
    BY <1>12 DEF Changed
  <2>2. a = e + 8 /\ a + 2 = e + 10
    BY <1>4
  <2>3. QED
    BY <2>1, <2>2
<1>15. \A x \in Addresses : x < z \/ z + 46 <= x => k[x] = m[x]
  BY <1>1, <1>6 DEF Changed
<1>16. \A x \in Addresses : e + 31 <= x => l[x] = k[x]
  <2>1. ASSUME NEW x \in Addresses, e + 31 <= x
        PROVE  e + 30 <= x /\ e + 10 <= x
    BY <1>13, <2>1
  <2>2. QED
    BY <1>9, <1>14, <2>1
<1>17. Half(l, e + 8) = max
  BY <1>4, <1>12, HalfRead
<1>18. HasFields(l, e, length, z, number)
  <2>1. ASSUME NEW x \in Addresses, e + 22 <= x /\ x < e + 30
        PROVE  l[x] = j[x]
    <3>1. e + 10 <= x
      BY <1>13, <2>1
    <3>2. QED
      BY <1>14, <3>1
  <2>2. QED
    BY <1>8, <1>9, <2>1, FieldsStay
<1>19. Holds(l, z, Type0)
  <2>1. ASSUME NEW x \in Addresses, z <= x /\ x < z + t0_len
        PROVE  l[x] = k[x]
    <3>1. e + 31 <= x
      BY <1>1, <1>13, <2>1
    <3>2. QED
      BY <1>16, <3>1
  <2>2. QED
    BY <1>1, <1>6, <2>1, Staying
<1>20. ASSUME NEW x \in Addresses, e + EP_SIZE <= x, x < z \/ z + t0_len <= x
       PROVE  l[x] = m[x]
  BY <1>1, <1>15, <1>16, <1>20
<1>21. ASSUME NEW x \in Addresses, x < e + 8
       PROVE  l[x] = m[x]
  <2>1. x < e + 22 /\ x < z
    BY <1>1, <1>13, <1>21
  <2>2. QED
    BY <1>9, <1>14, <1>15, <1>21, <2>1
<1>22. QED
  BY <1>13, <1>17, <1>18, <1>19, <1>20, <1>21 DEF Type0Put

\* Where things are in the F segment once the structures are copied: the anchor
\* at e, the n bytes of structures at q, and room for type 0 at z.
Blocks(e, q, z, n) ==
  /\ e \in Nat /\ q \in Nat /\ z \in Nat /\ n \in Nat
  /\ EDATA <= e /\ e + 31 <= z /\ z + 46 = q /\ q + n <= FSEG_END
  /\ n + 46 < 65536 /\ z + 46 <= FSEG_END /\ e + EP_SIZE <= z /\ z + t0_len <= FSEG_END

\* They are.
LEMMA BlocksAre ==
  ASSUME AnchorBlock, TablesBlock, MallocIInv, Fit, IsBytes(machine.tables, Len(machine.tables))
  PROVE  \E z \in Nat : Blocks(ep, qtables, z, Len(machine.tables))
<1>1. PICK n \in Nat : n = Len(machine.tables)
  BY DEF IsBytes
<1>2. /\ fseg_base \in Nat /\ fseg_base <= FSEG_END /\ t0_len = 46
      /\ EDATA \in Nat /\ FSEG_END \in Nat /\ FSEG_END <= EDATA + 65536 /\ EP_SIZE = 31
  BY FitMeans, SegmentNumbers, Type0Bytes
<1>3. PICK e \in Nat : e = ep /\ EDATA <= e
  BY DEF AnchorBlock
<1>4. PICK q \in Nat : q = qtables /\ e + 31 <= q - 46 /\ q + n <= fseg_base
  BY <1>1, <1>2, <1>3 DEF TablesBlock
<1>5. PICK z \in Nat : z = q - 46
  BY <1>4
<1>6. /\ e + 31 <= z /\ z + 46 = q /\ q + n <= FSEG_END /\ n + 46 < 65536 /\ z + 46 <= FSEG_END
  BY <1>2, <1>3, <1>4, <1>5
<1>7. Blocks(e, q, z, n)
  BY <1>2, <1>3, <1>6 DEF Blocks
<1>8. QED
  BY <1>1, <1>3, <1>4, <1>7

\* The anchor a is as QEMU made it, but for where its structures are.
AsQemu(m, e, q, a, t, n) == TablesHold(m, e, q, a, t, n, FALSE, 0)

\* Then this is what it says.
Says(m, e, q, a, t, n) ==
  /\ IsBytes(a, EP_SIZE) /\ IsBytes(t, n) /\ n = Len(t) /\ n \in Nat
  /\ m[e + 5] = a[6] /\ Holds(m, q, t)
  /\ Half(m, e + 22) = n /\ Half(m, e + 24) + 65536 * Half(m, e + 26) = q
  /\ Half(m, e + 28) = Half(a, 29) /\ Half(m, e + 8) = Half(a, 9)
  /\ Half(a, 29) \in Nat /\ Half(a, 29) < 65536
  /\ Half(a, 9) \in Nat /\ Half(a, 9) < 65536

\* It does, before type 0 is put.
LEMMA TablesRead ==
  ASSUME NEW m, NEW e, NEW q \in Nat, NEW a, NEW t, NEW n, AsQemu(m, e, q, a, t, n)
  PROVE  Says(m, e, q, a, t, n)
<1>1. /\ IsBytes(a, EP_SIZE) /\ IsBytes(t, n) /\ n = Len(t)
      /\ m[e + 5] = a[6] /\ Holds(m, q, t)
      /\ Half(m, e + 22) = n + 0 /\ Half(m, e + 24) + 65536 * Half(m, e + 26) = q - 0
      /\ Half(m, e + 28) = Half(a, 29) + 0 /\ Half(m, e + 8) = Half(a, 9)
  BY DEF AsQemu, TablesHold
<1>2. n \in Nat /\ EP_SIZE = 31
  BY <1>1, SegmentNumbers DEF IsBytes
<1>3. 29 \in 1 .. EP_SIZE - 1 /\ 9 \in 1 .. EP_SIZE - 1
  BY <1>2
<1>4. /\ Half(a, 29) \in Nat /\ Half(a, 29) < 65536
      /\ Half(a, 9) \in Nat /\ Half(a, 9) < 65536
  BY <1>1, <1>3, HalfOfBytes
<1>5. QED
  BY <1>1, <1>2, <1>4 DEF Says

\* What is in place, once type 0 is put.
LEMMA Type0InPlace ==
  ASSUME NEW m, NEW l, NEW e, NEW q, NEW z, NEW a, NEW t, NEW n,
         AsQemu(m, e, q, a, t, n), Blocks(e, q, z, n),
         Type0Put(m, l, e, z, n + 46, Half(a, 29) + 1, Largest(Half(a, 9)))
  PROVE  TablesHold(l, e, q, a, t, n, TRUE, 46)
<1>1. /\ e \in Nat /\ q \in Nat /\ z \in Nat /\ n \in Nat /\ e + 31 <= z /\ z + 46 = q
      /\ q + n <= FSEG_END /\ FSEG_END \in Nat /\ t0_len = 46 /\ EP_SIZE = 31
  BY SegmentNumbers, Type0Bytes DEF Blocks
<1>2. /\ IsBytes(a, EP_SIZE) /\ IsBytes(t, n) /\ n = Len(t)
      /\ m[e + 5] = a[6] /\ Holds(m, q, t)
      /\ Half(a, 29) \in Nat /\ Half(a, 29) < 65536
  <2>1. q \in Nat
    BY <1>1
  <2>2. Says(m, e, q, a, t, n)
    BY <2>1, TablesRead
  <2>3. QED
    BY <2>2 DEF Says
<1>3. /\ Holds(l, z, Type0) /\ HasFields(l, e, n + 46, z, Half(a, 29) + 1)
      /\ Half(l, e + 8) = Largest(Half(a, 9)) /\ Addresses \subseteq Int
      /\ \A x \in Addresses : /\ e + 31 <= x /\ (x < z \/ z + 46 <= x) => l[x] = m[x]
                              /\ x < e + 8 => l[x] = m[x]
  BY <1>1 DEF Type0Put, IsMemory
<1>4. l[e + 5] = a[6]
  <2>1. e + 5 \in Nat /\ e + 5 < FSEG_END /\ e + 5 < e + 8
    BY <1>1
  <2>2. QED
    BY <1>2, <1>3, <2>1, SegmentAddresses
<1>5. Holds(l, q, t)
  <2>1. ASSUME NEW x \in Addresses, q <= x /\ x < q + n
        PROVE  l[x] = m[x]
    <3>1. e + 31 <= x /\ z + 46 <= x
      BY <1>1, <1>3, <2>1
    <3>2. QED
      BY <1>3, <3>1
  <2>2. QED
    <3>1. IsBytes(t, n) /\ Holds(m, q, t)
      BY <1>2
    <3>2. q \in Nat /\ q + n <= FSEG_END
      BY <1>1
    <3>3. QED
      BY <2>1, <3>1, <3>2, Staying
<1>6. PICK h \in Nat : h = Half(a, 29) /\ h < 65536
  BY <1>2
<1>7. h = 65535 \/ Half(l, e + 28) = h + 1
  <2>1. h + 1 < 65536 => Half(l, e + 28) = h + 1
    BY <1>3, <1>6 DEF HasFields
  <2>2. h = 65535 \/ h + 1 < 65536
    BY <1>6
  <2>3. QED
    BY <2>1, <2>2
<1>8. /\ Half(l, e + 22) = n + 46
      /\ Half(l, e + 24) + 65536 * Half(l, e + 26) = q - 46
      /\ q - t0_len = z
  <2>1. z = q - 46
    BY <1>1
  <2>2. Half(l, e + 22) = n + 46 /\ Half(l, e + 24) + 65536 * Half(l, e + 26) = z
    BY <1>3 DEF HasFields
  <2>3. QED
    BY <1>1, <2>1, <2>2
<1>9. QED
  BY <1>2, <1>3, <1>4, <1>5, <1>6, <1>7, <1>8 DEF TablesHold

\* A type 0 structure is put below QEMU's.
LEMMA Type0Step == SmIInv /\ type_0 => SmIInv'
<1> SUFFICES ASSUME SmIInv, type_0
             PROVE  SmIInv'
  OBVIOUS
<1>1. MallocIInv /\ SmTypes /\ pc = "type_0" /\ pc' = "seal" /\ need_t0 = TRUE
  BY DEF SmIInv, type_0, SmTypes
<1>2. UNCHANGED mallocVars /\ UNCHANGED <<machine, ep, qtables, table_header, need_t0>>
  BY DEF type_0
<1>3. MallocIInv' /\ Fit' = Fit /\ fseg_base' = fseg_base /\ blocks' = blocks
  BY <1>1, <1>2, SameBlocks
<1>4. SmTypes'
  BY <1>1, <1>2 DEF SmTypes, Walking
<1>5. ASSUME Fit
      PROVE  SmMemory' /\ Placed' /\ Filled' /\ Walked' /\ SumsZero'
  <2>1. SmMemory /\ Placed /\ Filled /\ Walked
    BY <1>5 DEF SmIInv
  <2>2. pc \in Walking /\ pc' \in Walking /\ "type_0" \in Walking /\ "seal" \in Walking
    BY <1>1 DEF Walking
  <2>3. Put0 = FALSE /\ Room = 0 /\ Put0' = TRUE /\ Room' = t0_len /\ t0_len = 46
    BY <1>1, <1>2, Type0Bytes DEF Put0, Room
  <2>4. IsMemory(mem, Addresses) /\ AnchorBlock /\ TablesBlock
    BY <1>1, <2>1, <2>2 DEF SmMemory, Placed
  <2>5. PICK a : a = machine.anchor
    OBVIOUS
  <2>6. PICK t : t = machine.tables
    OBVIOUS
  <2>7. PICK n : n = Len(t)
    OBVIOUS
  <2>8. PICK e : e = ep
    OBVIOUS
  <2>9. PICK q : q = qtables
    OBVIOUS
  <2>10. AsQemu(mem, e, q, a, t, n)
    BY <2>1, <2>2, <2>3, <2>5, <2>6, <2>7, <2>8, <2>9 DEF Filled, AsQemu
  <2>11. IsBytes(t, n)
    BY <2>10 DEF AsQemu, TablesHold
  <2>12. PICK z \in Nat : Blocks(e, q, z, n)
    BY <1>1, <1>5, <2>4, <2>6, <2>7, <2>8, <2>9, <2>11, BlocksAre
  <2>13. /\ e \in Nat /\ q \in Nat /\ n \in Nat /\ n + 46 < 65536 /\ z = q - t0_len /\ z = q - 46
         /\ e + EP_SIZE <= z /\ z + t0_len <= FSEG_END
    BY <2>3, <2>12 DEF Blocks
  <2>14. PICK h : h = Half(a, 29)
    OBVIOUS
  <2>15. PICK k : k = Half(a, 9)
    OBVIOUS
  <2>16. /\ Half(mem, e + 22) = n /\ Half(mem, e + 24) + 65536 * Half(mem, e + 26) = q
         /\ Half(mem, e + 28) = h /\ Half(mem, e + 8) = k
         /\ h \in Nat /\ h < 65536 /\ k \in Nat /\ k < 65536
    <3>1. q \in Nat
      BY <2>13
    <3>2. Says(mem, e, q, a, t, n)
      BY <2>10, <3>1, TablesRead
    <3>3. QED
      BY <2>14, <2>15, <3>2 DEF Says
  <2>17. PICK max : max = Largest(k)
    OBVIOUS
  <2>18. max \in Nat /\ max < 65536
    BY <2>3, <2>16, <2>17 DEF Largest
  <2>19. mem' = Stored(Stored(Stored(mem, z, Type0), e + 22, TableFields(n + 46, z, h + 1)),
                       e + 8, LE(max, 2))
    <3>1. mem' = Stored(Stored(Stored(mem, qtables - t0_len, Type0),
                               ep + 22,
                               TableFields(structure_table_length(ep) + t0_len,
                                           structure_table_address(ep) - t0_len,
                                           number_of_structures(ep) + 1)),
                        ep + 8, LE(Largest(max_structure_size(ep)), 2))
      BY DEF type_0
    <3>2. /\ structure_table_length(ep) = n /\ structure_table_address(ep) = q
          /\ number_of_structures(ep) = h /\ max_structure_size(ep) = k
      BY <2>8, <2>16
         DEF structure_table_length, structure_table_address, number_of_structures,
             max_structure_size
    <3>3. q - t0_len = z /\ t0_len = 46
      BY <2>3, <2>13
    <3>4. QED
      BY <2>8, <2>9, <2>17, <3>1, <3>2, <3>3
  <2>20. PICK l : l = mem'
    OBVIOUS
  <2>21. PICK length \in Nat : length = n + 46 /\ length < 65536
    BY <2>13
  <2>22. PICK number \in Nat : number = h + 1
    BY <2>16
  <2>23. Type0Put(mem, l, e, z, length, number, max)
    BY <2>4, <2>13, <2>18, <2>19, <2>20, <2>21, <2>22, PuttingType0
  <2>24. TablesHold(l, e, q, a, t, n, TRUE, 46)
    <3>1. Type0Put(mem, l, e, z, n + 46, Half(a, 29) + 1, Largest(Half(a, 9)))
      BY <2>14, <2>15, <2>17, <2>21, <2>22, <2>23
    <3>2. QED
      BY <2>10, <2>12, <3>1, Type0InPlace
  <2>25. Filled'
    <3>1. /\ machine'.anchor = a /\ machine'.tables = t /\ Len(machine'.tables) = n
          /\ ep' = e /\ qtables' = q
      BY <1>2, <2>5, <2>6, <2>7, <2>8, <2>9
    <3>2. QED
      BY <2>2, <2>3, <2>20, <2>24, <3>1, FillingNext
  <2>26. SmMemory' /\ SumsZero'
    BY <1>1, <2>20, <2>23 DEF SmMemory, SumsZero, Type0Put, IsMemory
  <2>27. ASSUME NEW x \in Addresses, l[x] # Junk
         PROVE  (e <= x /\ x < e + EP_SIZE) \/ (z <= x /\ x < q + n)
    <3>1. /\ x \in Int /\ EP_SIZE = 31 /\ z + 46 = q /\ t0_len = 46
          /\ e \in Nat /\ q \in Nat /\ n \in Nat /\ z \in Nat /\ e + 31 <= z
      BY <2>3, <2>12, SegmentAddresses, SegmentNumbers DEF Blocks
    <3>2. CASE mem[x] # Junk
      <4>1. InAnchor(x) \/ InTables(x)
        BY <2>1, <2>2, <3>2 DEF Placed
      <4>2. CASE InAnchor(x)
        BY <2>8, <4>2 DEF InAnchor
      <4>3. CASE InTables(x)
        BY <2>6, <2>7, <2>9, <2>13, <4>3 DEF InTables
      <4>4. QED
        BY <4>1, <4>2, <4>3
    <3>3. CASE mem[x] = Junk
      <4>1. l[x] # mem[x]
        BY <2>27, <3>3
      <4>2. ~(x < e + 8) /\ ~(e + EP_SIZE <= x /\ (x < z \/ z + t0_len <= x))
        BY <2>23, <4>1 DEF Type0Put
      <4>3. QED
        BY <3>1, <4>2
    <3>4. QED
      BY <3>2, <3>3
  <2>28. Placed'
    <3>1. AnchorBlock' /\ TablesBlock'
      BY <1>2, <1>3, <2>4 DEF AnchorBlock, TablesBlock
    <3>2. ASSUME NEW x \in Addresses, mem'[x] # Junk
          PROVE  InAnchor(x)' \/ InTables(x)'
      <4>1. (e <= x /\ x < e + EP_SIZE) \/ (z <= x /\ x < q + n)
        BY <2>20, <2>27, <3>2
      <4>2. /\ ep' = e /\ qtables' = q /\ Len(machine'.tables) = n /\ q - t0_len = z
        BY <1>2, <2>6, <2>7, <2>8, <2>9, <2>13
      <4>3. QED
        BY <4>1, <4>2 DEF InAnchor, InTables
    <3>3. QED
      BY <1>1, <2>2, <3>1, <3>2 DEF Placed
  <2>29. Walked'
    <3>1. Described(machine) => ~HasType0
      BY <1>1, <2>1, <2>2 DEF Walked
    <3>2. QED
      BY <1>1, <1>2, <3>1 DEF Walked, HasType0
  <2>30. QED
    BY <2>25, <2>26, <2>28, <2>29
<1>6. QED
  BY <1>3, <1>4, <1>5 DEF SmIInv

-----------------------------------------------------------------------------
(* The checksums.                                                          *)

\* What is put for w makes up for a sum s that w is in.
LEMMA MadeUp ==
  ASSUME NEW s \in 0 .. 255, NEW w \in 0 .. 255
  PROVE  Sealed(w, s) \in Byte /\ (s + (Sealed(w, s) - w)) % 256 = 0
<1>1. (w - s) % 256 = IF w >= s THEN w - s ELSE w - s + 256
  OBVIOUS
<1>2. s + (((w - s) % 256) - w) = IF w >= s THEN 0 ELSE 256
  BY <1>1
<1>3. 0 % 256 = 0 /\ 256 % 256 = 0
  OBVIOUS
<1>4. (s + (((w - s) % 256) - w)) % 256 = 0
  BY <1>2, <1>3
<1>5. (w - s) % 256 \in Byte
  BY LowByte
<1>6. QED
  BY <1>4, <1>5 DEF Sealed

\* Memory l is m but for the sum of the n bytes at a, which is made up for at p.
SumPut(m, l, a, n, p) ==
  /\ l[p] = Sealed(m[p], csum8(Load(m, a, n)))
  /\ \A x \in Addresses : a <= x /\ x < a + n /\ x # p => l[x] = m[x]

\* Then that sum is zero.
LEMMA SumIsZero ==
  ASSUME NEW m, NEW l, IsMemory(m, Addresses), NEW a \in Nat, NEW n \in Nat, a + n <= FSEG_END,
         NEW p \in Nat, a <= p, p < a + n, SumPut(m, l, a, n, p)
  PROVE  csum8(Load(l, a, n)) = 0 /\ IsBytes(Load(l, a, n), n) /\ l[p] \in Byte
<1>1. PICK b : b = Load(m, a, n)
  OBVIOUS
<1>2. PICK c : c = Load(l, a, n)
  OBVIOUS
<1>3. \A x \in Nat : a <= x /\ x < a + n => x \in Addresses
  BY SegmentNumbers, SegmentAddresses
<1>4. IsBytes(b, n)
  <2>1. a \in Int /\ a .. a + n - 1 \subseteq Addresses
    BY <1>3
  <2>2. QED
    BY <1>1, <2>1, LoadBytes
<1>5. PICK y \in 1 .. n : a + y - 1 = p
  <2>1. p - a + 1 \in 1 .. n /\ a + (p - a + 1) - 1 = p
    OBVIOUS
  <2>2. QED
    BY <2>1
<1>6. \A k \in 1 .. n : b[k] = m[a + k - 1] /\ c[k] = l[a + k - 1]
  BY <1>1, <1>2 DEF Load
<1>7. \A k \in 1 .. n : b[k] \in Byte
  BY <1>4 DEF IsBytes
<1>8. csum8(b) \in Byte
  BY <1>4, SumType
<1>9. b[y] \in 0 .. 255 /\ csum8(b) \in 0 .. 255 /\ b[y] = m[p]
  BY <1>5, <1>6, <1>7, <1>8 DEF Byte
<1>10. c[y] = Sealed(b[y], csum8(b))
  BY <1>1, <1>5, <1>6, <1>9 DEF SumPut
<1>11. c[y] \in Byte /\ (csum8(b) + (c[y] - b[y])) % 256 = 0
  <2>1. PICK w \in 0 .. 255 : w = b[y]
    BY <1>9
  <2>2. PICK s \in 0 .. 255 : s = csum8(b)
    BY <1>9, SMTT(30)
  <2>3. Sealed(w, s) \in Byte /\ (s + (Sealed(w, s) - w)) % 256 = 0
    BY MadeUp
  <2>4. c[y] = Sealed(w, s)
    BY <1>10, <2>1, <2>2
  <2>5. QED
    BY <2>1, <2>2, <2>3, <2>4
<1>12. \A k \in (1 .. n) \ {y} : c[k] = b[k]
  <2>1. ASSUME NEW k \in 1 .. n, k # y
        PROVE  c[k] = b[k]
    <3>1. a + k - 1 \in Nat /\ a <= a + k - 1 /\ a + k - 1 < a + n /\ a + k - 1 # p
      BY <1>5, <2>1
    <3>2. a + k - 1 \in Addresses
      BY <1>3, <3>1
    <3>3. l[a + k - 1] = m[a + k - 1]
      BY <3>1, <3>2 DEF SumPut
    <3>4. QED
      BY <1>6, <3>3
  <2>2. QED
    BY <2>1
<1>13. IsBytes(c, n)
  <2>1. \A k \in 1 .. n : c[k] \in Byte
    BY <1>7, <1>11, <1>12
  <2>2. c = [k \in 1 .. n |-> l[a + k - 1]]
    BY <1>2 DEF Load
  <2>3. c = [k \in 1 .. n |-> c[k]]
    BY <2>2
  <2>4. QED
    BY <2>1, <2>3 DEF IsBytes
<1>14. csum8(c) = (csum8(b) + (c[y] - b[y])) % 256
  BY <1>4, <1>12, <1>13, SumChange
<1>15. QED
  BY <1>2, <1>5, <1>6, <1>11, <1>13, <1>14

\* Memory l is m with v and w in the anchor's two checksums.
SumsPut(m, l, e, v, w) ==
  /\ DOMAIN l = Addresses
  /\ l[e + 4] = v /\ l[e + 21] = w
  /\ \A x \in Addresses : x # e + 4 /\ x # e + 21 => l[x] = m[x]

\* That is what seal does.
LEMMA Sealing ==
  ASSUME NEW m, IsMemory(m, Addresses), NEW e \in Nat, e + 31 <= FSEG_END, NEW s, NEW t,
         NEW l, l = [m EXCEPT ![e + 4] = Sealed(@, s), ![e + 21] = Sealed(@, t)]
  PROVE  SumsPut(m, l, e, Sealed(m[e + 4], s), Sealed(m[e + 21], t))
<1>1. DOMAIN m = Addresses
  BY DEF IsMemory
<1>2. e + 4 \in Addresses /\ e + 21 \in Addresses /\ e + 4 # e + 21
  <2>1. e + 4 \in Nat /\ e + 21 \in Nat /\ e + 4 < FSEG_END /\ e + 21 < FSEG_END /\ e + 4 # e + 21
    BY SegmentNumbers
  <2>2. QED
    BY <2>1, SegmentAddresses
<1>3. QED
  BY <1>1, <1>2 DEF SumsPut

\* What is in place stays there.
LEMMA SealedInPlace ==
  ASSUME NEW m, NEW l, NEW e, NEW q, NEW z, NEW a, NEW t, NEW n, NEW put, NEW room,
         NEW v, NEW w, TablesHold(m, e, q, a, t, n, put, room), Blocks(e, q, z, n),
         SumsPut(m, l, e, v, w)
  PROVE  TablesHold(l, e, q, a, t, n, put, room)
<1>1. /\ e \in Nat /\ q \in Nat /\ z \in Nat /\ n \in Nat /\ e + 31 <= z /\ z + 46 = q
      /\ q + n <= FSEG_END /\ FSEG_END \in Nat /\ t0_len = 46 /\ z + 46 <= FSEG_END
      /\ IsBytes(Type0, 46) /\ q - t0_len = z
  BY SegmentNumbers, Type0Bytes DEF Blocks
<1>2. /\ IsBytes(a, EP_SIZE) /\ IsBytes(t, n) /\ n = Len(t)
      /\ m[e + 5] = a[6]
      /\ Half(m, e + 22) = n + room
      /\ Half(m, e + 24) + 65536 * Half(m, e + 26) = q - room
      /\ \/ put /\ Half(a, 29) = 65535
         \/ Half(m, e + 28) = Half(a, 29) + IF put THEN 1 ELSE 0
      /\ Half(m, e + 8) = IF put THEN Largest(Half(a, 9)) ELSE Half(a, 9)
      /\ Holds(m, q, t)
      /\ put => Holds(m, q - t0_len, Type0)
  BY DEF TablesHold
<1>3. /\ \A x \in Addresses : x # e + 4 /\ x # e + 21 => l[x] = m[x]
      /\ Addresses \subseteq Int
  BY SegmentAddresses DEF SumsPut
<1>4. ASSUME NEW j \in {5, 8, 9, 22, 23, 24, 25, 26, 27, 28, 29}
      PROVE  l[e + j] = m[e + j]
  <2>1. e + j \in Nat /\ e + j < FSEG_END /\ e + j # e + 4 /\ e + j # e + 21
    BY <1>1
  <2>2. QED
    BY <1>3, <2>1, SegmentAddresses
<1>5. ASSUME NEW j \in {8, 22, 24, 26, 28}
      PROVE  Half(l, e + j) = Half(m, e + j)
  <2>1. e + j + 1 = e + (j + 1)
    BY <1>1
  <2>2. /\ j \in {5, 8, 9, 22, 23, 24, 25, 26, 27, 28, 29}
        /\ j + 1 \in {5, 8, 9, 22, 23, 24, 25, 26, 27, 28, 29}
    OBVIOUS
  <2>3. l[e + j] = m[e + j] /\ l[e + (j + 1)] = m[e + (j + 1)]
    BY <1>4, <2>2
  <2>4. QED
    BY <2>1, <2>3 DEF Half
<1>6. /\ l[e + 5] = m[e + 5] /\ Half(l, e + 8) = Half(m, e + 8)
      /\ Half(l, e + 22) = Half(m, e + 22) /\ Half(l, e + 24) = Half(m, e + 24)
      /\ Half(l, e + 26) = Half(m, e + 26) /\ Half(l, e + 28) = Half(m, e + 28)
  BY <1>4, <1>5
<1>7. ASSUME NEW x \in Addresses, z <= x
      PROVE  l[x] = m[x]
  <2>1. x # e + 4 /\ x # e + 21
    BY <1>1, <1>3, <1>7
  <2>2. QED
    BY <1>3, <2>1
<1>8. Holds(l, q, t)
  <2>1. ASSUME NEW x \in Addresses, q <= x /\ x < q + n
        PROVE  l[x] = m[x]
    <3>1. z <= x
      BY <1>1, <1>3, <2>1
    <3>2. QED
      BY <1>7, <3>1
  <2>2. IsBytes(t, n) /\ Holds(m, q, t)
    BY <1>2
  <2>3. q \in Nat /\ q + n <= FSEG_END
    BY <1>1
  <2>4. QED
    BY <2>1, <2>2, <2>3, Staying
<1>9. ASSUME put
      PROVE  Holds(l, q - t0_len, Type0)
  <2>1. Holds(m, z, Type0)
    BY <1>1, <1>2, <1>9
  <2>2. z \in Nat /\ z + 46 <= FSEG_END /\ IsBytes(Type0, 46)
    BY <1>1
  <2>3. \A x \in Addresses : z <= x /\ x < z + 46 => l[x] = m[x]
    BY <1>7
  <2>4. Holds(l, z, Type0)
    BY <2>1, <2>2, <2>3, Staying
  <2>5. QED
    BY <1>1, <2>4
<1>10. QED
  BY <1>2, <1>6, <1>8, <1>9 DEF TablesHold

\* The anchor is sealed.
LEMMA SealStep == SmIInv /\ seal => SmIInv'
<1> SUFFICES ASSUME SmIInv, seal
             PROVE  SmIInv'
  OBVIOUS
<1>1. MallocIInv /\ SmTypes /\ pc = "seal" /\ pc' = "done"
  BY DEF SmIInv, seal
<1>2. UNCHANGED mallocVars /\ UNCHANGED <<machine, ep, qtables, table_header, need_t0>>
  BY DEF seal
<1>3. MallocIInv' /\ Fit' = Fit /\ fseg_base' = fseg_base /\ blocks' = blocks
  BY <1>1, <1>2, SameBlocks
<1>4. SmTypes'
  BY <1>1, <1>2 DEF SmTypes, Walking
<1>5. ASSUME Fit
      PROVE  SmMemory' /\ Placed' /\ Filled' /\ Walked' /\ SumsZero'
  <2>1. SmMemory /\ Placed /\ Filled /\ Walked
    BY <1>5 DEF SmIInv
  <2>2. pc \in Walking /\ pc' \in Walking
    BY <1>1 DEF Walking
  <2>3. Put0' = Put0 /\ Room' = Room
    BY <1>1, <1>2 DEF Put0, Room
  <2>4. IsMemory(mem, Addresses) /\ AnchorBlock /\ TablesBlock
    BY <1>1, <2>1, <2>2 DEF SmMemory, Placed
  <2>5. PICK a : a = machine.anchor
    OBVIOUS
  <2>6. PICK t : t = machine.tables
    OBVIOUS
  <2>7. PICK n : n = Len(t)
    OBVIOUS
  <2>8. PICK e : e = ep
    OBVIOUS
  <2>9. PICK q : q = qtables
    OBVIOUS
  <2>10. TablesHold(mem, e, q, a, t, n, Put0, Room)
    BY <2>1, <2>2, <2>5, <2>6, <2>7, <2>8, <2>9 DEF Filled
  <2>11. IsBytes(t, n) /\ mem[e + 5] = a[6]
    BY <2>10 DEF TablesHold
  <2>12. PICK z \in Nat : Blocks(e, q, z, n)
    BY <1>1, <1>5, <2>4, <2>6, <2>7, <2>8, <2>9, <2>11, BlocksAre
  <2>13. e \in Nat /\ e + 31 <= FSEG_END /\ z = q - t0_len
    BY Type0Bytes, SegmentNumbers, <2>12 DEF Blocks
  <2>14. PICK s : s = csum8(Load(mem, e, HALF_EP))
    OBVIOUS
  <2>15. PICK s2 : s2 = csum8(Load(mem, e + HALF_EP, SecondSum))
    OBVIOUS
  <2>16. PICK l : l = mem'
    OBVIOUS
  <2>17. l = [mem EXCEPT ![e + 4] = Sealed(@, s), ![e + 21] = Sealed(@, s2)]
    BY <2>8, <2>14, <2>15, <2>16 DEF seal
  <2>18. PICK v : v = Sealed(mem[e + 4], s)
    OBVIOUS
  <2>19. PICK w : w = Sealed(mem[e + 21], s2)
    OBVIOUS
  <2>20. SumsPut(mem, l, e, v, w)
    BY <2>4, <2>13, <2>17, <2>18, <2>19, Sealing
  <2>21. TablesHold(l, e, q, a, t, n, Put0, Room)
    BY <2>10, <2>12, <2>20, SealedInPlace
  <2>22. Filled'
    <3>1. /\ machine'.anchor = a /\ machine'.tables = t /\ Len(machine'.tables) = n
          /\ ep' = e /\ qtables' = q
      BY <1>2, <2>5, <2>6, <2>7, <2>8, <2>9
    <3>2. QED
      BY <2>2, <2>3, <2>16, <2>21, <3>1, FillingNext
  <2>23. /\ l[e + 4] = v /\ l[e + 21] = w /\ DOMAIN l = Addresses
         /\ \A x \in Addresses : x # e + 4 /\ x # e + 21 => l[x] = mem[x]
    BY <2>20 DEF SumsPut
  <2>24. Placed'
    <3>1. AnchorBlock' /\ TablesBlock'
      BY <1>2, <1>3, <2>4 DEF AnchorBlock, TablesBlock
    <3>2. ASSUME NEW x \in Addresses, mem'[x] # Junk
          PROVE  InAnchor(x)' \/ InTables(x)'
      <4>1. InAnchor(x) \/ InTables(x)
        <5>1. CASE x = e + 4 \/ x = e + 21
          BY <2>8, <2>13, <5>1, SegmentNumbers DEF InAnchor
        <5>2. CASE x # e + 4 /\ x # e + 21
          BY <2>1, <2>2, <2>16, <2>23, <3>2, <5>2 DEF Placed
        <5>3. QED
          BY <5>1, <5>2
      <4>2. ep' = ep /\ qtables' = qtables /\ machine' = machine
        BY <1>2
      <4>3. QED
        BY <4>1, <4>2 DEF InAnchor, InTables
    <3>3. QED
      BY <1>1, <2>2, <3>1, <3>2 DEF Placed
  <2>25. Walked'
    <3>1. Described(machine) => (need_t0 <=> ~HasType0)
      BY <1>1, <2>1, <2>2 DEF Walked
    <3>2. QED
      BY <1>1, <1>2, <3>1 DEF Walked, HasType0
  <2>26. /\ csum8(Load(l, e, HALF_EP)) = 0 /\ l[e + 4] \in Byte
    <3>1. HALF_EP = 16 /\ e + 16 <= FSEG_END
      BY <2>13, SegmentNumbers DEF HALF_EP
    <3>2. PICK p \in Nat : p = e + 4
      BY <2>13
    <3>3. e <= p /\ p < e + 16
      BY <2>13, <3>2
    <3>4. SumPut(mem, l, e, 16, p)
      <4>1. l[p] = Sealed(mem[p], csum8(Load(mem, e, 16)))
        BY <2>14, <2>18, <2>23, <3>1, <3>2
      <4>2. ASSUME NEW x \in Addresses, e <= x /\ x < e + 16 /\ x # p
            PROVE  l[x] = mem[x]
        <5>1. x # e + 4 /\ x # e + 21
          BY <2>13, <3>2, <4>2, SegmentAddresses
        <5>2. QED
          BY <2>23, <5>1
      <4>3. QED
        BY <4>1, <4>2 DEF SumPut
    <3>5. csum8(Load(l, e, 16)) = 0 /\ l[p] \in Byte
      BY <2>4, <2>13, <3>1, <3>3, <3>4, SumIsZero
    <3>6. QED
      BY <3>1, <3>2, <3>5
  <2>27. ASSUME a[6] = EP_SIZE
         PROVE  csum8(Load(l, e + HALF_EP, EP_SIZE - HALF_EP)) = 0 /\ l[e + 21] \in Byte
    <3>1. HALF_EP = 16 /\ EP_SIZE = 31
      BY SegmentNumbers DEF HALF_EP
    <3>2. PICK p \in Nat : p = e + 21
      BY <2>13
    <3>3. PICK b \in Nat : b = e + 16
      BY <2>13
    <3>4. b <= p /\ p < b + 15 /\ b + 15 <= FSEG_END
      BY <2>13, <3>2, <3>3
    <3>5. SecondSum = 15 /\ EP_SIZE - HALF_EP = 15
      <4>1. mem[ep + 5] = 31
        BY <2>8, <2>11, <2>27, <3>1
      <4>2. QED
        BY <3>1, <4>1 DEF SecondSum, LengthOf
    <3>6. SumPut(mem, l, b, 15, p)
      <4>1. l[p] = Sealed(mem[p], csum8(Load(mem, b, 15)))
        BY <2>15, <2>19, <2>23, <3>1, <3>2, <3>3, <3>5
      <4>2. ASSUME NEW x \in Addresses, b <= x /\ x < b + 15 /\ x # p
            PROVE  l[x] = mem[x]
        <5>1. x # e + 4 /\ x # e + 21
          BY <2>13, <3>2, <3>3, <4>2, SegmentAddresses
        <5>2. QED
          BY <2>23, <5>1
      <4>3. QED
        BY <4>1, <4>2 DEF SumPut
    <3>7. csum8(Load(l, b, 15)) = 0 /\ l[p] \in Byte
      BY <2>4, <3>4, <3>6, SumIsZero
    <3>8. QED
      BY <3>1, <3>2, <3>3, <3>5, <3>7
  <2>28. SumsZero'
    <3>1. machine'.anchor = a /\ ep' = e /\ mem' = l
      BY <1>2, <2>5, <2>8, <2>16
    <3>2. QED
      BY <2>26, <2>27, <3>1 DEF SumsZero, Load, HALF_EP, EP_SIZE
  <2>29. ASSUME a[6] = EP_SIZE
         PROVE  IsMemory(l, Addresses)
    <3>1. mem \in [Addresses -> Byte] /\ Addresses \subseteq Int
      BY <2>4 DEF IsMemory
    <3>2. \A x \in Addresses : l[x] \in Byte
      BY <2>23, <2>26, <2>27, <2>29, <3>1
    <3>3. \E s3, s4 : l = [mem EXCEPT ![e + 4] = s3, ![e + 21] = s4]
      BY <2>17
    <3>4. QED
      BY <2>23, <3>1, <3>2, <3>3 DEF IsMemory
  <2>30. SmMemory'
    BY <1>1, <1>2, <2>5, <2>16, <2>29 DEF SmMemory, IsMemory, EP_SIZE
  <2>31. QED
    BY <2>22, <2>24, <2>25, <2>28, <2>30
<1>6. QED
  BY <1>3, <1>4, <1>5 DEF SmIInv

-----------------------------------------------------------------------------
(* What extract_smbios writes.                                             *)

\* No table is there at first.
LEMMA SmInit == SmbiosInit => SmIInv
<1> SUFFICES ASSUME SmbiosInit
             PROVE  SmIInv
  OBVIOUS
<1>1. /\ MallocIInv /\ machine \in Machines /\ mem = [x \in Addresses |-> Junk]
      /\ need_t0 = TRUE /\ pc = "anchor" /\ table_header = NULL
  BY MallocInitInv DEF SmbiosInit
<1>2. SmTypes
  BY <1>1 DEF SmTypes
<1>3. SmMemory
  BY <1>1, SmbiosAssumption, SegmentAddresses DEF SmMemory, IsMemory
<1>4. Placed
  BY <1>1 DEF Placed, Walking
<1>5. Filled /\ Walked /\ SumsZero
  BY <1>1 DEF Filled, Walked, SumsZero, Walking
<1>6. QED
  BY <1>1, <1>2, <1>3, <1>4, <1>5 DEF SmIInv

\* It stays when nothing of it changes.
LEMMA SmStutter == SmIInv /\ UNCHANGED <<mallocVars, smbiosVars>> => SmIInv'
<1> SUFFICES ASSUME SmIInv, UNCHANGED mallocVars, UNCHANGED smbiosVars
             PROVE  SmIInv'
  OBVIOUS
<1>1. UNCHANGED <<machine, mem, ep, qtables, table_header, need_t0, pc>>
  BY DEF smbiosVars
<1>2. MallocIInv' /\ Fit' = Fit /\ fseg_base' = fseg_base /\ blocks' = blocks
  BY SameBlocks DEF SmIInv
<1>3. SmTypes'
  BY <1>1 DEF SmIInv, SmTypes
<1>4. ASSUME Fit
      PROVE  SmMemory' /\ Placed' /\ Filled' /\ Walked' /\ SumsZero'
  <2>1. SmMemory /\ Placed /\ Filled /\ Walked /\ SumsZero
    BY <1>4 DEF SmIInv
  <2>2. SmMemory' /\ SumsZero'
    BY <1>1, <2>1 DEF SmMemory, SumsZero, IsMemory, Load
  <2>3. Placed'
    BY <1>1, <1>2, <2>1
       DEF Placed, AnchorBlock, TablesBlock, InAnchor, InTables, InBlocks
  <2>4. Filled'
    <3>1. CASE pc \in Walking
      <4>1. TablesHold(mem, ep, qtables, machine.anchor, machine.tables,
                       Len(machine.tables), Put0, Room)
        BY <2>1, <3>1 DEF Filled
      <4>2. Put0' = Put0 /\ Room' = Room
        BY <1>1 DEF Put0, Room
      <4>3. QED
        BY <1>1, <3>1, <4>1, <4>2, FillingNext
    <3>2. CASE pc \notin Walking
      <4>1. pc' \notin Walking
        BY <1>1, <3>2
      <4>2. pc' = "tables" => IsBytes(machine'.anchor, EP_SIZE) /\ Holds(mem', ep', machine'.anchor)
        BY <1>1, <2>1 DEF Filled
      <4>3. QED
        BY <4>1, <4>2 DEF Filled, Holds, IsBytes
    <3>3. QED
      BY <3>1, <3>2
  <2>5. Walked'
    BY <1>1, <2>1 DEF Walked, HasType0
  <2>6. QED
    BY <2>2, <2>3, <2>4, <2>5
<1>5. QED
  BY <1>2, <1>3, <1>4 DEF SmIInv

\* The inductive invariant of extract_smbios: the allocators' own invariant; the
\* anchor and the structures are in their blocks, nothing is written elsewhere,
\* the anchor says where the structures are, and the walk stands at one of them.
THEOREM SmbiosInvariant == Spec => []SmIInv
<1>1. Init => SmIInv
  BY SmInit DEF Init
<1>2. SmIInv /\ [Next]_vars => SmIInv'
  <2> SUFFICES ASSUME SmIInv, [Next]_vars
               PROVE  SmIInv'
    OBVIOUS
  <2>1. CASE setup_mptable
    BY <2>1, SmStutter DEF setup_mptable
  <2>2. CASE extract_smbios
    BY <2>2, ReadAnchorStep, ReadTablesStep, WalkStep, Type0Step, SealStep
       DEF extract_smbios, SmbiosNext
  <2>3. CASE Finished
    BY <2>3, SmStutter DEF Finished, vars
  <2>4. CASE UNCHANGED vars
    BY <2>4, SmStutter DEF vars
  <2>5. QED
    BY <2>1, <2>2, <2>3, <2>4 DEF Next
<1>3. QED
  BY <1>1, <1>2, PTL DEF Spec

\* All that extract_smbios writes is in the blocks that malloc_fseg gave it.
THEOREM SmbiosInItsBlocks == Spec => []WritesInBlocks
<1>1. SmIInv => WritesInBlocks
  <2> SUFFICES ASSUME SmIInv, Fit, NEW x \in Addresses, mem[x] # Junk
               PROVE  InBlocks(x)
    BY DEF WritesInBlocks, InBlocks
  <2>1. Placed /\ Filled /\ SmTypes /\ MallocIInv
    BY DEF SmIInv
  <2>2. CASE pc = "anchor"
    BY <2>1, <2>2 DEF Placed
  <2>3. CASE pc = "tables"
    <3>1. AnchorBlock /\ InAnchor(x)
      BY <2>1, <2>3 DEF Placed
    <3>2. QED
      BY <3>1 DEF AnchorBlock, InAnchor, InBlocks
  <2>4. CASE pc \in Walking
    <3>1. AnchorBlock /\ TablesBlock /\ (InAnchor(x) \/ InTables(x))
      BY <2>1, <2>4 DEF Placed
    <3>2. CASE InAnchor(x)
      BY <3>1, <3>2 DEF AnchorBlock, InAnchor, InBlocks
    <3>3. CASE InTables(x)
      <4>1. PICK n : n = Len(machine.tables)
        OBVIOUS
      <4>2. PICK q \in Nat : q = qtables
        BY <3>1 DEF TablesBlock
      <4>3. PICK b \in blocks : b.addr = q - t0_len /\ b.size = n + t0_len
        BY <3>1, <4>1, <4>2 DEF TablesBlock
      <4>4. q - t0_len <= x /\ x < q + n
        BY <3>3, <4>1, <4>2 DEF InTables
      <4>5. IsBytes(machine.tables, n)
        BY <2>1, <2>4, <4>1 DEF Filled, TablesHold
      <4>6. n \in Nat /\ t0_len = 46
        BY <4>5, Type0Bytes DEF IsBytes
      <4>7. b.addr <= x /\ x < b.addr + b.size
        BY <4>2, <4>3, <4>4, <4>6
      <4>8. QED
        BY <4>7 DEF InBlocks
    <3>4. QED
      BY <3>1, <3>2, <3>3
  <2>5. CASE pc = "return"
    BY <2>1, <2>5 DEF Placed
  <2>6. QED
    BY <2>1, <2>2, <2>3, <2>4, <2>5 DEF SmTypes
<1>2. QED
  BY <1>1, SmbiosInvariant, PTL

\* In the end: what the anchor at e says of the structures s, with type 0 before
\* them if that is put.
LEMMA InTheEnd ==
  ASSUME SmIInv, Fit, pc = "done", Described(machine)
  PROVE  \E e \in Nat, q \in Nat, z \in Nat, n \in Nat :
           /\ Blocks(e, q, z, n) /\ e = ep
           /\ TablesHold(mem, e, q, machine.anchor, machine.tables, n, need_t0, Room)
           /\ need_t0 \in BOOLEAN /\ (need_t0 <=> ~HasType0) /\ IsMemory(mem, Addresses)
           /\ Room = IF need_t0 THEN 46 ELSE 0
<1>1. MallocIInv /\ SmTypes /\ SmMemory /\ Placed /\ Filled /\ Walked
  BY DEF SmIInv
<1>2. pc \in Walking /\ Put0 = need_t0 /\ need_t0 \in BOOLEAN /\ (need_t0 <=> ~HasType0)
  BY <1>1 DEF Walking, Put0, SmTypes, Walked
<1>3. Room = (IF need_t0 THEN 46 ELSE 0)
  BY <1>2, Type0Bytes DEF Room
<1>4. AnchorBlock /\ TablesBlock /\ IsMemory(mem, Addresses)
  BY <1>1, <1>2 DEF Placed, SmMemory, Described
<1>5. TablesHold(mem, ep, qtables, machine.anchor, machine.tables,
                 Len(machine.tables), need_t0, Room)
  BY <1>1, <1>2 DEF Filled
<1>6. IsBytes(machine.tables, Len(machine.tables))
  BY <1>5 DEF TablesHold
<1>7. PICK z \in Nat : Blocks(ep, qtables, z, Len(machine.tables))
  BY <1>1, <1>4, <1>6, BlocksAre
<1>8. ep \in Nat /\ qtables \in Nat /\ Len(machine.tables) \in Nat
  BY <1>7 DEF Blocks
<1>9. QED
  BY <1>2, <1>3, <1>4, <1>5, <1>7, <1>8

\* What is loaded is QEMU's structures, or type 0 and then those.
LEMMA LoadedTables ==
  ASSUME NEW m, IsMemory(m, Addresses), NEW q \in Nat, NEW z \in Nat, NEW n \in Nat,
         z + 46 = q, q + n <= FSEG_END, NEW t, IsBytes(t, n), Holds(m, q, t)
  PROVE  /\ Load(m, q, n) = t
         /\ Holds(m, z, Type0) => Load(m, z, 46 + n) = Cat(Type0, t)
<1>1. Load(m, q, n) = t
  BY LoadHolds
<1>2. ASSUME Holds(m, z, Type0)
      PROVE  Load(m, z, 46 + n) = Cat(Type0, t)
  <2>1. Load(m, z, 46) = Type0
    BY <1>2, LoadHolds, Type0Bytes
  <2>2. z .. z + 46 + n - 1 \subseteq Addresses
    <3>1. \A x \in z .. z + 46 + n - 1 : x \in Nat /\ x < FSEG_END
      BY SegmentNumbers
    <3>2. QED
      BY <3>1, SegmentAddresses
  <2>3. Load(m, z, 46 + n) = Cat(Load(m, z, 46), Load(m, z + 46, n))
    BY <2>2, LoadParts
  <2>4. QED
    BY <1>1, <2>1, <2>3
<1>3. QED
  BY <1>1, <1>2

\* The anchor leads to one run of structures: QEMU's as they were, with a type 0
\* before them exactly when they have none.
THEOREM SmbiosTableWhole == Spec => []TableWhole
<1>1. SmIInv => TableWhole
  <2> SUFFICES ASSUME SmIInv, Fit, pc = "done", Described(machine)
               PROVE  Load(mem, structure_table_address(ep), structure_table_length(ep))
                        = FlattenSeq(Structs)
    BY DEF TableWhole
  <2>1. PICK a : a = machine.anchor
    OBVIOUS
  <2>2. PICK t : t = machine.tables
    OBVIOUS
  <2>3. PICK e \in Nat, q \in Nat, z \in Nat, n \in Nat :
           /\ Blocks(e, q, z, n) /\ e = ep
           /\ TablesHold(mem, e, q, a, t, n, need_t0, Room)
           /\ need_t0 \in BOOLEAN /\ (need_t0 <=> ~HasType0) /\ IsMemory(mem, Addresses)
           /\ Room = IF need_t0 THEN 46 ELSE 0
    BY <2>1, <2>2, InTheEnd
  <2>4. /\ IsBytes(t, n) /\ Holds(mem, q, t)
        /\ Half(mem, e + 22) = n + Room
        /\ Half(mem, e + 24) + 65536 * Half(mem, e + 26) = q - Room
        /\ need_t0 => Holds(mem, q - t0_len, Type0)
    BY <2>3 DEF TablesHold
  <2>5. z + 46 = q /\ q + n <= FSEG_END /\ q - t0_len = z
    BY <2>3, Type0Bytes DEF Blocks
  <2>6. /\ Load(mem, q, n) = t
        /\ Holds(mem, z, Type0) => Load(mem, z, 46 + n) = Cat(Type0, t)
    BY <2>3, <2>4, <2>5, LoadedTables
  <2>7. PICK s : s = machine.structs
    OBVIOUS
  <2>8. t = FlattenSeq(s) /\ s \in Seq(Seq(Byte))
    BY <2>2, <2>7, Files DEF Described, SmIInv
  <2>9. CASE ~need_t0
    <3>1. Half(mem, e + 22) = n /\ Half(mem, e + 24) + 65536 * Half(mem, e + 26) = q
      BY <2>3, <2>4, <2>9
    <3>2. Structs = s
      BY <2>3, <2>7, <2>9 DEF Structs
    <3>3. QED
      BY <2>3, <2>6, <2>8, <3>1, <3>2 DEF structure_table_address, structure_table_length
  <2>10. CASE need_t0
    <3>1. Half(mem, e + 22) = 46 + n /\ Half(mem, e + 24) + 65536 * Half(mem, e + 26) = z
      BY <2>3, <2>4, <2>5, <2>10
    <3>2. Structs = <<Type0>> \o s
      BY <2>3, <2>7, <2>10 DEF Structs
    <3>3. Load(mem, z, 46 + n) = Cat(Type0, t)
      BY <2>4, <2>5, <2>6, <2>10
    <3>4. Type0 \in Seq(Byte)
      BY Type0Bytes, SeqBytes
    <3>5. FlattenSeq(<<Type0>> \o s) = Cat(Type0, t)
      BY <2>8, <3>4, OneMore
    <3>6. QED
      BY <2>3, <3>1, <3>2, <3>3, <3>5 DEF structure_table_address, structure_table_length
  <2>11. QED
    BY <2>9, <2>10
<1>2. QED
  BY <1>1, SmbiosInvariant, PTL

\* Structures s, with type 0 before them or not: their number and their sizes.
LEMMA OfStructs ==
  ASSUME NEW s \in Seq(Seq(Byte)), NEW max \in Nat, \A k \in DOMAIN s : Len(s[k]) <= max
  PROVE  /\ Len(s) \in Nat /\ Len(<<Type0>> \o s) = Len(s) + 1
         /\ \A k \in DOMAIN (<<Type0>> \o s) : Len((<<Type0>> \o s)[k]) <= Largest(max)
<1>1. Len(s) \in Nat /\ DOMAIN s = 1 .. Len(s) /\ \A k \in 1 .. Len(s) : Len(s[k]) \in Nat
  BY LenProperties, ElementOfSeq
<1>2. Type0 \in Seq(Byte) /\ Len(Type0) = 46 /\ t0_len = 46
  BY Type0Bytes, SeqBytes
<1>3. PICK t : t = <<Type0>> \o s
  OBVIOUS
<1>4. /\ DOMAIN t = 1 .. Len(s) + 1 /\ Len(t) = Len(s) + 1 /\ t[1] = Type0
      /\ \A k \in 1 .. Len(s) : t[k + 1] = s[k]
  BY <1>2, <1>3
<1>5. Largest(max) \in Nat /\ 46 <= Largest(max) /\ max <= Largest(max)
  BY <1>2 DEF Largest
<1>6. ASSUME NEW k \in DOMAIN t
      PROVE  Len(t[k]) <= Largest(max)
  <2>1. CASE k = 1
    BY <1>2, <1>4, <1>5, <2>1
  <2>2. CASE k # 1
    <3>1. k - 1 \in 1 .. Len(s) /\ (k - 1) + 1 = k
      BY <1>1, <1>4, <2>2
    <3>2. t[k] = s[k - 1]
      BY <1>4, <3>1
    <3>3. Len(s[k - 1]) <= max /\ Len(s[k - 1]) \in Nat
      BY <1>1, <3>1
    <3>4. QED
      BY <1>5, <3>2, <3>3
  <2>3. QED
    BY <2>1, <2>2
<1>7. QED
  BY <1>1, <1>3, <1>4, <1>6

\* The anchor counts the structures, none of which is larger than it says, and
\* both halves of it sum to zero.
THEOREM SmbiosAnchorTrue == Spec => []AnchorTrue
<1>1. SmIInv => AnchorTrue
  <2> SUFFICES ASSUME SmIInv, Fit, pc = "done", Described(machine)
               PROVE  /\ number_of_structures(ep) = Len(Structs)
                      /\ \A k \in DOMAIN Structs : Len(Structs[k]) <= max_structure_size(ep)
                      /\ csum8(Load(mem, ep, LengthOf(ep))) = 0
                      /\ csum8(Load(mem, ep + HALF_EP, LengthOf(ep) - HALF_EP)) = 0
    BY DEF AnchorTrue
  <2>1. PICK a : a = machine.anchor
    OBVIOUS
  <2>2. PICK t : t = machine.tables
    OBVIOUS
  <2>3. PICK e \in Nat, q \in Nat, z \in Nat, n \in Nat :
           /\ Blocks(e, q, z, n) /\ e = ep
           /\ TablesHold(mem, e, q, a, t, n, need_t0, Room)
           /\ need_t0 \in BOOLEAN /\ (need_t0 <=> ~HasType0) /\ IsMemory(mem, Addresses)
           /\ Room = IF need_t0 THEN 46 ELSE 0
    BY <2>1, <2>2, InTheEnd
  <2>4. /\ IsBytes(a, EP_SIZE) /\ n = Len(t) /\ mem[e + 5] = a[6]
        /\ \/ need_t0 /\ Half(a, 29) = 65535
           \/ Half(mem, e + 28) = Half(a, 29) + IF need_t0 THEN 1 ELSE 0
        /\ Half(mem, e + 8) = IF need_t0 THEN Largest(Half(a, 9)) ELSE Half(a, 9)
    BY <2>3 DEF TablesHold
  <2>5. EP_SIZE = 31 /\ HALF_EP = 16 /\ e + 31 <= FSEG_END /\ n + 46 < 65536
    BY <2>3, SegmentNumbers DEF HALF_EP, Blocks
  <2>6. PICK s : s = machine.structs
    OBVIOUS
  <2>7. PICK c \in Nat : c = Len(s)
    <3>1. s \in Seq(Seq(Byte))
      BY <2>6, Files DEF SmIInv
    <3>2. QED
      BY <3>1, LenProperties
  <2>8. PICK max \in Nat : max = Half(a, 9)
    <3>1. 9 \in 1 .. EP_SIZE - 1
      BY <2>5
    <3>2. QED
      BY <2>4, <3>1, HalfOfBytes
  <2>9. /\ s \in Seq(Seq(Byte)) /\ t = FlattenSeq(s) /\ a[6] = 31 /\ Half(a, 29) = c
        /\ \A k \in DOMAIN s : Structure(s[k]) /\ Len(s[k]) <= max
    BY <2>1, <2>2, <2>5, <2>6, <2>7, <2>8, Files DEF Described, SmIInv
  <2>10. c < 65535
    <3>1. \A k \in 1 .. Len(s) : Structure(s[k])
      BY <2>9, LenProperties
    <3>2. 6 * Len(s) <= Len(FlattenSeq(s))
      BY <2>9, <3>1, SixEach
    <3>3. 6 * c <= n
      BY <2>4, <2>7, <2>9, <3>2
    <3>4. QED
      BY <2>5, <3>3
  <2>11. /\ Half(mem, e + 28) = IF need_t0 THEN c + 1 ELSE c
         /\ Half(mem, e + 8) = IF need_t0 THEN Largest(max) ELSE max
    BY <2>3, <2>4, <2>8, <2>9, <2>10, SMTT(30)
  <2>12. /\ Len(<<Type0>> \o s) = c + 1
         /\ \A k \in DOMAIN (<<Type0>> \o s) : Len((<<Type0>> \o s)[k]) <= Largest(max)
    BY <2>7, <2>9, OfStructs
  <2>13. /\ number_of_structures(ep) = Len(Structs)
         /\ \A k \in DOMAIN Structs : Len(Structs[k]) <= max_structure_size(ep)
    <3>1. CASE need_t0
      <4>1. Structs = <<Type0>> \o s
        BY <2>3, <2>6, <3>1 DEF Structs
      <4>2. QED
        BY <2>3, <2>11, <2>12, <3>1, <4>1 DEF number_of_structures, max_structure_size
    <3>2. CASE ~need_t0
      <4>1. Structs = s
        BY <2>3, <2>6, <3>2 DEF Structs
      <4>2. QED
        BY <2>3, <2>7, <2>9, <2>11, <3>2, <4>1 DEF number_of_structures, max_structure_size
    <3>3. QED
      BY <3>1, <3>2
  <2>14. LengthOf(ep) = 16 + 15
    BY <2>3, <2>4, <2>9 DEF LengthOf
  <2>15. /\ csum8(Load(mem, e, 16)) = 0
         /\ csum8(Load(mem, e + 16, 15)) = 0
    <3>1. SumsZero /\ EP_SIZE - HALF_EP = 15
      BY <2>5 DEF SmIInv
    <3>2. machine.anchor[6] = EP_SIZE
      BY <2>1, <2>5, <2>9
    <3>3. QED
      BY <2>3, <2>5, <3>1, <3>2 DEF SumsZero
  <2>16. csum8(Load(mem, e, 16 + 15)) = 0
    <3>1. ASSUME NEW x \in Nat, x < e + 31
          PROVE  x \in Addresses
      BY <2>5, <3>1, SegmentNumbers, SegmentAddresses
    <3>2. /\ e .. e + 16 - 1 \subseteq Addresses /\ e + 16 .. (e + 16) + 15 - 1 \subseteq Addresses
          /\ e .. e + 16 + 15 - 1 \subseteq Addresses /\ e + 16 \in Int
      BY <3>1
    <3>3. IsBytes(Load(mem, e, 16), 16) /\ IsBytes(Load(mem, e + 16, 15), 15)
      BY <2>3, <3>2, LoadBytes
    <3>4. Load(mem, e, 16 + 15) = Cat(Load(mem, e, 16), Load(mem, e + 16, 15))
      BY <2>3, <3>2, LoadParts
    <3>5. csum8(Load(mem, e, 16 + 15)) = (0 + 0) % 256
      BY <2>15, <3>3, <3>4, SumAppend
    <3>6. QED
      BY <3>5
  <2>17. LengthOf(ep) - HALF_EP = 15
    BY <2>5, <2>14
  <2>18. QED
    BY <2>3, <2>5, <2>13, <2>14, <2>15, <2>16, <2>17
<1>2. QED
  BY <1>1, SmbiosInvariant, PTL
=============================================================================
