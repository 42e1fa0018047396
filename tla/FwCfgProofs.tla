---------------------------- MODULE FwCfgProofs ----------------------------
(***************************************************************************)
(* The fw_cfg driver for every machine, byte and word size: it implements  *)
(* the atomic cursor of FwCfgAbs, and a file is read whole.                *)
(***************************************************************************)
EXTENDS FwCfg, WellFoundedInduction, TLAPS

-----------------------------------------------------------------------------
(* Numbers and bytes.                                                      *)

\* The order of numbers as a relation.
LEMMA LessThan ==
  ASSUME NEW m \in Nat, NEW n \in Nat, m < n
  PROVE  <<m, n>> \in OpToRel(<, Nat)
<1>1. OpToRel(<, Nat) = {r \in Nat \X Nat : r[1] < r[2]}
  BY Zenon DEF OpToRel
<1>2. <<m, n>> \in {r \in Nat \X Nat : r[1] < r[2]}
  OBVIOUS
<1>3. QED
  BY <1>1, <1>2

\* A set of numbers has a least one.
LEMMA LeastNumber ==
  ASSUME NEW S, S \subseteq Nat, S # {}
  PROVE  \E n \in S : \A m \in S : n <= m
<1>1. \E n \in S : \A m \in S : ~(<<m, n>> \in OpToRel(<, Nat))
  BY WFMin, NatLessThanWellFounded
<1>2. PICK n \in S : \A m \in S : ~(<<m, n>> \in OpToRel(<, Nat))
  BY <1>1
<1>3. ASSUME NEW m \in S, m < n
      PROVE  FALSE
  <2>1. m \in Nat /\ n \in Nat
    OBVIOUS
  <2>2. <<m, n>> \in OpToRel(<, Nat)
    BY <1>3, <2>1, LessThan
  <2>3. QED
    BY <1>2, <2>2
<1>4. QED
  BY <1>3

\* What starts at 0 and goes on from each number up to n to the next, reaches n.
LEMMA Counting ==
  ASSUME NEW n \in Nat, NEW S, 0 \in S, \A i \in 1 .. n : i - 1 \in S => i \in S
  PROVE  0 .. n \subseteq S
<1> DEFINE Bad == {i \in 0 .. n : i \notin S}
<1>1. ASSUME Bad # {}
      PROVE  FALSE
  <2>1. Bad \subseteq Nat
    OBVIOUS
  <2>2. PICK i \in Bad : \A j \in Bad : i <= j
    <3> HIDE DEF Bad
    <3>1. QED
      BY <1>1, <2>1, LeastNumber
  <2>3. i # 0 /\ i \in 1 .. n /\ i - 1 \in 0 .. n
    OBVIOUS
  <2>4. i - 1 \in S
    BY <2>2, <2>3
  <2>5. QED
    BY <2>3, <2>4
<1>2. QED
  BY <1>1

\* A function defined by recursion on the numbers up to n.
Recurs(g, z, rec, n) == \A i \in 0 .. n : g[i] = IF i = 0 THEN z ELSE rec[i][g[i - 1]]

\* There is one.
LEMMA Recursion ==
  ASSUME NEW n \in Nat, NEW T, NEW z \in T, NEW rec \in [1 .. n -> [T -> T]]
  PROVE  \E g \in [0 .. n -> T] : Recurs(g, z, rec, n)
<1> DEFINE Good(m, g) == \A i \in 0 .. m : g[i] = IF i = 0 THEN z ELSE rec[i][g[i - 1]]
           S == {m \in 0 .. n : \E g \in [0 .. m -> T] : Good(m, g)}
<1>1. 0 \in S
  <2>1. [i \in 0 .. 0 |-> z] \in [0 .. 0 -> T] /\ Good(0, [i \in 0 .. 0 |-> z])
    OBVIOUS
  <2> HIDE DEF Good
  <2>2. \E g \in [0 .. 0 -> T] : Good(0, g)
    BY <2>1
  <2>3. QED
    BY <2>2
<1>2. ASSUME NEW m \in 1 .. n, m - 1 \in S
      PROVE  m \in S
  <2>1. PICK g \in [0 .. m - 1 -> T] : Good(m - 1, g)
    BY <1>2
  <2> DEFINE h == [i \in 0 .. m |-> IF i = m THEN rec[m][g[m - 1]] ELSE g[i]]
  <2>2. h \in [0 .. m -> T]
    OBVIOUS
  <2>3. ASSUME NEW i \in 0 .. m
        PROVE  h[i] = IF i = 0 THEN z ELSE rec[i][h[i - 1]]
    <3>1. CASE i = m
      BY <3>1
    <3>2. CASE i # m
      BY <2>1, <3>2
    <3>3. QED
      BY <3>1, <3>2
  <2>4. Good(m, h)
    BY <2>3
  <2> HIDE DEF Good, h
  <2>5. QED
    BY <2>2, <2>4
<1>3. 0 .. n \subseteq S
  <2> HIDE DEF S
  <2>1. QED
    BY <1>1, <1>2, Counting
<1>4. QED
  BY <1>3 DEF Recurs

\* The arithmetic of a digit d behind the digits of w.
LEMMA Digit ==
  ASSUME NEW base \in Nat \ {0}, NEW w \in Nat, NEW d \in 0 .. base - 1
  PROVE  /\ base * w + d \in Nat
         /\ (base * w + d) \div base = w /\ (base * w + d) % base = d
<1>1. d \in Nat /\ d < base
  OBVIOUS
<1> DEFINE v == base * w + d
<1>2. v \in Nat
  BY <1>1
<1> DEFINE q == v \div base
           r == v % base
<1>3. q \in Nat /\ r \in 0 .. base - 1 /\ v = base * q + r
  <2> HIDE DEF v
  <2>1. QED
    BY <1>1, <1>2
<1>4. q = w
  <2>1. base * (w - q) = r - d
    BY <1>1, <1>3
  <2> HIDE DEF q, r, v
  <2>2. w - q < 1
    BY <1>1, <1>3, <2>1
  <2>3. w - q > -1
    BY <1>1, <1>3, <2>1
  <2>4. QED
    BY <1>3, <2>2, <2>3
<1>5. r = d
  <2> HIDE DEF q, r
  <2>1. QED
    BY <1>1, <1>3, <1>4
<1>6. QED
  BY <1>2, <1>4, <1>5

\* Dividing by the base takes the last digit away.
LEMMA DigitTypes ==
  ASSUME NEW v \in Nat
  PROVE  v \div BASE \in Nat /\ v % BASE \in Byte
  BY SizeAssumption DEF Byte

\* What the definition of BE computes, byte by byte.
LEMMA BEUnfolds ==
  ASSUME NEW n \in Nat, NEW b \in [1 .. n -> Byte]
  PROVE  \E val \in [0 .. n -> Nat] :
           /\ BE(b) = val[n]
           /\ \A i \in 0 .. n : val[i] = IF i = 0 THEN 0 ELSE BASE * val[i - 1] + b[i]
<1> DEFINE Is(h) == h = [i \in 0 .. n |-> IF i = 0 THEN 0 ELSE BASE * h[i - 1] + b[i]]
           rec == [i \in 1 .. n |-> [x \in Nat |-> BASE * x + b[i]]]
           val == CHOOSE h : Is(h)
<1>1. Len(b) = n
  OBVIOUS
<1>2. rec \in [1 .. n -> [Nat -> Nat]]
  <2>1. \A i \in 1 .. n, x \in Nat : BASE * x + b[i] \in Nat
    BY Digit, SizeAssumption DEF Byte
  <2>2. QED
    BY <2>1
<1>3. PICK g \in [0 .. n -> Nat] : Recurs(g, 0, rec, n)
  <2>1. 0 \in Nat
    OBVIOUS
  <2> HIDE DEF rec
  <2>2. QED
    BY <1>2, <2>1, Recursion, Zenon
<1>4. Is(g)
  <2>1. ASSUME NEW i \in 0 .. n
        PROVE  g[i] = IF i = 0 THEN 0 ELSE BASE * g[i - 1] + b[i]
    <3>1. i # 0 => i \in 1 .. n /\ g[i - 1] \in Nat
      OBVIOUS
    <3>2. QED
      BY <1>3, <3>1 DEF Recurs
  <2>2. QED
    BY <2>1
<1>5. Is(val)
  <2> HIDE DEF Is
  <2>1. QED
    BY <1>4
<1>6. \A i \in 0 .. n : val[i] = IF i = 0 THEN 0 ELSE BASE * val[i - 1] + b[i]
  <2> HIDE DEF val
  <2>1. QED
    BY <1>5
<1>7. val \in [0 .. n -> Nat]
  <2> HIDE DEF val
  <2> DEFINE S == {i \in 0 .. n : val[i] \in Nat}
  <2>1. 0 \in S
    BY <1>6
  <2>2. ASSUME NEW i \in 1 .. n, i - 1 \in S
        PROVE  i \in S
    <3>1. BASE * val[i - 1] + b[i] \in Nat
      BY <2>2, Digit, SizeAssumption DEF Byte
    <3>2. QED
      BY <1>6, <3>1
  <2>3. 0 .. n \subseteq S
    <3> HIDE DEF S
    <3>1. QED
      BY <2>1, <2>2, Counting
  <2>4. QED
    BY <1>5, <2>3
<1>8. BE(b) = val[n]
  BY <1>1 DEF BE
<1> HIDE DEF val
<1>9. QED
  BY <1>6, <1>7, <1>8

\* What the definition of Store computes.
LEMMA StoreUnfolds ==
  ASSUME NEW n \in Nat, NEW v \in Nat
  PROVE  \E rest \in [0 .. n -> Nat] :
           /\ Store(v, n) = [i \in 1 .. n |-> rest[i - 1] % BASE]
           /\ \A i \in 0 .. n : rest[i] = IF i = 0 THEN v ELSE rest[i - 1] \div BASE
<1> DEFINE Is(h) == h = [i \in 0 .. n |-> IF i = 0 THEN v ELSE h[i - 1] \div BASE]
           rec == [i \in 1 .. n |-> [x \in Nat |-> x \div BASE]]
           rest == CHOOSE h : Is(h)
<1>1. rec \in [1 .. n -> [Nat -> Nat]]
  BY DigitTypes
<1>2. PICK g \in [0 .. n -> Nat] : Recurs(g, v, rec, n)
  <2> HIDE DEF rec
  <2>1. QED
    BY <1>1, Recursion, Zenon
<1>3. Is(g)
  <2>1. ASSUME NEW i \in 0 .. n
        PROVE  g[i] = IF i = 0 THEN v ELSE g[i - 1] \div BASE
    <3>1. i # 0 => i \in 1 .. n /\ g[i - 1] \in Nat
      OBVIOUS
    <3>2. QED
      BY <1>2, <3>1 DEF Recurs
  <2>2. QED
    BY <2>1
<1>4. Is(rest)
  <2> HIDE DEF Is
  <2>1. QED
    BY <1>3
<1>5. \A i \in 0 .. n : rest[i] = IF i = 0 THEN v ELSE rest[i - 1] \div BASE
  <2> HIDE DEF rest
  <2>1. QED
    BY <1>4
<1>6. rest \in [0 .. n -> Nat]
  <2> HIDE DEF rest
  <2> DEFINE S == {i \in 0 .. n : rest[i] \in Nat}
  <2>1. 0 \in S
    BY <1>5
  <2>2. ASSUME NEW i \in 1 .. n, i - 1 \in S
        PROVE  i \in S
    <3>1. rest[i - 1] \div BASE \in Nat
      BY <2>2, DigitTypes
    <3>2. QED
      BY <1>5, <3>1
  <2>3. 0 .. n \subseteq S
    <3> HIDE DEF S
    <3>1. QED
      BY <2>1, <2>2, Counting
  <2>4. QED
    BY <1>4, <2>3
<1>7. Store(v, n) = [i \in 1 .. n |-> rest[i - 1] % BASE]
  BY DEF Store
<1> HIDE DEF rest
<1>8. QED
  BY <1>5, <1>6, <1>7

\* A sequence is a function on the first numbers.
LEMMA AsFunction ==
  ASSUME NEW S, NEW b \in Seq(S)
  PROVE  Len(b) \in Nat /\ b \in [1 .. Len(b) -> S]
OBVIOUS

\* A function on the first numbers is a sequence.
LEMMA AsSequence ==
  ASSUME NEW S, NEW n \in Nat, NEW b \in [1 .. n -> S]
  PROVE  b \in Seq(S) /\ Len(b) = n
OBVIOUS

\* The other way round.
LEMMA Reversed ==
  ASSUME NEW S, NEW n \in Nat, NEW b \in [1 .. n -> S]
  PROVE  /\ Reverse(b) \in [1 .. n -> S]
         /\ \A i \in 1 .. n : Reverse(b)[i] = b[n - i + 1]
         /\ Reverse(Reverse(b)) = b
<1>1. Len(b) = n /\ Reverse(b) = [i \in 1 .. n |-> b[(n - i) + 1]]
  BY DEF Reverse
<1>2. \A i \in 1 .. n : n - i + 1 \in 1 .. n /\ (n - i) + 1 = n - i + 1
  OBVIOUS
<1>3. Reverse(b) \in [1 .. n -> S] /\ \A i \in 1 .. n : Reverse(b)[i] = b[n - i + 1]
  BY <1>1, <1>2
<1>4. Reverse(Reverse(b)) = [i \in 1 .. n |-> Reverse(b)[(n - i) + 1]]
  <2>1. Len(Reverse(b)) = n
    BY <1>3
  <2>2. QED
    BY <2>1 DEF Reverse
<1>5. \A i \in 1 .. n : Reverse(b)[(n - i) + 1] = b[i]
  <2> SUFFICES ASSUME NEW i \in 1 .. n
               PROVE  Reverse(b)[(n - i) + 1] = b[i]
    OBVIOUS
  <2>1. (n - i) + 1 \in 1 .. n /\ n - ((n - i) + 1) + 1 = i
    OBVIOUS
  <2>2. QED
    BY <1>3, <2>1
<1>6. QED
  BY <1>3, <1>4, <1>5

\* Storing the value of some bytes gives the bytes back, in either order.
LEMMA StoreValue ==
  ASSUME NEW n \in Nat, NEW b \in [1 .. n -> Byte]
  PROVE  /\ LE(b) \in Nat /\ BE(b) \in Nat
         /\ Store(LE(b), n) = b /\ Store(BE(b), n) = Reverse(b)
<1>1. ASSUME NEW c \in [1 .. n -> Byte]
      PROVE  BE(c) \in Nat /\ Store(BE(c), n) = Reverse(c)
  <2>1. Reverse(c) = [i \in 1 .. n |-> c[(n - i) + 1]]
    <3>1. Len(c) = n
      OBVIOUS
    <3>2. QED
      BY <3>1 DEF Reverse
  <2>2. PICK val \in [0 .. n -> Nat] :
          /\ BE(c) = val[n]
          /\ \A i \in 0 .. n : val[i] = IF i = 0 THEN 0 ELSE BASE * val[i - 1] + c[i]
    BY BEUnfolds
  <2>3. BE(c) \in Nat
    BY <2>2
  <2>4. PICK rest \in [0 .. n -> Nat] :
          /\ Store(BE(c), n) = [i \in 1 .. n |-> rest[i - 1] % BASE]
          /\ \A i \in 0 .. n : rest[i] = IF i = 0 THEN BE(c) ELSE rest[i - 1] \div BASE
    BY <2>3, StoreUnfolds
  <2>5. \A i \in 1 .. n : val[i] \div BASE = val[i - 1] /\ val[i] % BASE = c[i]
    <3> SUFFICES ASSUME NEW i \in 1 .. n
                 PROVE  val[i] \div BASE = val[i - 1] /\ val[i] % BASE = c[i]
      OBVIOUS
    <3>1. val[i] = BASE * val[i - 1] + c[i] /\ val[i - 1] \in Nat
      <4>1. i \in 0 .. n /\ i # 0 /\ i - 1 \in 0 .. n
        OBVIOUS
      <4>2. val[i - 1] \in Nat
        BY <4>1
      <4>3. QED
        BY <2>2, <4>1, <4>2
    <3>2. BASE \in Nat \ {0} /\ c[i] \in 0 .. BASE - 1
      BY SizeAssumption DEF Byte
    <3>3. /\ (BASE * val[i - 1] + c[i]) \div BASE = val[i - 1]
          /\ (BASE * val[i - 1] + c[i]) % BASE = c[i]
      BY <3>1, <3>2, Digit, Zenon
    <3>4. QED
      BY <3>1, <3>3
  <2> DEFINE S == {i \in 0 .. n : rest[i] = val[n - i]}
  <2>6. 0 \in S
    BY <2>2, <2>4
  <2>7. ASSUME NEW i \in 1 .. n, i - 1 \in S
        PROVE  i \in S
    <3>1. n - (i - 1) \in 1 .. n /\ n - (i - 1) - 1 = n - i
      OBVIOUS
    <3>2. rest[i - 1] = val[n - (i - 1)]
      BY <2>7
    <3>3. i \in 0 .. n /\ i # 0
      OBVIOUS
    <3>4. rest[i] = rest[i - 1] \div BASE
      BY <2>4, <3>3
    <3>5. rest[i] = val[n - i]
      BY <2>5, <3>1, <3>2, <3>4
    <3>6. QED
      BY <3>3, <3>5
  <2>8. 0 .. n \subseteq S
    <3> HIDE DEF S
    <3>1. QED
      BY <2>6, <2>7, Counting
  <2>9. \A i \in 1 .. n : rest[i - 1] % BASE = c[n - i + 1]
    <3> SUFFICES ASSUME NEW i \in 1 .. n
                 PROVE  rest[i - 1] % BASE = c[n - i + 1]
      OBVIOUS
    <3>1. i - 1 \in 0 .. n /\ n - (i - 1) \in 1 .. n /\ n - (i - 1) = n - i + 1
      OBVIOUS
    <3>2. rest[i - 1] = val[n - (i - 1)]
      BY <2>8, <3>1
    <3>3. QED
      BY <2>5, <3>1, <3>2
  <2>10. Store(BE(c), n) = Reverse(c)
    BY <2>1, <2>4, <2>9
  <2>11. QED
    BY <2>3, <2>10
<1>2. Reverse(b) \in [1 .. n -> Byte] /\ Reverse(Reverse(b)) = b
  BY Reversed
<1>3. QED
  BY <1>1, <1>2 DEF LE

-----------------------------------------------------------------------------
(* What QEMU offers.                                                       *)

\* The sizes of a directory.
LEMMA Sizes ==
  /\ BASE \in Nat \ {0} /\ WORD \in Nat \ {0} /\ NAME \in Nat \ {0}
  /\ ENTRY \in Nat \ {0} /\ ENTRY = WORD + WORD + NAME
  /\ 0 \in Byte /\ BASE - 1 \in Byte
  /\ ID \in Nat /\ FILE_DIR \in Nat /\ ID # FILE_DIR /\ Same \notin Nat /\ Same \in Int
  BY SizeAssumption DEF ENTRY, Byte, Same

\* A word comes back from its bytes in memory, whatever their order.
LEMMA Word ==
  ASSUME NEW v \in Words
  PROVE  LET s == Reverse(Store(v, WORD))
         IN  /\ v \in Nat /\ Store(v, WORD) \in [1 .. WORD -> Byte]
             /\ LE(Store(v, WORD)) = v
             /\ s \in [1 .. WORD -> Byte] /\ BE(s) = v /\ bswap(LE(s)) = v
<1>1. PICK b \in [1 .. WORD -> Byte] : v = BE(b)
  BY DEF Words
<1>2. /\ v \in Nat /\ Store(v, WORD) = Reverse(b) /\ Store(LE(b), WORD) = b
  BY <1>1, Sizes, StoreValue
<1>3. Reverse(b) \in [1 .. WORD -> Byte] /\ Reverse(Reverse(b)) = b
  BY Sizes, Reversed
<1>4. LE(Reverse(b)) = v
  BY <1>1, <1>3 DEF LE
<1>5. QED
  BY <1>1, <1>2, <1>3, <1>4 DEF bswap

\* Two sequences, one behind the other.
IsJoin(s, a, m, b, n) ==
  /\ s \in [1 .. m + n -> Byte]
  /\ \A i \in 1 .. m : s[i] = a[i]
  /\ \A i \in 1 .. n : s[m + i] = b[i]

\* Concatenation is that.
LEMMA Joined ==
  ASSUME NEW m \in Nat, NEW n \in Nat, NEW a \in [1 .. m -> Byte], NEW b \in [1 .. n -> Byte]
  PROVE  IsJoin(a \o b, a, m, b, n)
<1>1. a \in Seq(Byte) /\ b \in Seq(Byte) /\ Len(a) = m /\ Len(b) = n
  OBVIOUS
<1>2. a \o b \in Seq(Byte) /\ Len(a \o b) = m + n
  BY <1>1
<1>3. a \o b \in [1 .. m + n -> Byte]
  BY <1>2, AsFunction
<1>4. ASSUME NEW i \in 1 .. m
      PROVE  (a \o b)[i] = a[i]
  BY <1>1, SMT
<1>5. ASSUME NEW i \in 1 .. n
      PROVE  (a \o b)[m + i] = b[i]
  <2>1. m + i \in 1 .. m + n /\ ~(m + i <= m) /\ (m + i) - m = i
    OBVIOUS
  <2>2. QED
    BY <1>1, <2>1, SMT
<1>6. QED
  BY <1>3, <1>4, <1>5 DEF IsJoin

Files == [size : Words, select : Words, name : [1 .. NAME -> Byte]]

\* An entry of the directory is its size, its key and its name.
LEMMA EntryBytes ==
  ASSUME NEW f \in Files
  PROVE  /\ DirEntry(f) \in [1 .. ENTRY -> Byte]
         /\ \A j \in 1 .. WORD : DirEntry(f)[j] = Reverse(Store(f.size, WORD))[j]
         /\ \A j \in 1 .. WORD : DirEntry(f)[WORD + j] = Reverse(Store(f.select, WORD))[j]
         /\ \A j \in 1 .. NAME : DirEntry(f)[WORD + WORD + j] = f.name[j]
<1> DEFINE a == Reverse(Store(f.size, WORD))
           b == Reverse(Store(f.select, WORD))
           c == f.name
<1>1. WORD \in Nat /\ NAME \in Nat /\ WORD + WORD \in Nat /\ ENTRY = WORD + WORD + NAME
  BY Sizes
<1>2. a \in [1 .. WORD -> Byte] /\ b \in [1 .. WORD -> Byte] /\ c \in [1 .. NAME -> Byte]
  BY Word DEF Files
<1>3. DirEntry(f) = a \o b \o c
  BY DEF DirEntry
<1> HIDE DEF a, b, c
<1>4. IsJoin(a \o b, a, WORD, b, WORD)
  BY <1>1, <1>2, Joined, Zenon
<1>5. IsJoin(a \o b \o c, a \o b, WORD + WORD, c, NAME)
  <2>1. a \o b \in [1 .. WORD + WORD -> Byte]
    BY <1>4 DEF IsJoin
  <2>2. QED
    BY <1>1, <1>2, <2>1, Joined, Zenon
<1>6. \A i \in 1 .. WORD : i \in 1 .. WORD + WORD /\ WORD + i \in 1 .. WORD + WORD
  BY <1>1
<1>7. QED
  BY <1>1, <1>3, <1>4, <1>5, <1>6 DEF IsJoin, a, b, c

\* The directory is the number of files and their entries.
LEMMA DirectoryBytes ==
  ASSUME NEW dir \in Seq(Files), Len(dir) \in Words
  PROVE  LET n == Len(dir) IN
         /\ Directory(dir) \in [1 .. WORD + ENTRY * n -> Byte]
         /\ n \in Nat /\ ENTRY * n \in Nat
         /\ \A j \in 1 .. WORD : Directory(dir)[j] = Reverse(Store(n, WORD))[j]
         /\ \A i \in 1 .. n, j \in 1 .. ENTRY :
              /\ ENTRY * (i - 1) + j \in 1 .. ENTRY * n
              /\ Directory(dir)[WORD + (ENTRY * (i - 1) + j)] = DirEntry(dir[i])[j]
<1> DEFINE n == Len(dir)
           a == Reverse(Store(n, WORD))
           at(x) == DirEntry(dir[1 + (x - 1) \div ENTRY])[1 + ((x - 1) % ENTRY)]
           b == [x \in 1 .. ENTRY * n |-> at(x)]
<1>1. n \in Nat /\ ENTRY * n \in Nat /\ WORD \in Nat /\ ENTRY \in Nat \ {0}
  BY Sizes
<1>2. a \in [1 .. WORD -> Byte]
  BY Word
<1>3. \A i \in 1 .. n : dir[i] \in Files
  OBVIOUS
<1>4. ASSUME NEW i \in 1 .. n, NEW j \in 1 .. ENTRY
      PROVE  /\ ENTRY * (i - 1) + j \in 1 .. ENTRY * n
             /\ at(ENTRY * (i - 1) + j) = DirEntry(dir[i])[j]
  <2>1. i - 1 \in Nat /\ j - 1 \in 0 .. ENTRY - 1 /\ ENTRY * (i - 1) \in Nat
    BY <1>1
  <2>2. /\ (ENTRY * (i - 1) + (j - 1)) \div ENTRY = i - 1
        /\ (ENTRY * (i - 1) + (j - 1)) % ENTRY = j - 1
    BY <1>1, <2>1, Digit, Zenon
  <2>3. (ENTRY * (i - 1) + j) - 1 = ENTRY * (i - 1) + (j - 1)
    BY <1>1, <2>1
  <2>4. 1 + (i - 1) = i /\ 1 + (j - 1) = j
    BY <1>1
  <2>5. at(ENTRY * (i - 1) + j) = DirEntry(dir[i])[j]
    BY <2>2, <2>3, <2>4
  <2>6. ENTRY * (i - 1) + j \in 1 .. ENTRY * n
    <3>1. ENTRY * (i - 1) + ENTRY = ENTRY * i /\ ENTRY * i <= ENTRY * n
      BY <1>1
    <3>2. QED
      BY <1>1, <2>1, <3>1
  <2>7. QED
    BY <2>5, <2>6
<1>5. b \in [1 .. ENTRY * n -> Byte]
  <2> SUFFICES ASSUME NEW x \in 1 .. ENTRY * n
               PROVE  at(x) \in Byte
    OBVIOUS
  <2> DEFINE q == (x - 1) \div ENTRY
             r == (x - 1) % ENTRY
  <2>1. x - 1 \in Nat /\ x - 1 < ENTRY * n
    BY <1>1
  <2>2. q \in Nat /\ r \in 0 .. ENTRY - 1 /\ x - 1 = ENTRY * q + r
    BY <1>1, <2>1
  <2>3. q < n
    <3> HIDE DEF q, r
    <3>1. SUFFICES ASSUME q >= n
                   PROVE  FALSE
      BY <1>1, <2>2
    <3>2. ENTRY * q >= ENTRY * n
      BY <1>1, <2>2, <3>1
    <3>3. QED
      BY <1>1, <2>1, <2>2, <3>2
  <2>4. 1 + q \in 1 .. n /\ 1 + r \in 1 .. ENTRY
    <3> HIDE DEF q, r
    <3>1. QED
      BY <1>1, <2>2, <2>3
  <2>5. dir[1 + q] \in Files
    BY <1>3, <2>4
  <2>6. QED
    BY <2>4, <2>5, EntryBytes
<1>6. Directory(dir) = a \o b
  BY DEF Directory
<1>7. \A x \in 1 .. ENTRY * n : b[x] = at(x)
  OBVIOUS
<1> HIDE DEF a, b, at
<1>8. IsJoin(a \o b, a, WORD, b, ENTRY * n)
  BY <1>1, <1>2, <1>5, Joined, Zenon
<1>9. QED
  BY <1>1, <1>4, <1>6, <1>7, <1>8 DEF IsJoin, a

\* Memory holds bytes.
LEMMA StoreTypes ==
  ASSUME NEW v \in Nat, NEW n \in Nat
  PROVE  Store(v, n) \in [1 .. n -> Byte]
<1>1. PICK rest \in [0 .. n -> Nat] :
        /\ Store(v, n) = [i \in 1 .. n |-> rest[i - 1] % BASE]
        /\ \A i \in 0 .. n : rest[i] = IF i = 0 THEN v ELSE rest[i - 1] \div BASE
  BY StoreUnfolds
<1>2. \A i \in 1 .. n : rest[i - 1] \in Nat
  OBVIOUS
<1>3. \A i \in 1 .. n : rest[i - 1] % BASE \in Byte
  BY <1>2, DigitTypes
<1>4. QED
  BY <1>1, <1>3

\* A swapped word is a number.
LEMMA BswapTypes ==
  ASSUME NEW v \in Nat
  PROVE  bswap(v) \in Nat
<1>1. Store(v, WORD) \in [1 .. WORD -> Byte]
  BY Sizes, StoreTypes
<1>2. QED
  BY <1>1, Sizes, StoreValue DEF bswap

\* The entries of fw_cfg.c's table, and bytes at + 1 to at + n of memory.
Records == [size : Nat, select : Nat, name : [1 .. NAME -> Byte]]

Part(b, at, n) == [j \in 1 .. n |-> b[at + j]]

\* SubSeq is that.
LEMMA SubSeqIsPart ==
  ASSUME NEW b \in Seq(Byte), NEW at \in Nat, NEW n \in Nat, at + n <= Len(b)
  PROVE  /\ SubSeq(b, at + 1, at + n) = Part(b, at, n)
         /\ Part(b, at, n) \in [1 .. n -> Byte]
<1>1. \A j \in 1 .. n : at + j \in 1 .. Len(b)
  OBVIOUS
<1>2. \A j \in 1 .. n : b[at + j] \in Byte
  BY <1>1
<1>3. Part(b, at, n) \in [1 .. n -> Byte]
  BY <1>2 DEF Part
<1> DEFINE s == SubSeq(b, at + 1, at + n)
<1>4. s \in Seq(Byte) /\ Len(s) = n
  BY <1>1
<1>5. s \in [1 .. n -> Byte]
  BY <1>4, AsFunction
<1>6. \A j \in 1 .. n : s[j] = b[at + j]
  BY <1>1
<1> HIDE DEF s
<1>7. s = Part(b, at, n)
  BY <1>5, <1>6 DEF Part
<1>8. QED
  BY <1>3, <1>7 DEF s

\* The parts of an entry in memory.
LEMMA FileParts ==
  ASSUME NEW b \in Seq(Byte), NEW i \in Nat \ {0}, ENTRY * (i - 1) + ENTRY <= Len(b)
  PROVE  LET at == ENTRY * (i - 1) IN
         /\ at \in Nat
         /\ Part(b, at, WORD) \in [1 .. WORD -> Byte]
         /\ Part(b, at + WORD, WORD) \in [1 .. WORD -> Byte]
         /\ Part(b, at + (WORD + WORD), NAME) \in [1 .. NAME -> Byte]
         /\ File(b, i) = [size   |-> bswap(LE(Part(b, at, WORD))),
                          select |-> bswap(LE(Part(b, at + WORD, WORD))),
                          name   |-> Part(b, at + (WORD + WORD), NAME)]
<1> DEFINE at == ENTRY * (i - 1)
<1>1. at \in Nat
  BY Sizes
<1> HIDE DEF at
<1>2. /\ at + WORD \in Nat /\ at + (WORD + WORD) \in Nat
      /\ at + WORD <= Len(b) /\ (at + WORD) + WORD <= Len(b)
      /\ (at + (WORD + WORD)) + NAME <= Len(b)
      /\ (at + WORD) + WORD = at + 2 * WORD /\ at + (WORD + WORD) = at + 2 * WORD
      /\ (at + (WORD + WORD)) + NAME = at + ENTRY
  BY <1>1, Sizes DEF at
<1>3. /\ Part(b, at, WORD) \in [1 .. WORD -> Byte]
      /\ SubSeq(b, at + 1, at + WORD) = Part(b, at, WORD)
  BY <1>1, <1>2, Sizes, SubSeqIsPart
<1>4. /\ Part(b, at + WORD, WORD) \in [1 .. WORD -> Byte]
      /\ SubSeq(b, at + WORD + 1, at + 2 * WORD) = Part(b, at + WORD, WORD)
  BY <1>1, <1>2, Sizes, SubSeqIsPart
<1>5. /\ Part(b, at + (WORD + WORD), NAME) \in [1 .. NAME -> Byte]
      /\ SubSeq(b, at + 2 * WORD + 1, at + ENTRY) = Part(b, at + (WORD + WORD), NAME)
  BY <1>1, <1>2, Sizes, SubSeqIsPart
<1>6. File(b, i) = [size   |-> bswap(LE(Part(b, at, WORD))),
                    select |-> bswap(LE(Part(b, at + WORD, WORD))),
                    name   |-> Part(b, at + (WORD + WORD), NAME)]
  BY <1>3, <1>4, <1>5 DEF File, at
<1>7. QED
  BY <1>1, <1>3, <1>4, <1>5, <1>6 DEF at

\* An entry in memory is a size, a key and a name, whatever the bytes are.
LEMMA FileTypes ==
  ASSUME NEW b \in Seq(Byte), NEW i \in Nat \ {0}, ENTRY * (i - 1) + ENTRY <= Len(b)
  PROVE  File(b, i) \in Records
<1> DEFINE at == ENTRY * (i - 1)
           x == Part(b, at, WORD)
           y == Part(b, at + WORD, WORD)
           z == Part(b, at + (WORD + WORD), NAME)
<1>1. /\ x \in [1 .. WORD -> Byte] /\ y \in [1 .. WORD -> Byte] /\ z \in [1 .. NAME -> Byte]
      /\ File(b, i) = [size |-> bswap(LE(x)), select |-> bswap(LE(y)), name |-> z]
  BY FileParts
<1> HIDE DEF x, y, z
<1>2. bswap(LE(x)) \in Nat /\ bswap(LE(y)) \in Nat
  BY <1>1, Sizes, StoreValue, BswapTypes
<1>3. QED
  BY <1>1, <1>2 DEF Records

\* Bytes that agree one by one.
LEMMA SameBytes ==
  ASSUME NEW n, NEW a \in [1 .. n -> Byte], NEW b \in [1 .. n -> Byte],
         \A j \in 1 .. n : a[j] = b[j]
  PROVE  a = b
<1>1. a = [j \in 1 .. n |-> a[j]] /\ b = [j \in 1 .. n |-> b[j]]
  OBVIOUS
<1>2. [j \in 1 .. n |-> a[j]] = [j \in 1 .. n |-> b[j]]
  OBVIOUS
<1>3. QED
  BY <1>1, <1>2, Zenon

\* What is read back from the bytes of an entry is the entry.
LEMMA FileBack ==
  ASSUME NEW b \in Seq(Byte), NEW i \in Nat \ {0}, ENTRY * (i - 1) + ENTRY <= Len(b),
         NEW f \in Files, \A j \in 1 .. ENTRY : b[ENTRY * (i - 1) + j] = DirEntry(f)[j]
  PROVE  File(b, i) = f
<1> DEFINE at == ENTRY * (i - 1)
           x == Part(b, at, WORD)
           y == Part(b, at + WORD, WORD)
           z == Part(b, at + (WORD + WORD), NAME)
           s == Reverse(Store(f.size, WORD))
           t == Reverse(Store(f.select, WORD))
<1>1. /\ at \in Nat
      /\ x \in [1 .. WORD -> Byte] /\ y \in [1 .. WORD -> Byte] /\ z \in [1 .. NAME -> Byte]
      /\ File(b, i) = [size |-> bswap(LE(x)), select |-> bswap(LE(y)), name |-> z]
  BY FileParts
<1>2. /\ f.size \in Words /\ f.select \in Words /\ f.name \in [1 .. NAME -> Byte]
      /\ f = [size |-> f.size, select |-> f.select, name |-> f.name]
  BY DEF Files
<1>3. /\ s \in [1 .. WORD -> Byte] /\ bswap(LE(s)) = f.size
      /\ t \in [1 .. WORD -> Byte] /\ bswap(LE(t)) = f.select
  BY <1>2, Word
<1>4. \A j \in 1 .. ENTRY : b[at + j] = DirEntry(f)[j]
  OBVIOUS
<1> HIDE DEF at
<1>5. /\ \A j \in 1 .. WORD : j \in 1 .. ENTRY /\ WORD + j \in 1 .. ENTRY
      /\ \A j \in 1 .. NAME : WORD + WORD + j \in 1 .. ENTRY
      /\ \A j \in 1 .. WORD : (at + WORD) + j = at + (WORD + j)
      /\ \A j \in 1 .. NAME : (at + (WORD + WORD)) + j = at + (WORD + WORD + j)
  <2>1. at \in Nat
    BY <1>1
  <2>2. WORD \in Nat /\ NAME \in Nat /\ ENTRY = WORD + WORD + NAME
    BY Sizes
  <2>3. /\ \A j \in 1 .. WORD : j \in 1 .. ENTRY /\ WORD + j \in 1 .. ENTRY
        /\ \A j \in 1 .. NAME : WORD + WORD + j \in 1 .. ENTRY
    BY <2>2
  <2>4. /\ \A j \in 1 .. WORD : (at + WORD) + j = at + (WORD + j)
        /\ \A j \in 1 .. NAME : (at + (WORD + WORD)) + j = at + (WORD + WORD + j)
    BY <2>1, <2>2
  <2>5. QED
    BY <2>3, <2>4
<1>6. /\ \A j \in 1 .. WORD : x[j] = b[at + j] /\ y[j] = b[at + (WORD + j)]
      /\ \A j \in 1 .. NAME : z[j] = b[at + (WORD + WORD + j)]
  BY <1>5 DEF Part
<1>7. /\ \A j \in 1 .. WORD : x[j] = DirEntry(f)[j] /\ y[j] = DirEntry(f)[WORD + j]
      /\ \A j \in 1 .. NAME : z[j] = DirEntry(f)[WORD + WORD + j]
  BY <1>4, <1>5, <1>6
<1> HIDE DEF x, y, z, s, t
<1>8. /\ \A j \in 1 .. WORD : x[j] = s[j] /\ y[j] = t[j]
      /\ \A j \in 1 .. NAME : z[j] = f.name[j]
  BY <1>7, EntryBytes DEF s, t
<1>9. x = s /\ y = t /\ z = f.name
  <2>1. x \in [1 .. WORD -> Byte] /\ s \in [1 .. WORD -> Byte] /\ \A j \in 1 .. WORD : x[j] = s[j]
    BY <1>1, <1>3, <1>8
  <2>2. y \in [1 .. WORD -> Byte] /\ t \in [1 .. WORD -> Byte] /\ \A j \in 1 .. WORD : y[j] = t[j]
    BY <1>1, <1>3, <1>8
  <2>3. /\ z \in [1 .. NAME -> Byte] /\ f.name \in [1 .. NAME -> Byte]
        /\ \A j \in 1 .. NAME : z[j] = f.name[j]
    BY <1>1, <1>2, <1>8
  <2>4. x = s
    BY <2>1, SameBytes, Zenon
  <2>5. y = t
    BY <2>2, SameBytes, Zenon
  <2>6. z = f.name
    BY <2>3, SameBytes, Zenon
  <2>7. QED
    BY <2>4, <2>5, <2>6
<1>10. QED
  BY <1>1, <1>2, <1>3, <1>9

-----------------------------------------------------------------------------
(* The items.                                                              *)

Items == machine \in Machines /\ item = [k \in Keys \cup {Same} |-> Content(machine, k)]

\* What the items hold.
LEMMA ItemTypes ==
  ASSUME Items
  PROVE  /\ \A k : Item(k) \in Seq(Byte) /\ Len(Item(k)) \in Nat
         /\ Item(ID) = Store(machine.version, WORD)
         /\ Item(FILE_DIR) = Directory(machine.dir)
         /\ \A k \in DOMAIN machine.content : k \in Nat /\ Item(k) = machine.content[k]
         /\ machine.version \in Words
         /\ machine.dir \in Seq(Files) /\ Len(machine.dir) \in Words
         /\ \A i \in DOMAIN machine.dir :
              /\ machine.dir[i].select \in DOMAIN machine.content
              /\ machine.dir[i].select \in Nat
              /\ machine.dir[i].size \in Nat
              /\ machine.dir[i].size = Len(machine.content[machine.dir[i].select])
<1>1. IsMachine(machine)
  BY MachineAssumption DEF Items
<1>2. /\ machine.version \in Words
      /\ DOMAIN machine.content \subseteq Nat \ {ID, FILE_DIR}
      /\ \A k \in DOMAIN machine.content : machine.content[k] \in Seq(Byte)
      /\ Len(machine.dir) \in Words
      /\ \A i \in DOMAIN machine.dir :
           machine.dir[i].size = Len(machine.content[machine.dir[i].select])
  BY <1>1 DEF IsMachine
<1> DEFINE Entries == [size : Words, select : Words \cap DOMAIN machine.content,
                       name : [1 .. NAME -> Byte]]
<1>3. machine.dir \in Seq(Entries)
  BY <1>1 DEF IsMachine
<1>4. Entries \subseteq Files
  BY DEF Files
<1>5. ASSUME NEW i \in DOMAIN machine.dir
      PROVE  machine.dir[i].select \in DOMAIN machine.content /\ machine.dir[i].select \in Nat
  <2>1. machine.dir[i] \in Entries
    <3> HIDE DEF Entries
    <3>1. QED
      BY <1>3
  <2>2. QED
    BY <1>2, <2>1
<1>6. machine.dir \in Seq(Files)
  <2> HIDE DEF Entries
  <2>1. QED
    BY <1>3, <1>4
<1>7. \A i \in DOMAIN machine.dir : machine.dir[i].size \in Nat
  <2> SUFFICES ASSUME NEW i \in DOMAIN machine.dir
               PROVE  machine.dir[i].size \in Nat
    OBVIOUS
  <2>1. machine.content[machine.dir[i].select] \in Seq(Byte)
    BY <1>2, <1>5
  <2>2. QED
    BY <1>2, <2>1
<1>8. /\ DOMAIN item = Keys \cup {Same}
      /\ \A k \in Keys \cup {Same} : item[k] = Content(machine, k)
  BY DEF Items
<1>9. {ID, FILE_DIR} \cup DOMAIN machine.content \subseteq Keys
  BY DEF Items, Keys
<1>10. Item(ID) = Store(machine.version, WORD)
  <2>1. Item(ID) = Content(machine, ID)
    BY <1>8, <1>9 DEF Item
  <2>2. QED
    BY <1>2, <2>1, Sizes DEF Content
<1>11. Item(FILE_DIR) = Directory(machine.dir)
  <2>1. Item(FILE_DIR) = Content(machine, FILE_DIR)
    BY <1>8, <1>9 DEF Item
  <2>2. QED
    BY <1>2, <2>1, Sizes DEF Content
<1>12. \A k \in DOMAIN machine.content : Item(k) = machine.content[k]
  BY <1>2, <1>8, <1>9 DEF Item, Content
<1>13. ASSUME NEW k
       PROVE  Item(k) \in Seq(Byte)
  <2>1. CASE k = ID
    <3>1. Store(machine.version, WORD) \in [1 .. WORD -> Byte]
      BY <1>2, Word
    <3>2. QED
      BY <1>10, <2>1, <3>1, Sizes, AsSequence
  <2>2. CASE k = FILE_DIR
    <3>1. /\ Directory(machine.dir) \in [1 .. WORD + ENTRY * Len(machine.dir) -> Byte]
          /\ ENTRY * Len(machine.dir) \in Nat
      BY <1>2, <1>6, DirectoryBytes, Zenon
    <3>2. WORD + ENTRY * Len(machine.dir) \in Nat
      <4>1. WORD \in Nat
        BY Sizes
      <4>2. QED
        BY <3>1, <4>1
    <3>3. QED
      BY <1>11, <2>2, <3>1, <3>2, AsSequence
  <2>3. CASE k \in DOMAIN machine.content
    BY <1>2, <1>12, <2>3
  <2>4. CASE k \notin {ID, FILE_DIR} \cup DOMAIN machine.content
    <3>1. Item(k) = <<>>
      <4>1. CASE k \in DOMAIN item
        <5>1. Content(machine, k) = <<>>
          BY <2>4 DEF Content
        <5>2. QED
          BY <1>8, <4>1, <5>1 DEF Item
      <4>2. CASE k \notin DOMAIN item
        BY <4>2 DEF Item
      <4>3. QED
        BY <4>1, <4>2
    <3>2. QED
      BY <3>1
  <2>5. QED
    BY <2>1, <2>2, <2>3, <2>4
<1>14. QED
  BY <1>2, <1>5, <1>6, <1>7, <1>10, <1>11, <1>12, <1>13

-----------------------------------------------------------------------------
(* The cursor.                                                             *)

\* A cursor of the device.
Within(c) == c \in [key : Int, off : Nat] /\ c.off <= Len(Item(c.key))

\* What taking bytes one by one comes to.
LEMMA Taking ==
  ASSUME Items, NEW c, Within(c), NEW n \in Nat
  PROVE  /\ Abs!Bytes(c, n) \in [1 .. n -> Byte]
         /\ Abs!Bytes(c, 0) = <<>> /\ Abs!After(c, 0) = c
         /\ Within(Abs!After(c, n))
         /\ Abs!Bytes(c, n + 1) = Append(Abs!Bytes(c, n), DataByte(Abs!After(c, n)))
         /\ Abs!After(c, n + 1) = Advance(Abs!After(c, n))
<1> DEFINE data == Item(c.key)
           size == Len(data)
           at(x) == IF c.off + x <= size THEN data[c.off + x] ELSE 0
           end(x) == IF c.off + x <= size THEN c.off + x ELSE size
<1>1. data \in Seq(Byte) /\ size \in Nat
  BY ItemTypes
<1>2. c = [key |-> c.key, off |-> c.off] /\ c.key \in Int /\ c.off \in Nat /\ c.off <= size
  BY DEF Within
<1>3. Abs!Item(c) = data
  BY DEF Abs!Item, Item
<1>4. \A x : Abs!Bytes(c, x) = [i \in 1 .. x |-> at(i)]
  BY <1>3 DEF Abs!Bytes
<1>5. \A x : Abs!After(c, x) = [key |-> c.key, off |-> end(x)]
  BY <1>2, <1>3 DEF Abs!After
<1>6. \A k : Item(k) \in Seq(Byte) /\ Len(Item(k)) \in Nat
  BY ItemTypes
<1> HIDE DEF data, size
<1>7. \A x \in Nat : end(x) \in Nat /\ end(x) <= size
  BY <1>1, <1>2
<1>8. \A i \in Nat \ {0} : at(i) \in Byte
  <2> SUFFICES ASSUME NEW i \in Nat \ {0}
               PROVE  at(i) \in Byte
    OBVIOUS
  <2>1. CASE c.off + i <= size
    <3>1. c.off + i \in 1 .. Len(data)
      BY <1>1, <1>2, <2>1 DEF size
    <3>2. QED
      BY <1>1, <2>1, <3>1
  <2>2. CASE ~(c.off + i <= size)
    BY <2>2, Sizes
  <2>3. QED
    BY <2>1, <2>2
<1>9. Abs!Bytes(c, n) \in [1 .. n -> Byte]
  <2>1. \A i \in 1 .. n : at(i) \in Byte
    BY <1>8
  <2> HIDE DEF at
  <2>2. QED
    BY <1>4, <2>1
<1>10. Abs!Bytes(c, 0) = <<>>
  <2>1. [i \in 1 .. 0 |-> at(i)] = <<>>
    OBVIOUS
  <2>2. QED
    BY <1>4, <2>1
<1>11. Abs!After(c, 0) = c
  BY <1>2, <1>5
<1>12. Within(Abs!After(c, n))
  <2> DEFINE a == [key |-> c.key, off |-> end(n)]
  <2>1. a \in [key : Int, off : Nat] /\ a.off <= Len(Item(a.key))
    BY <1>2, <1>7 DEF size, data
  <2>2. QED
    BY <1>5, <2>1 DEF Within
<1>13. DataByte(Abs!After(c, n)) = at(n + 1)
  <2>1. DataByte([key |-> c.key, off |-> end(n)]) = IF end(n) < size THEN data[end(n) + 1] ELSE 0
    BY DEF DataByte, data, size
  <2>2. (end(n) < size) = (c.off + (n + 1) <= size)
    BY <1>1, <1>2
  <2>3. c.off + (n + 1) <= size => end(n) + 1 = c.off + (n + 1)
    BY <1>1, <1>2
  <2>4. QED
    BY <1>5, <2>1, <2>2, <2>3
<1>14. Abs!Bytes(c, n + 1) = Append(Abs!Bytes(c, n), DataByte(Abs!After(c, n)))
  <2> HIDE DEF at
  <2>1. Append([i \in 1 .. n |-> at(i)], at(n + 1)) = [i \in 1 .. n + 1 |-> at(i)]
    <3> DEFINE s == [i \in 1 .. n |-> at(i)]
    <3>1. Len(s) = n
      OBVIOUS
    <3>2. Append(s, at(n + 1)) = [i \in 1 .. n + 1 |-> IF i <= n THEN s[i] ELSE at(n + 1)]
      BY <3>1, SMT
    <3>3. \A i \in 1 .. n + 1 : (IF i <= n THEN s[i] ELSE at(n + 1)) = at(i)
      OBVIOUS
    <3>4. QED
      BY <3>2, <3>3
  <2>2. QED
    BY <1>4, <1>13, <2>1
<1>15. Abs!After(c, n + 1) = Advance(Abs!After(c, n))
  <2> DEFINE a == [key |-> c.key, off |-> end(n)]
  <2>1. Advance(a) = IF end(n) < size THEN [key |-> c.key, off |-> end(n) + 1] ELSE a
    BY DEF Advance, size, data
  <2>2. end(n + 1) = IF end(n) < size THEN end(n) + 1 ELSE end(n)
    BY <1>1, <1>2
  <2>3. QED
    BY <1>5, <2>1, <2>2
<1>16. QED
  BY <1>9, <1>10, <1>11, <1>12, <1>14, <1>15

-----------------------------------------------------------------------------
(* The invariant.                                                          *)

CallTypes ==
  /\ Within(dev) /\ Within(start)
  /\ dma \in [control : SUBSET {"READ", "SELECT", "ERROR"}, key : Int, len : Nat]
  /\ engine \in Nat \cup {Stopped}
  /\ pc \in {"start", "inb", "poll", "idle"}
  /\ len \in Nat /\ buf \in Seq(Byte) /\ Len(buf) <= len /\ want \in Int

StaticTypes == version \in Nat /\ filecnt \in Nat /\ files \in Seq(Records)

OutcomeTypes ==
  /\ served \in [key : Int, len : Nat] /\ result \in Seq(Byte) /\ lost \in BOOLEAN
  /\ op \in {"none", "version", "count", "dir", "ready", "read", "file"}
  /\ asked \in Seq(1 .. BASE - 1)

TypeInv == Items /\ CallTypes /\ StaticTypes /\ OutcomeTypes

\* Where the call in progress reads from, and how far it has come.
Origin == IF want = Same THEN start ELSE [key |-> want, off |-> 0]
Taken == buf = Abs!Bytes(Origin, Len(buf)) /\ dev = Abs!After(Origin, Len(buf))
Untouched == buf = <<>> /\ dev = start

\* The states of a DMA: not fetched yet, running, done, failed.
DmaInv ==
  /\ dma.key = want /\ dma.len = len
  /\ \/ dma.control = Control(want) /\ engine = Stopped /\ Untouched
     \/ dma.control = Control(want) /\ engine = len - Len(buf) /\ Taken
     \/ dma.control = {} /\ engine = Stopped /\ Len(buf) = len /\ Taken
     \/ dma.control = {"ERROR"} /\ engine = Stopped /\ (Untouched \/ Taken)

\* The device leaves the driver's memory alone.
Quiet == "READ" \notin dma.control /\ engine = Stopped

CallInv ==
  /\ pc = "inb" => Taken
  /\ pc = "poll" => DmaInv
  /\ pc # "poll" => Quiet

\* The calls of fw_cfg_setup, of which only the last can fail.
SetupInv ==
  /\ pc = "start" <=> op = "none"
  /\ op \in {"version", "count"} => pc = "inb" /\ len = WORD
  /\ op = "version" => want = ID
  /\ op = "count" => want = FILE_DIR
  /\ op = "dir" =>
       /\ pc \in {"inb", "poll"}
       /\ want = Same /\ start = [key |-> FILE_DIR, off |-> WORD]
       /\ filecnt = Len(machine.dir) /\ len = ENTRY * filecnt
  /\ op = "ready" => pc = "idle"
  /\ op \in {"none", "version", "count", "dir"} => ~lost

\* The table, and a read of a file.
FilesInv ==
  /\ op \in {"ready", "read", "file"} /\ ~lost => files = machine.dir
  /\ op = "file" =>
       LET id == fw_cfg_file_id(asked) IN
       id \in DOMAIN files /\ want = files[id].select /\ len = files[id].size
  /\ op = "file" /\ pc = "idle" /\ ~lost => result = Abs!Bytes(Origin, len)

IInv == TypeInv /\ CallInv /\ SetupInv /\ FilesInv

-----------------------------------------------------------------------------
(* The same operators with the state as a parameter, for the next state.   *)

ItemOf(its, c) == IF c.key \in DOMAIN its THEN its[c.key] ELSE <<>>
BytesOf(its, c, n) ==
  [i \in 1 .. n |-> IF c.off + i <= Len(ItemOf(its, c)) THEN ItemOf(its, c)[c.off + i] ELSE 0]
AfterOf(its, c, n) ==
  [c EXCEPT !.off = IF c.off + n <= Len(ItemOf(its, c)) THEN c.off + n ELSE Len(ItemOf(its, c))]
OriginOf(k, c) == IF k = Same THEN c ELSE [key |-> k, off |-> 0]
IdOf(table, name) ==
  LET hits == {i \in DOMAIN table : filenameeq(name, table[i])} IN
  IF hits = {} THEN 0 ELSE CHOOSE i \in hits : \A j \in hits : i <= j

\* They are the same.
LEMMA Named ==
  /\ \A c, n : Abs!Bytes(c, n) = BytesOf(item, c, n) /\ Abs!After(c, n) = AfterOf(item, c, n)
  /\ Origin = OriginOf(want, start) /\ Origin' = OriginOf(want', start')
  /\ \A name : fw_cfg_file_id(name) = IdOf(files, name)
  /\ fw_cfg_file_id(asked)' = IdOf(files', asked')
<1>1. \A c, n : Abs!Bytes(c, n) = BytesOf(item, c, n) /\ Abs!After(c, n) = AfterOf(item, c, n)
  BY DEF Abs!Bytes, Abs!After, Abs!Item, BytesOf, AfterOf, ItemOf
<1>2. Origin = OriginOf(want, start) /\ Origin' = OriginOf(want', start')
  BY DEF Origin, OriginOf
<1>3. \A name : fw_cfg_file_id(name) = IdOf(files, name)
  BY DEF fw_cfg_file_id, IdOf
<1>4. fw_cfg_file_id(asked)' = IdOf(files', asked')
  BY DEF fw_cfg_file_id, IdOf, filenameeq
<1>5. QED
  BY <1>1, <1>2, <1>3, <1>4

\* What has been taken, in the next state.
LEMMA TakenNext ==
  ASSUME UNCHANGED item
  PROVE  LET o == OriginOf(want', start')
         IN  Taken' <=> buf' = Abs!Bytes(o, Len(buf')) /\ dev' = Abs!After(o, Len(buf'))
<1>1. Taken' <=> /\ buf' = BytesOf(item', OriginOf(want', start'), Len(buf'))
                 /\ dev' = AfterOf(item', OriginOf(want', start'), Len(buf'))
  BY DEF Taken, Origin, OriginOf, Abs!Bytes, Abs!After, Abs!Item, BytesOf, AfterOf, ItemOf
<1>2. QED
  BY <1>1, Named

\* Cursors and items, in the next state.
LEMMA WithinNext ==
  ASSUME UNCHANGED item
  PROVE  /\ Within(dev)' <=> Within(dev')
         /\ Within(start)' <=> Within(start')
         /\ UNCHANGED machine => (Items' <=> Items)
  BY DEF Within, Item, Items

\* A call reads from within an item.
LEMMA OriginWithin ==
  ASSUME TypeInv
  PROVE  Within(Origin)
<1>1. CASE want = Same
  BY <1>1 DEF TypeInv, CallTypes, Origin
<1>2. CASE want # Same
  <2>1. Len(Item(want)) \in Nat
    BY ItemTypes DEF TypeInv
  <2>2. Within([key |-> want, off |-> 0])
    BY <2>1 DEF TypeInv, CallTypes, Within
  <2>3. QED
    BY <1>2, <2>2 DEF Origin
<1>3. QED
  BY <1>1, <1>2

\* One byte more, by either transport.
LEMMA TakenOne ==
  ASSUME TypeInv, Taken, buf' = Append(buf, DataByte(dev)), dev' = Advance(dev),
         UNCHANGED <<machine, item, start, want>>
  PROVE  Taken' /\ Within(dev)' /\ buf' \in Seq(Byte) /\ Len(buf') = Len(buf) + 1
<1>1. Items /\ Within(Origin) /\ buf \in Seq(Byte) /\ Len(buf) \in Nat
  BY OriginWithin DEF TypeInv, CallTypes
<1> DEFINE n == Len(buf)
           o == Origin
<1>2. buf = Abs!Bytes(o, n) /\ dev = Abs!After(o, n)
  BY DEF Taken
<1>3. n \in Nat /\ n + 1 \in Nat
  BY <1>1
<1> HIDE DEF n, o
<1>4. Within(o)
  BY <1>1 DEF o
<1>5. /\ Abs!Bytes(o, n + 1) = Append(Abs!Bytes(o, n), DataByte(Abs!After(o, n)))
      /\ Abs!After(o, n + 1) = Advance(Abs!After(o, n))
  BY <1>1, <1>3, <1>4, Taking
<1>6. Abs!Bytes(o, n + 1) \in [1 .. n + 1 -> Byte] /\ Within(Abs!After(o, n + 1))
  BY <1>1, <1>3, <1>4, Taking
<1>7. buf' = Abs!Bytes(o, n + 1) /\ dev' = Abs!After(o, n + 1)
  BY <1>2, <1>5
<1>8. buf' \in Seq(Byte) /\ Len(buf') = n + 1
  <2>1. buf' \in [1 .. n + 1 -> Byte]
    BY <1>6, <1>7
  <2>2. QED
    BY <1>3, <2>1, AsSequence
<1>9. OriginOf(want', start') = o
  BY Named DEF o
<1>10. Taken'
  BY <1>7, <1>8, <1>9, TakenNext
<1>11. Within(dev)'
  BY <1>6, <1>7, WithinNext
<1>12. QED
  BY <1>8, <1>10, <1>11 DEF n

-----------------------------------------------------------------------------
(* What the steps do to a call.                                            *)

\* The control word of a request.
LEMMA ControlFacts ==
  ASSUME NEW k \in Int
  PROVE  /\ "READ" \in Control(k) /\ Control(k) \subseteq {"READ", "SELECT", "ERROR"}
         /\ "SELECT" \in Control(k) <=> k # Same
         /\ Control(k) # {} /\ Control(k) # {"ERROR"}
         /\ Control(k) \ {"ERROR"} # {}
  BY DEF Control

\* The state before the first byte.
LEMMA TakenNone ==
  ASSUME TypeInv, buf' = <<>>, UNCHANGED item, dev' = OriginOf(want', start'),
         Within(OriginOf(want', start'))
  PROVE  Taken'
<1>1. Items /\ Len(buf') = 0 /\ 0 \in Nat
  BY DEF TypeInv
<1>2. /\ Abs!Bytes(OriginOf(want', start'), 0) = <<>>
      /\ Abs!After(OriginOf(want', start'), 0) = OriginOf(want', start')
  BY <1>1, Taking
<1>3. QED
  BY <1>1, <1>2, TakenNext

\* What a call leaves alone.
CallNext ==
  /\ UNCHANGED <<machine, item, start, want, len, pc>>
  /\ CallTypes' /\ CallInv'

\* The engine starts on the descriptor of the call that polls.
LEMMA FetchStep ==
  ASSUME IInv, DmaFetch
  PROVE  CallNext
<1>1. /\ engine = Stopped /\ "READ" \in dma.control
      /\ dev' = IF "SELECT" \in dma.control THEN Selected(dma.key) ELSE dev
      /\ engine' = dma.len
      /\ UNCHANGED <<machine, item, dma, pc, len, start, want, buf>>
  BY DEF DmaFetch, fixed, request
<1>2. TypeInv /\ CallTypes /\ CallInv
  BY DEF IInv, TypeInv
<1>3. pc = "poll" /\ DmaInv
  BY <1>1, <1>2 DEF CallInv, Quiet
<1>4. /\ dma.key = want /\ dma.len = len /\ dma.control = Control(want) /\ Untouched
  <2>1. Len(buf) \in Nat /\ len \in Nat /\ Len(buf) <= len
    BY <1>2 DEF CallTypes
  <2>2. len - Len(buf) # Stopped
    BY <2>1 DEF Stopped
  <2>3. QED
    BY <1>1, <1>3, <2>2 DEF DmaInv
<1>5. buf' = <<>> /\ Len(buf') = 0 /\ len' = len /\ len \in Nat /\ engine' = len' - Len(buf')
  BY <1>1, <1>2, <1>4 DEF Untouched, CallTypes
<1>6. dev' = Origin
  BY <1>1, <1>2, <1>4, ControlFacts DEF Untouched, Selected, Origin, CallTypes
<1>7. Within(Origin) /\ Origin = OriginOf(want', start')
  BY <1>1, <1>2, OriginWithin, Named DEF Origin, OriginOf
<1>8. Taken'
  BY <1>1, <1>2, <1>5, <1>6, <1>7, TakenNone
<1>9. DmaInv'
  BY <1>1, <1>4, <1>5, <1>8 DEF DmaInv, Control
<1>10. CallTypes'
  <2>1. Within(dev)' /\ Within(start)'
    BY <1>1, <1>2, <1>6, <1>7, WithinNext DEF CallTypes
  <2>2. QED
    BY <1>1, <1>2, <1>5, <2>1 DEF CallTypes
<1>11. CallInv'
  BY <1>1, <1>3, <1>9 DEF CallInv
<1>12. QED
  BY <1>1, <1>10, <1>11 DEF CallNext

\* It takes the next byte of that call.
LEMMA ByteStep ==
  ASSUME IInv, DmaByte
  PROVE  CallNext
<1>1. /\ engine > 0
      /\ buf' = Append(buf, DataByte(dev)) /\ dev' = Advance(dev) /\ engine' = engine - 1
      /\ UNCHANGED <<machine, item, dma, pc, len, start, want>>
  BY DEF DmaByte, fixed, request
<1>2. TypeInv /\ CallTypes /\ CallInv
  BY DEF IInv, TypeInv
<1>3. engine \in Nat \ {0}
  BY <1>1, <1>2 DEF CallTypes, Stopped
<1>4. pc = "poll" /\ DmaInv /\ engine # Stopped
  BY <1>2, <1>3 DEF CallInv, Quiet, Stopped
<1>5. /\ dma.key = want /\ dma.len = len /\ dma.control = Control(want)
      /\ engine = len - Len(buf) /\ Taken
  BY <1>4 DEF DmaInv
<1>6. Taken' /\ Within(dev)' /\ buf' \in Seq(Byte) /\ Len(buf') = Len(buf) + 1
  BY <1>1, <1>2, <1>5, TakenOne
<1>7. /\ len \in Nat /\ Len(buf) \in Nat /\ Len(buf') <= len'
      /\ engine' = len' - Len(buf') /\ engine' \in Nat
  BY <1>1, <1>2, <1>3, <1>5, <1>6 DEF CallTypes
<1>8. DmaInv'
  BY <1>1, <1>5, <1>6, <1>7 DEF DmaInv, Control
<1>9. CallTypes'
  BY <1>1, <1>2, <1>6, <1>7, WithinNext DEF CallTypes
<1>10. CallInv'
  BY <1>1, <1>4, <1>8 DEF CallInv
<1>11. QED
  BY <1>1, <1>9, <1>10 DEF CallNext

\* The end of a transfer, good or bad.
LEMMA EndStep ==
  ASSUME IInv, DmaDone \/ DmaError
  PROVE  CallNext
<1>1. /\ engine' = Stopped
      /\ UNCHANGED <<machine, item, dev, pc, len, start, want, buf>>
      /\ \/ engine = 0 /\ dma' = [dma EXCEPT !.control = {}]
         \/ "READ" \in dma.control /\ dma' = [dma EXCEPT !.control = {"ERROR"}]
  BY DEF DmaDone, DmaError, fixed, request
<1>2. TypeInv /\ CallTypes /\ CallInv
  BY DEF IInv, TypeInv
<1>3. pc = "poll" /\ DmaInv
  BY <1>1, <1>2 DEF CallInv, Quiet, Stopped
<1>4. Taken' <=> Taken
  BY <1>1, TakenNext, Named DEF Taken, OriginOf, Origin
<1>5. Untouched' <=> Untouched
  BY <1>1 DEF Untouched
<1>6. dma'.key = dma.key /\ dma'.len = dma.len
  BY <1>1, <1>2 DEF CallTypes
<1>7. DmaInv'
  <2>1. CASE engine = 0 /\ dma' = [dma EXCEPT !.control = {}]
    <3>1. dma'.control = {}
      BY <1>2, <2>1 DEF CallTypes
    <3>2. Taken /\ len - Len(buf) = 0
      BY <1>3, <2>1 DEF DmaInv, Stopped
    <3>3. Len(buf') = len'
      BY <1>1, <1>2, <3>2 DEF CallTypes
    <3>4. QED
      BY <1>1, <1>3, <1>4, <1>6, <3>1, <3>2, <3>3 DEF DmaInv
  <2>2. CASE "READ" \in dma.control /\ dma' = [dma EXCEPT !.control = {"ERROR"}]
    <3>1. dma'.control = {"ERROR"}
      BY <1>2, <2>2 DEF CallTypes
    <3>2. Taken \/ Untouched
      BY <1>3 DEF DmaInv
    <3>3. QED
      BY <1>1, <1>3, <1>4, <1>5, <1>6, <3>1, <3>2 DEF DmaInv
  <2>3. QED
    BY <1>1, <2>1, <2>2
<1>8. dma' \in [control : SUBSET {"READ", "SELECT", "ERROR"}, key : Int, len : Nat]
  BY <1>1, <1>2 DEF CallTypes
<1>9. CallTypes'
  BY <1>1, <1>2, <1>8, WithinNext DEF CallTypes
<1>10. CallInv'
  BY <1>1, <1>3, <1>7 DEF CallInv
<1>11. QED
  BY <1>1, <1>9, <1>10 DEF CallNext

\* A read of the data port does the same.
LEMMA InbStep ==
  ASSUME IInv, Inb
  PROVE  CallNext
<1>1. /\ pc = "inb" /\ Len(buf) < len
      /\ buf' = Append(buf, DataByte(dev)) /\ dev' = Advance(dev)
      /\ UNCHANGED <<machine, item, dma, engine, pc, len, start, want>>
  BY DEF Inb, fixed, request
<1>2. TypeInv /\ CallTypes /\ CallInv
  BY DEF IInv, TypeInv
<1>3. Taken /\ Quiet
  BY <1>1, <1>2 DEF CallInv
<1>4. Taken' /\ Within(dev)' /\ buf' \in Seq(Byte) /\ Len(buf') = Len(buf) + 1
  BY <1>1, <1>2, <1>3, TakenOne
<1>5. Len(buf') <= len'
  BY <1>1, <1>2, <1>4 DEF CallTypes
<1>6. CallTypes'
  BY <1>1, <1>2, <1>4, <1>5, WithinNext DEF CallTypes
<1>7. CallInv'
  BY <1>1, <1>3, <1>4 DEF CallInv, Quiet
<1>8. QED
  BY <1>1, <1>6, <1>7 DEF CallNext

\* A call that begins, by port or by DMA.
LEMMA BeginStep ==
  ASSUME IInv, Quiet, UNCHANGED fixed, NEW o, NEW k \in Int, NEW n \in Nat,
         BeginPort(o, k, n) \/ BeginDma(o, k, n)
  PROVE  /\ CallTypes' /\ CallInv'
         /\ op' = o /\ len' = n /\ start' = dev /\ want' = k
         /\ pc' = IF BeginPort(o, k, n) THEN "inb" ELSE "poll"
<1>1. /\ op' = o /\ len' = n /\ buf' = <<>> /\ start' = dev /\ want' = k
      /\ UNCHANGED <<machine, item>>
  BY DEF BeginPort, BeginDma, Begin, fixed
<1>2. TypeInv /\ CallTypes /\ Items
  BY DEF IInv, TypeInv
<1>3. Within(dev)
  BY <1>2 DEF CallTypes
<1>4. Within(start)' /\ buf' \in Seq(Byte) /\ Len(buf') = 0
  BY <1>1, <1>3, WithinNext
<1>5. CASE BeginPort(o, k, n)
  <2>1. dev' = Selected(k) /\ pc' = "inb" /\ UNCHANGED <<dma, engine>>
    BY <1>5 DEF BeginPort
  <2>2. dev' = OriginOf(want', start')
    BY <1>1, <2>1 DEF Selected, OriginOf
  <2>3. Within(dev')
    <3>1. CASE k = Same
      BY <1>3, <2>1, <3>1 DEF Selected
    <3>2. CASE k # Same
      <4>1. Len(Item(k)) \in Nat
        BY <1>2, ItemTypes
      <4>2. QED
        BY <2>1, <3>2, <4>1 DEF Selected, Within
    <3>3. QED
      BY <3>1, <3>2
  <2>4. Taken'
    BY <1>1, <1>2, <2>2, <2>3, TakenNone
  <2>5. CallTypes'
    BY <1>1, <1>2, <1>4, <2>1, <2>3, WithinNext DEF CallTypes
  <2>6. CallInv'
    BY <2>1, <2>4 DEF CallInv, Quiet
  <2>7. QED
    BY <1>1, <1>5, <2>1, <2>5, <2>6
<1>6. CASE ~BeginPort(o, k, n)
  <2>1. /\ dma' = [control |-> Control(k), key |-> k, len |-> n] /\ pc' = "poll"
        /\ UNCHANGED <<dev, engine>>
    BY <1>6 DEF BeginDma
  <2>2. Untouched'
    BY <1>1, <2>1 DEF Untouched
  <2>3. DmaInv'
    BY <1>1, <2>1, <2>2 DEF DmaInv, Quiet, Control
  <2>4. CallTypes'
    BY <1>1, <1>2, <1>3, <1>4, <2>1, WithinNext, ControlFacts DEF CallTypes
  <2>5. CallInv'
    BY <2>1, <2>3 DEF CallInv
  <2>6. QED
    BY <1>1, <1>6, <2>1, <2>4, <2>5
<1>7. QED
  BY <1>5, <1>6

\* A call that returns has read everything it asked for, or has failed.
LEMMA ReturnsStep ==
  ASSUME IInv, Returns
  PROVE  /\ pc \in {"inb", "poll"} /\ Quiet
         /\ served' = [key |-> want, len |-> len] /\ result' = buf
         /\ \/ lost' = lost /\ Len(buf) = len /\ Taken
            \/ lost' = TRUE /\ pc = "poll" /\ (Untouched \/ Taken)
<1>1. TypeInv /\ CallTypes /\ CallInv /\ lost \in BOOLEAN /\ want \in Int
  BY DEF IInv, TypeInv, OutcomeTypes, CallTypes
<1>2. /\ served' = [key |-> want, len |-> len] /\ result' = buf
      /\ lost' = (lost \/ (pc = "poll" /\ "ERROR" \in dma.control))
  BY DEF Returns
<1>3. CASE pc = "inb" /\ Len(buf) = len
  BY <1>1, <1>2, <1>3 DEF CallInv
<1>4. CASE pc = "poll" /\ PollDone
  <2>1. DmaInv /\ dma.control \ {"ERROR"} = {}
    BY <1>1, <1>4 DEF CallInv, PollDone
  <2>2. dma.control # Control(want)
    BY <1>1, <2>1, ControlFacts
  <2>3. CASE dma.control = {} /\ engine = Stopped /\ Len(buf) = len /\ Taken
    BY <1>1, <1>2, <1>4, <2>3 DEF Quiet
  <2>4. CASE dma.control = {"ERROR"} /\ engine = Stopped /\ (Untouched \/ Taken)
    BY <1>1, <1>2, <1>4, <2>4 DEF Quiet
  <2>5. QED
    BY <2>1, <2>2, <2>3, <2>4 DEF DmaInv
<1>5. QED
  BY <1>3, <1>4 DEF Returns

-----------------------------------------------------------------------------
(* The invariant is one.                                                   *)

\* FilesInv in the next state.
LEMMA FilesNext ==
  FilesInv' <=>
    /\ op' \in {"ready", "read", "file"} /\ ~lost' => files' = machine'.dir
    /\ op' = "file" => /\ IdOf(files', asked') \in DOMAIN files'
                       /\ want' = files'[IdOf(files', asked')].select
                       /\ len' = files'[IdOf(files', asked')].size
    /\ op' = "file" /\ pc' = "idle" /\ ~lost' =>
         result' = BytesOf(item', OriginOf(want', start'), len')
<1>1. Abs!Bytes(Origin, len)' = BytesOf(item', OriginOf(want', start'), len')
  BY DEF Abs!Bytes, Abs!Item, Origin, BytesOf, ItemOf, OriginOf
<1>2. fw_cfg_file_id(asked)' = IdOf(files', asked')
  BY Named
<1>3. QED
  BY <1>1, <1>2 DEF FilesInv

\* A table finds a name at one of its entries.
LEMMA IdFound ==
  ASSUME NEW name, StaticTypes, fw_cfg_file_id(name) # 0
  PROVE  /\ fw_cfg_file_id(name) \in DOMAIN files
         /\ filenameeq(name, files[fw_cfg_file_id(name)])
         /\ \A j \in DOMAIN files : filenameeq(name, files[j]) => fw_cfg_file_id(name) <= j
<1> DEFINE hits == {i \in DOMAIN files : filenameeq(name, files[i])}
<1>1. fw_cfg_file_id(name) = IF hits = {} THEN 0 ELSE CHOOSE i \in hits : \A j \in hits : i <= j
  BY DEF fw_cfg_file_id
<1>2. hits \subseteq Nat
  BY DEF StaticTypes
<1>3. /\ \A i : i \in hits => i \in DOMAIN files /\ filenameeq(name, files[i])
      /\ \A j \in DOMAIN files : filenameeq(name, files[j]) => j \in hits
  OBVIOUS
<1> HIDE DEF hits
<1>4. hits # {}
  BY <1>1
<1>5. \E i \in hits : \A j \in hits : i <= j
  BY <1>2, <1>4, LeastNumber
<1>6. fw_cfg_file_id(name) \in hits /\ \A j \in hits : fw_cfg_file_id(name) <= j
  BY <1>1, <1>4, <1>5
<1>7. QED
  BY <1>3, <1>6

\* A step within a call.
LEMMA CallMoves ==
  ASSUME IInv, CallNext, UNCHANGED <<statics, op, outcome, asked>>
  PROVE  IInv'
<1>1. /\ UNCHANGED <<machine, item, start, want, len, pc>>
      /\ UNCHANGED <<version, filecnt, files, op, served, result, lost, asked>>
  BY DEF CallNext, statics, outcome
<1>2. TypeInv'
  BY <1>1, WithinNext DEF CallNext, IInv, TypeInv, StaticTypes, OutcomeTypes
<1>3. SetupInv'
  BY <1>1 DEF IInv, SetupInv
<1>4. FilesInv'
  <2>1. fw_cfg_file_id(asked) = IdOf(files, asked)
    BY Named
  <2>2. Abs!Bytes(Origin, len) = BytesOf(item, OriginOf(want, start), len)
    BY Named
  <2>3. QED
    BY <1>1, <2>1, <2>2, FilesNext DEF IInv, FilesInv
<1>5. QED
  BY <1>2, <1>3, <1>4 DEF CallNext, IInv

\* fw_cfg_setup asks for the version.
LEMMA SetupVersionStep ==
  ASSUME IInv, SetupVersion
  PROVE  IInv'
<1>1. /\ pc = "start" /\ BeginPort("version", ID, WORD)
      /\ UNCHANGED <<machine, item, version, filecnt, files, served, result, lost, asked>>
  BY DEF SetupVersion, fixed, statics, outcome, caller
<1>2. UNCHANGED fixed
  BY <1>1 DEF fixed
<1>3. Quiet /\ op = "none" /\ ~lost
  BY <1>1 DEF IInv, CallInv, SetupInv
<1>4. ID \in Int /\ WORD \in Nat
  BY Sizes
<1>5. /\ CallTypes' /\ CallInv'
      /\ op' = "version" /\ len' = WORD /\ want' = ID /\ pc' = "inb"
  BY <1>1, <1>2, <1>3, <1>4, BeginStep
<1>6. TypeInv'
  BY <1>1, <1>5, WithinNext DEF IInv, TypeInv, StaticTypes, OutcomeTypes
<1>7. SetupInv'
  BY <1>1, <1>3, <1>5 DEF SetupInv
<1>8. FilesInv'
  BY <1>5, FilesNext
<1>9. QED
  BY <1>5, <1>6, <1>7, <1>8 DEF IInv

\* It has the version and asks for the number of files.
LEMMA SetupCountStep ==
  ASSUME IInv, SetupCount
  PROVE  IInv'
<1>1. /\ op = "version" /\ Returns /\ version' = LE(buf)
      /\ BeginPort("count", FILE_DIR, WORD)
      /\ UNCHANGED <<machine, item, filecnt, files, asked>>
  BY DEF SetupCount, fixed, caller
<1>2. UNCHANGED fixed
  BY <1>1 DEF fixed
<1>3. pc = "inb" /\ len = WORD /\ ~lost
  BY <1>1 DEF IInv, SetupInv
<1>4. /\ Quiet /\ served' = [key |-> want, len |-> len] /\ result' = buf
      /\ lost' = lost /\ Len(buf) = WORD
  BY <1>1, <1>3, ReturnsStep
<1>5. FILE_DIR \in Int /\ WORD \in Nat
  BY Sizes
<1>6. /\ CallTypes' /\ CallInv'
      /\ op' = "count" /\ len' = WORD /\ want' = FILE_DIR /\ pc' = "inb"
  BY <1>1, <1>2, <1>4, <1>5, BeginStep
<1>7. version' \in Nat
  <2>1. buf \in [1 .. WORD -> Byte]
    BY <1>4, AsFunction DEF IInv, TypeInv, CallTypes
  <2>2. QED
    BY <1>1, <1>5, <2>1, StoreValue
<1>8. TypeInv'
  BY <1>1, <1>4, <1>6, <1>7, WithinNext
    DEF IInv, TypeInv, CallTypes, StaticTypes, OutcomeTypes
<1>9. SetupInv'
  BY <1>3, <1>4, <1>6 DEF SetupInv
<1>10. FilesInv'
  BY <1>6, FilesNext
<1>11. QED
  BY <1>6, <1>8, <1>9, <1>10 DEF IInv

\* The bytes of the directory behind its count.
LEMMA DirectoryTaken ==
  ASSUME Items
  PROVE  LET n == Len(machine.dir)
             c == [key |-> FILE_DIR, off |-> 0]
             d == [key |-> FILE_DIR, off |-> WORD]
         IN  /\ n \in Nat /\ ENTRY * n \in Nat /\ Within(c) /\ Within(d)
             /\ BE(Abs!Bytes(c, WORD)) = n /\ Abs!After(c, WORD) = d
             /\ \A i \in 1 .. n, j \in 1 .. ENTRY :
                  Abs!Bytes(d, ENTRY * n)[ENTRY * (i - 1) + j] = DirEntry(machine.dir[i])[j]
<1> DEFINE n == Len(machine.dir)
           c == [key |-> FILE_DIR, off |-> 0]
           d == [key |-> FILE_DIR, off |-> WORD]
           m == ENTRY * n
           data == Directory(machine.dir)
<1>1. /\ machine.dir \in Seq(Files) /\ n \in Words /\ Item(FILE_DIR) = data
      /\ \A k : Item(k) \in Seq(Byte)
  BY ItemTypes
<1>2. /\ data \in [1 .. WORD + m -> Byte] /\ n \in Nat /\ m \in Nat
      /\ \A j \in 1 .. WORD : data[j] = Reverse(Store(n, WORD))[j]
      /\ \A i \in 1 .. n, j \in 1 .. ENTRY :
           ENTRY * (i - 1) + j \in 1 .. m
           /\ data[WORD + (ENTRY * (i - 1) + j)] = DirEntry(machine.dir[i])[j]
  <2>1. /\ Directory(machine.dir) \in [1 .. WORD + ENTRY * Len(machine.dir) -> Byte]
        /\ Len(machine.dir) \in Nat /\ ENTRY * Len(machine.dir) \in Nat
        /\ \A j \in 1 .. WORD :
             Directory(machine.dir)[j] = Reverse(Store(Len(machine.dir), WORD))[j]
        /\ \A i \in 1 .. Len(machine.dir), j \in 1 .. ENTRY :
             /\ ENTRY * (i - 1) + j \in 1 .. ENTRY * Len(machine.dir)
             /\ Directory(machine.dir)[WORD + (ENTRY * (i - 1) + j)] = DirEntry(machine.dir[i])[j]
    BY <1>1, DirectoryBytes, Zenon
  <2>2. QED
    BY <2>1
<1>3. WORD \in Nat /\ FILE_DIR \in Int /\ 0 \in Nat
  BY Sizes
<1> HIDE DEF n, m, data
<1>4. WORD + m \in Nat /\ WORD <= WORD + m
  BY <1>2, <1>3
<1>5. data \in Seq(Byte) /\ Len(data) = WORD + m
  BY <1>2, <1>4, AsSequence, Zenon
<1>6. Within(c) /\ Within(d)
  BY <1>1, <1>3, <1>4, <1>5 DEF Within
<1>7. /\ Abs!Item(c) = data /\ Abs!Item(d) = data
  BY <1>1 DEF Abs!Item, Item
<1>8. Abs!After(c, WORD) = d
  BY <1>3, <1>4, <1>5, <1>7 DEF Abs!After
<1>9. BE(Abs!Bytes(c, WORD)) = n
  <2> DEFINE s == Reverse(Store(n, WORD))
             b == Abs!Bytes(c, WORD)
  <2>1. s \in [1 .. WORD -> Byte] /\ BE(s) = n
    BY <1>1, Word
  <2>2. b = [i \in 1 .. WORD |-> IF 0 + i <= Len(data) THEN data[0 + i] ELSE 0]
    BY <1>7 DEF Abs!Bytes
  <2>3. \A i \in 1 .. WORD : 0 + i = i /\ i <= Len(data)
    BY <1>3, <1>4, <1>5, <1>2
  <2>4. b \in [1 .. WORD -> Byte]
    BY <1>3, <1>6, Taking
  <2>5. \A i \in 1 .. WORD : b[i] = s[i]
    BY <1>2, <2>2, <2>3
  <2> HIDE DEF s, b
  <2>6. b = s
    BY <2>1, <2>4, <2>5, SameBytes, Zenon
  <2>7. QED
    BY <2>1, <2>6 DEF b
<1>10. ASSUME NEW i \in 1 .. n, NEW j \in 1 .. ENTRY
       PROVE  Abs!Bytes(d, m)[ENTRY * (i - 1) + j] = DirEntry(machine.dir[i])[j]
  <2> DEFINE x == ENTRY * (i - 1) + j
  <2>1. x \in 1 .. m /\ data[WORD + x] = DirEntry(machine.dir[i])[j]
    BY <1>2
  <2> HIDE DEF x
  <2>2. WORD + x <= Len(data)
    BY <1>2, <1>3, <1>5, <2>1
  <2>3. Abs!Bytes(d, m)[x] = IF WORD + x <= Len(data) THEN data[WORD + x] ELSE 0
    BY <1>7, <2>1 DEF Abs!Bytes
  <2>4. QED
    BY <2>1, <2>2, <2>3 DEF x
<1>11. QED
  BY <1>2, <1>6, <1>8, <1>9, <1>10 DEF n, m

\* It has the number, and the device stands on the first entry.
LEMMA SetupDirStep ==
  ASSUME IInv, SetupDir
  PROVE  IInv'
<1> DEFINE n == Len(machine.dir)
<1>1. /\ op = "count" /\ Returns /\ filecnt' = BE(buf)
      /\ fw_cfg_read("dir", Same, ENTRY * BE(buf), version)
      /\ UNCHANGED <<machine, item, version, files, asked>>
  BY DEF SetupDir, fixed, caller
<1>2. UNCHANGED fixed
  BY <1>1 DEF fixed
<1>3. pc = "inb" /\ len = WORD /\ want = FILE_DIR /\ ~lost /\ Items
  BY <1>1 DEF IInv, SetupInv, TypeInv
<1>4. /\ Quiet /\ served' = [key |-> want, len |-> len] /\ result' = buf
      /\ lost' = lost /\ Len(buf) = WORD /\ Taken
  BY <1>1, <1>3, ReturnsStep
<1>5. Origin = [key |-> FILE_DIR, off |-> 0]
  BY <1>3, Sizes DEF Origin
<1>6. /\ n \in Nat /\ ENTRY * n \in Nat /\ BE(buf) = n
      /\ dev = [key |-> FILE_DIR, off |-> WORD]
  BY <1>3, <1>4, <1>5, DirectoryTaken DEF Taken
<1>7. BeginPort("dir", Same, ENTRY * n) \/ BeginDma("dir", Same, ENTRY * n)
  BY <1>1, <1>6 DEF fw_cfg_read
<1>8. Same \in Int
  BY Sizes
<1>9. /\ CallTypes' /\ CallInv'
      /\ op' = "dir" /\ len' = ENTRY * n /\ start' = dev /\ want' = Same /\ pc' \in {"inb", "poll"}
  BY <1>2, <1>4, <1>6, <1>7, <1>8, BeginStep
<1>10. TypeInv'
  BY <1>1, <1>4, <1>6, <1>9, WithinNext
    DEF IInv, TypeInv, CallTypes, StaticTypes, OutcomeTypes
<1>11. SetupInv'
  BY <1>1, <1>3, <1>4, <1>6, <1>9 DEF SetupInv
<1>12. FilesInv'
  BY <1>9, FilesNext
<1>13. QED
  BY <1>9, <1>10, <1>11, <1>12 DEF IInv

\* The part of the table's memory that a DMA in error has not written.
LEMMA Filled ==
  ASSUME NEW b \in Seq(Byte), NEW n \in Nat, Len(b) <= n, NEW junk \in Byte
  PROVE  LET c == b \o [i \in 1 .. n - Len(b) |-> junk]
         IN  c \in Seq(Byte) /\ Len(c) = n /\ (Len(b) = n => c = b)
<1> DEFINE r == [i \in 1 .. n - Len(b) |-> junk]
<1>1. n - Len(b) \in Nat
  OBVIOUS
<1>2. r \in [1 .. n - Len(b) -> Byte]
  OBVIOUS
<1>3. r \in Seq(Byte) /\ Len(r) = n - Len(b)
  BY <1>1, <1>2, AsSequence, Zenon
<1>4. Len(b) = n => r = <<>>
  OBVIOUS
<1> HIDE DEF r
<1>5. b \o r \in Seq(Byte) /\ Len(b \o r) = n
  BY <1>3
<1>6. b \o <<>> = b
  OBVIOUS
<1>7. QED
  BY <1>4, <1>5, <1>6 DEF r

\* It has the entries, or what came of them before the DMA failed.
LEMMA SetupDoneStep ==
  ASSUME IInv, SetupDone
  PROVE  IInv'
<1> DEFINE n == Len(machine.dir)
<1>1. /\ op = "dir" /\ Returns /\ pc' = "idle" /\ op' = "ready"
      /\ UNCHANGED <<machine, item, dev, dma, engine, version, filecnt, asked>>
      /\ UNCHANGED <<len, buf, start, want>>
  BY DEF SetupDone, fixed, caller
<1>2. /\ want = Same /\ start = [key |-> FILE_DIR, off |-> WORD]
      /\ filecnt = n /\ len = ENTRY * filecnt /\ ~lost
      /\ Items /\ CallTypes /\ StaticTypes /\ OutcomeTypes
  BY <1>1 DEF IInv, SetupInv, TypeInv
<1>3. /\ Quiet /\ served' = [key |-> want, len |-> len] /\ result' = buf
      /\ \/ lost' = lost /\ Len(buf) = len /\ Taken
         \/ lost' = TRUE
  BY <1>1, ReturnsStep
<1>4. /\ n \in Nat /\ ENTRY * n \in Nat
      /\ \A i \in 1 .. n, j \in 1 .. ENTRY :
           Abs!Bytes(start, ENTRY * n)[ENTRY * (i - 1) + j] = DirEntry(machine.dir[i])[j]
  BY <1>2, DirectoryTaken
<1>5. PICK junk \in {0, BASE - 1} :
        files' = [i \in 1 .. filecnt |-> File(buf \o [k \in 1 .. len - Len(buf) |-> junk], i)]
  BY DEF SetupDone
<1> DEFINE b == buf \o [i \in 1 .. len - Len(buf) |-> junk]
<1>6. b \in Seq(Byte) /\ Len(b) = len /\ (Len(buf) = len => b = buf)
  <2>1. junk \in Byte
    BY Sizes
  <2>2. buf \in Seq(Byte) /\ len \in Nat /\ Len(buf) <= len
    BY <1>2 DEF CallTypes
  <2>3. QED
    BY <2>1, <2>2, Filled, Zenon
<1>7. files' = [i \in 1 .. n |-> File(b, i)]
  BY <1>2, <1>5
<1> HIDE DEF b, n
<1>8. \A i \in 1 .. n : i \in Nat \ {0} /\ ENTRY * (i - 1) + ENTRY <= Len(b)
  <2> SUFFICES ASSUME NEW i \in 1 .. n
               PROVE  i \in Nat \ {0} /\ ENTRY * (i - 1) + ENTRY <= ENTRY * n
    BY <1>2, <1>6
  <2>1. ENTRY \in Nat
    BY Sizes
  <2>2. ENTRY * (i - 1) + ENTRY = ENTRY * i /\ ENTRY * i <= ENTRY * n
    BY <1>4, <2>1
  <2>3. QED
    BY <1>4, <2>2
<1>9. files' \in Seq(Records) /\ Len(files') = n
  <2>1. \A i \in 1 .. n : File(b, i) \in Records
    BY <1>6, <1>8, FileTypes
  <2>2. files' \in [1 .. n -> Records]
    BY <1>7, <2>1
  <2>3. QED
    BY <1>4, <2>2, AsSequence, Zenon
<1>10. ~lost' => files' = machine.dir
  <2> SUFFICES ASSUME ~lost'
               PROVE  files' = machine.dir
    OBVIOUS
  <2>1. Len(buf) = len /\ buf = Abs!Bytes(start, len) /\ b = buf
    BY <1>2, <1>3, <1>6 DEF Taken, Origin
  <2>2. machine.dir \in Seq(Files) /\ Len(machine.dir) = n
    BY <1>2, ItemTypes DEF n
  <2>3. \A i \in 1 .. n : machine.dir[i] \in Files
    BY <2>2
  <2>4. \A i \in 1 .. n : File(b, i) = machine.dir[i]
    <3> SUFFICES ASSUME NEW i \in 1 .. n
                 PROVE  File(b, i) = machine.dir[i]
      OBVIOUS
    <3>1. \A j \in 1 .. ENTRY : b[ENTRY * (i - 1) + j] = DirEntry(machine.dir[i])[j]
      BY <1>2, <1>4, <2>1
    <3>2. QED
      BY <1>6, <1>8, <2>3, <3>1, FileBack, Zenon
  <2>5. QED
    BY <1>7, <1>9, <2>2, <2>4
<1>11. CallInv'
  BY <1>1, <1>3 DEF CallInv, Quiet
<1>12. TypeInv'
  <2>1. CallTypes'
    BY <1>1, <1>2, WithinNext DEF CallTypes
  <2>2. OutcomeTypes'
    BY <1>1, <1>2, <1>3 DEF OutcomeTypes, CallTypes
  <2>3. StaticTypes'
    BY <1>1, <1>2, <1>9 DEF StaticTypes
  <2>4. QED
    BY <1>1, <1>2, <2>1, <2>2, <2>3, WithinNext DEF TypeInv
<1>13. SetupInv'
  BY <1>1 DEF SetupInv
<1>14. FilesInv'
  BY <1>1, <1>10, FilesNext
<1>15. QED
  BY <1>11, <1>12, <1>13, <1>14 DEF IInv

\* Any other call returns.
LEMMA ReturnStep ==
  ASSUME IInv, Return
  PROVE  IInv'
<1>1. /\ op \in {"read", "file"} /\ Returns /\ pc' = "idle"
      /\ UNCHANGED <<machine, item, dev, dma, engine, version, filecnt, files>>
      /\ UNCHANGED <<op, len, start, want, buf, asked>>
  BY DEF Return, fixed, statics, request, caller
<1>2. Items /\ CallTypes /\ StaticTypes /\ OutcomeTypes
  BY DEF IInv, TypeInv
<1>3. /\ Quiet /\ served' = [key |-> want, len |-> len] /\ result' = buf
      /\ \/ lost' = lost /\ Len(buf) = len /\ Taken
         \/ lost' = TRUE
  BY <1>1, ReturnsStep
<1>4. CallInv'
  BY <1>1, <1>3 DEF CallInv, Quiet
<1>5. TypeInv'
  <2>1. CallTypes'
    BY <1>1, <1>2, WithinNext DEF CallTypes
  <2>2. OutcomeTypes'
    BY <1>1, <1>2, <1>3 DEF OutcomeTypes, CallTypes
  <2>3. StaticTypes'
    BY <1>1, <1>2 DEF StaticTypes
  <2>4. QED
    BY <1>1, <1>2, <2>1, <2>2, <2>3, WithinNext DEF TypeInv
<1>6. SetupInv'
  BY <1>1 DEF SetupInv
<1>7. FilesInv'
  <2>1. fw_cfg_file_id(asked) = IdOf(files, asked)
    BY Named
  <2>2. ~lost' => result' = BytesOf(item', OriginOf(want', start'), len') /\ ~lost
    BY <1>1, <1>3, Named DEF Taken
  <2>3. QED
    BY <1>1, <2>1, <2>2, FilesNext DEF IInv, FilesInv
<1>8. QED
  BY <1>4, <1>5, <1>6, <1>7 DEF IInv

\* A call from outside fw_cfg.c.
LEMMA CallerStep ==
  ASSUME IInv, NEW name \in Seq(1 .. BASE - 1), Ready(name),
         NEW o \in {"read", "file"}, NEW k \in Int, NEW n \in Nat,
         BeginPort(o, k, n) \/ BeginDma(o, k, n),
         o = "file" => LET id == fw_cfg_file_id(name)
                       IN  id \in DOMAIN files /\ k = files[id].select /\ n = files[id].size
  PROVE  IInv'
<1>1. /\ pc = "idle" /\ asked' = name
      /\ UNCHANGED <<machine, item, version, filecnt, files, served, result, lost>>
  BY DEF Ready, fixed, statics, outcome
<1>2. UNCHANGED fixed
  BY <1>1 DEF fixed
<1>3. Items /\ CallTypes /\ StaticTypes /\ OutcomeTypes
  BY DEF IInv, TypeInv
<1>4. Quiet /\ op \in {"ready", "read", "file"}
  BY <1>1, <1>3 DEF IInv, CallInv, SetupInv, OutcomeTypes
<1>5. /\ CallTypes' /\ CallInv'
      /\ op' = o /\ len' = n /\ start' = dev /\ want' = k /\ pc' \in {"inb", "poll"}
  BY <1>2, <1>4, BeginStep
<1>6. TypeInv'
  BY <1>1, <1>3, <1>5, WithinNext DEF TypeInv, StaticTypes, OutcomeTypes
<1>7. SetupInv'
  BY <1>5 DEF SetupInv
<1>8. FilesInv'
  <2>1. fw_cfg_file_id(name) = IdOf(files, name)
    BY Named
  <2>2. QED
    BY <1>1, <1>4, <1>5, <2>1, FilesNext DEF IInv, FilesInv
<1>9. QED
  BY <1>5, <1>6, <1>7, <1>8 DEF IInv

\* Each kind of call is one of those.
LEMMA CallersStep ==
  ASSUME IInv, select_readl \/ read \/ read_entry \/ read_file
  PROVE  IInv'
<1>1. /\ <<>> \in Seq(1 .. BASE - 1) /\ Same \in Int /\ WORD \in Nat
      /\ Lengths \subseteq Nat /\ Names \subseteq Seq(1 .. BASE - 1)
  BY Sizes, SizeAssumption
<1>2. DOMAIN machine.content \subseteq Int
  BY ItemTypes DEF IInv, TypeInv
<1>3. \A o, k, n, v : fw_cfg_read(o, k, n, v) => BeginPort(o, k, n) \/ BeginDma(o, k, n)
  BY DEF fw_cfg_read
<1>4. CASE select_readl
  <2>1. PICK k \in DOMAIN machine.content, n \in {0, WORD} :
          Ready(<<>>) /\ BeginPort("read", k, n)
    BY <1>4 DEF select_readl
  <2>2. k \in Int /\ n \in Nat
    BY <1>1, <1>2
  <2>3. QED
    BY <1>1, <2>1, <2>2, CallerStep
<1>5. CASE read
  <2>1. PICK n \in Lengths : Ready(<<>>) /\ fw_cfg_read("read", Same, n, version)
    BY <1>5 DEF read
  <2>2. n \in Nat /\ (BeginPort("read", Same, n) \/ BeginDma("read", Same, n))
    BY <1>1, <1>3, <2>1
  <2>3. QED
    BY <1>1, <2>1, <2>2, CallerStep
<1>6. CASE read_entry
  <2>1. PICK k \in DOMAIN machine.content, n \in Lengths :
          Ready(<<>>) /\ fw_cfg_read("read", k, n, version)
    BY <1>6 DEF read_entry
  <2>2. k \in Int /\ n \in Nat /\ (BeginPort("read", k, n) \/ BeginDma("read", k, n))
    BY <1>1, <1>2, <1>3, <2>1
  <2>3. QED
    BY <1>1, <2>1, <2>2, CallerStep
<1>7. CASE read_file
  <2>1. PICK name \in Names :
          LET id == fw_cfg_file_id(name) IN
          /\ id # 0
          /\ Ready(name) /\ fw_cfg_read("file", files[id].select, files[id].size, version)
    BY <1>7 DEF read_file
  <2> DEFINE id == fw_cfg_file_id(name)
             k == files[id].select
             n == files[id].size
  <2>2. StaticTypes
    BY DEF IInv, TypeInv
  <2>3. id \in DOMAIN files
    BY <2>1, <2>2, IdFound
  <2>4. k \in Int /\ n \in Nat
    <3>1. files[id] \in Records
      BY <2>2, <2>3 DEF StaticTypes
    <3>2. QED
      BY <3>1 DEF Records
  <2>5. BeginPort("file", k, n) \/ BeginDma("file", k, n)
    BY <1>3, <2>1
  <2>6. Ready(name) /\ name \in Seq(1 .. BASE - 1)
    BY <1>1, <2>1
  <2>7. QED
    BY <2>3, <2>4, <2>5, <2>6, CallerStep
<1>8. QED
  BY <1>4, <1>5, <1>6, <1>7

\* The invariant holds at first.
LEMMA InitStep ==
  ASSUME Init
  PROVE  IInv
<1>1. /\ machine \in Machines /\ item = [k \in Keys \cup {Same} |-> Content(machine, k)]
      /\ dev = [key |-> Same, off |-> 0]
      /\ dma = [control |-> {}, key |-> Same, len |-> 0] /\ engine = Stopped
      /\ version = 0 /\ filecnt = 0 /\ files = <<>>
      /\ pc = "start" /\ op = "none" /\ len = 0 /\ buf = <<>>
      /\ start = dev /\ want = Same
      /\ served = [key |-> Same, len |-> 0] /\ result = <<>> /\ lost = FALSE
      /\ asked = <<>> /\ calls = 0
  BY DEF Init
<1>2. Items
  BY <1>1 DEF Items
<1>3. Len(Item(Same)) \in Nat /\ Same \in Int
  BY <1>2, ItemTypes, Sizes
<1>4. Within(dev) /\ Within(start)
  BY <1>1, <1>3 DEF Within
<1>5. TypeInv
  <2>1. dma \in [control : SUBSET {"READ", "SELECT", "ERROR"}, key : Int, len : Nat]
    BY <1>1, <1>3
  <2>2. engine \in Nat \cup {Stopped} /\ len \in Nat /\ want \in Int
    BY <1>1, <1>3
  <2>3. buf \in Seq(Byte) /\ Len(buf) <= len
    BY <1>1
  <2>4. CallTypes
    BY <1>1, <1>4, <2>1, <2>2, <2>3 DEF CallTypes
  <2>5. StaticTypes
    BY <1>1 DEF StaticTypes
  <2>6. served \in [key : Int, len : Nat]
    BY <1>1, <1>3
  <2>7. OutcomeTypes
    <3>1. result \in Seq(Byte) /\ asked \in Seq(1 .. BASE - 1)
      BY <1>1
    <3>2. lost \in BOOLEAN /\ op = "none"
      BY <1>1
    <3>3. QED
      BY <2>6, <3>1, <3>2 DEF OutcomeTypes
  <2>8. QED
    BY <1>2, <2>4, <2>5, <2>7 DEF TypeInv
<1>6. CallInv /\ SetupInv /\ FilesInv
  BY <1>1 DEF CallInv, SetupInv, FilesInv, Quiet
<1>7. QED
  BY <1>5, <1>6 DEF IInv

\* Every step keeps it.
LEMMA NextStep ==
  ASSUME IInv, [Next]_vars
  PROVE  IInv'
<1>1. CASE Device \/ Inb
  <2>1. CallNext
    BY <1>1, FetchStep, ByteStep, EndStep, InbStep DEF Device
  <2>2. UNCHANGED <<statics, op, outcome, asked>>
    BY <1>1 DEF Device, DmaFetch, DmaByte, DmaDone, DmaError, Inb, request, caller
  <2>3. QED
    BY <2>1, <2>2, CallMoves
<1>2. CASE SetupVersion \/ SetupCount \/ SetupDir \/ SetupDone \/ Return
  BY <1>2, SetupVersionStep, SetupCountStep, SetupDirStep, SetupDoneStep, ReturnStep
<1>3. CASE select_readl \/ read \/ read_entry \/ read_file
  BY <1>3, CallersStep
<1>4. CASE UNCHANGED vars
  <2>1. /\ UNCHANGED <<machine, item, dev, dma, engine, version, filecnt, files, pc, op, len>>
        /\ UNCHANGED <<start, want, buf, served, result, lost, asked, calls>>
    BY <1>4 DEF vars, fixed, statics, request, outcome, caller
  <2>2. Taken' <=> Taken
    BY <2>1, TakenNext, Named DEF Taken, OriginOf, Origin
  <2>3. CallTypes' /\ CallInv'
    BY <2>1, <2>2, WithinNext
      DEF IInv, TypeInv, CallTypes, CallInv, DmaInv, Quiet, Untouched, Control
  <2>4. QED
    BY <2>1, <2>3, CallMoves DEF CallNext, statics, outcome
<1>5. QED
  BY <1>1, <1>2, <1>3, <1>4 DEF Next, Driver

\* What holds in every reachable state of the driver and the device: the engine
\* and the driver are at matching points of a call, the device has given the
\* bytes of the call from its origin on, and the table is the directory unless
\* a DMA has failed.
THEOREM DriverInvariant == Spec => []IInv
<1>1. Init => IInv
  BY InitStep
<1>2. IInv /\ [Next]_vars => IInv'
  BY NextStep
<1>3. QED
  BY <1>1, <1>2, PTL DEF Spec

-----------------------------------------------------------------------------
(* What follows from it.                                                   *)

\* The device works on fw_cfg_dma's descriptor and on its caller's buffer only
\* while fw_cfg_dma polls, for every machine and any length of a transfer: a
\* DMA is over, and in error reported as such, before the frame is gone.
THEOREM DriverQuiet == Spec => []QuietOutsideDma
<1>1. IInv => QuietOutsideDma
  BY DEF IInv, CallInv, Quiet, QuietOutsideDma
<1>2. QED
  BY <1>1, DriverInvariant, PTL

\* The entry that a name finds is the first of the directory whose name it is.
LEMMA FirstNamed ==
  ASSUME IInv, op = "file", ~lost
  PROVE  LET named == {i \in DOMAIN machine.dir :
                         \E n \in 0 .. NAME - 1 :
                           /\ SubSeq(machine.dir[i].name, 1, n) = asked
                           /\ machine.dir[i].name[n + 1] = 0}
             id == fw_cfg_file_id(asked)
         IN  /\ id \in named /\ \A j \in named : id <= j
             /\ want = machine.dir[id].select /\ len = machine.dir[id].size
<1> DEFINE id == fw_cfg_file_id(asked)
           Is(i) == \E n \in 0 .. NAME - 1 : /\ SubSeq(machine.dir[i].name, 1, n) = asked
                                             /\ machine.dir[i].name[n + 1] = 0
<1>1. /\ files = machine.dir /\ id \in DOMAIN files
      /\ want = files[id].select /\ len = files[id].size
      /\ Items /\ StaticTypes /\ asked \in Seq(1 .. BASE - 1)
  BY DEF IInv, FilesInv, TypeInv, OutcomeTypes
<1>2. machine.dir \in Seq(Files)
  BY <1>1, ItemTypes
<1>3. id # 0
  BY <1>1 DEF StaticTypes
<1>4. /\ filenameeq(asked, files[id])
      /\ \A j \in DOMAIN files : filenameeq(asked, files[j]) => id <= j
  BY <1>1, <1>3, IdFound
<1>5. ASSUME NEW i \in DOMAIN machine.dir
      PROVE  filenameeq(asked, machine.dir[i]) <=> Is(i)
  <2> DEFINE s == machine.dir[i].name
             m == Len(asked)
  <2>1. s \in [1 .. NAME -> Byte] /\ NAME \in Nat \ {0}
    <3>1. machine.dir[i] \in Files
      BY <1>2
    <3>2. QED
      BY <3>1, Sizes DEF Files
  <2>2. s \in Seq(Byte) /\ Len(s) = NAME
    BY <2>1, AsSequence
  <2>3. asked \in Seq(1 .. BASE - 1) /\ m \in Nat
    BY <1>1
  <2>4. filenameeq(asked, machine.dir[i]) <=> m < NAME /\ SubSeq(s, 1, m + 1) = Append(asked, 0)
    BY DEF filenameeq
  <2>5. Is(i) <=> \E n \in 0 .. NAME - 1 : SubSeq(s, 1, n) = asked /\ s[n + 1] = 0
    OBVIOUS
  <2> HIDE DEF s, Is
  <2>6. ASSUME m < NAME, SubSeq(s, 1, m + 1) = Append(asked, 0)
        PROVE  SubSeq(s, 1, m) = asked /\ s[m + 1] = 0
    <3>1. \A j \in 1 .. m + 1 : SubSeq(s, 1, m + 1)[j] = s[j]
      BY <2>2, <2>3, <2>6
    <3>2. /\ \A j \in 1 .. m : Append(asked, 0)[j] = asked[j]
          /\ Append(asked, 0)[m + 1] = 0
      BY <2>3
    <3>3. s[m + 1] = 0 /\ \A j \in 1 .. m : s[j] = asked[j]
      BY <2>3, <2>6, <3>1, <3>2
    <3>4. SubSeq(s, 1, m) \in Seq(Byte) /\ Len(SubSeq(s, 1, m)) = m
      BY <2>1, <2>2, <2>3, <2>6
    <3>5. \A j \in 1 .. m : SubSeq(s, 1, m)[j] = asked[j]
      BY <2>1, <2>2, <2>3, <2>6, <3>3
    <3>6. SubSeq(s, 1, m) = asked
      BY <2>3, <3>4, <3>5
    <3>7. QED
      BY <3>3, <3>6
  <2>7. ASSUME NEW n \in 0 .. NAME - 1, SubSeq(s, 1, n) = asked, s[n + 1] = 0
        PROVE  m < NAME /\ SubSeq(s, 1, m + 1) = Append(asked, 0)
    <3>1. n = m
      BY <2>1, <2>2, <2>7
    <3>2. /\ SubSeq(s, 1, m + 1) \in Seq(Byte) /\ Len(SubSeq(s, 1, m + 1)) = m + 1
          /\ Append(asked, 0) \in Seq(0 .. BASE - 1) /\ Len(Append(asked, 0)) = m + 1
      BY <2>1, <2>2, <2>3, <3>1, Sizes DEF Byte
    <3>3. \A j \in 1 .. m : SubSeq(s, 1, m)[j] = s[j]
      BY <2>1, <2>2, <2>3, <3>1
    <3>4. \A j \in 1 .. m + 1 : SubSeq(s, 1, m + 1)[j] = s[j]
      BY <2>1, <2>2, <2>3, <3>1
    <3>5. /\ \A j \in 1 .. m : Append(asked, 0)[j] = asked[j]
          /\ Append(asked, 0)[m + 1] = 0
      BY <2>3
    <3>6. \A j \in 1 .. m + 1 : SubSeq(s, 1, m + 1)[j] = Append(asked, 0)[j]
      BY <2>3, <2>7, <3>1, <3>3, <3>4, <3>5
    <3>7. SubSeq(s, 1, m + 1) = Append(asked, 0)
      BY <2>3, <3>2, <3>6
    <3>8. QED
      BY <2>1, <3>1, <3>7
  <2>8. m < NAME => m \in 0 .. NAME - 1
    BY <2>1, <2>3
  <2>9. QED
    BY <2>4, <2>5, <2>6, <2>7, <2>8
<1>6. Is(id) /\ \A j \in DOMAIN machine.dir : Is(j) => id <= j
  BY <1>1, <1>4, <1>5
<1>7. QED
  BY <1>1, <1>6

\* After fw_cfg_setup the table is QEMU's directory, and looking a name up and
\* reading the file gives the whole content of the first file of that name: for
\* every directory, every content and every size of byte, word and name, and
\* whichever transport each call takes, as long as no DMA has failed.
THEOREM DriverReadsFiles == Spec => []FileReadWhole
<1>1. ASSUME IInv
      PROVE  FileReadWhole
  <2>1. op \in {"ready", "read", "file"} /\ ~lost => files = machine.dir
    BY <1>1 DEF IInv, FilesInv
  <2>2. ASSUME pc = "idle", op = "file", ~lost
        PROVE  LET named == {i \in DOMAIN machine.dir :
                               \E n \in 0 .. NAME - 1 :
                                 /\ SubSeq(machine.dir[i].name, 1, n) = asked
                                 /\ machine.dir[i].name[n + 1] = 0}
               IN  \E first \in named :
                     /\ \A j \in named : first <= j
                     /\ result = machine.content[machine.dir[first].select]
    <3> DEFINE id == fw_cfg_file_id(asked)
               named == {i \in DOMAIN machine.dir :
                           \E n \in 0 .. NAME - 1 :
                             /\ SubSeq(machine.dir[i].name, 1, n) = asked
                             /\ machine.dir[i].name[n + 1] = 0}
               data == machine.content[want]
    <3>1. /\ id \in named /\ \A j \in named : id <= j
          /\ want = machine.dir[id].select /\ len = machine.dir[id].size
      BY <1>1, <2>2, FirstNamed
    <3>2. id \in DOMAIN machine.dir
      BY <3>1
    <3> HIDE DEF named, id
    <3>3. Items /\ result = Abs!Bytes(Origin, len)
      BY <1>1, <2>2 DEF IInv, TypeInv, FilesInv
    <3>4. /\ want \in DOMAIN machine.content /\ want \in Nat
          /\ len = Len(data) /\ Item(want) = data /\ data \in Seq(Byte)
      BY <3>1, <3>2, <3>3, ItemTypes
    <3>5. Origin = [key |-> want, off |-> 0]
      BY <3>4, Sizes DEF Origin
    <3>6. Abs!Item([key |-> want, off |-> 0]) = data
      BY <3>4 DEF Abs!Item, Item
    <3> HIDE DEF data
    <3>7. result = [i \in 1 .. len |-> IF 0 + i <= Len(data) THEN data[0 + i] ELSE 0]
      BY <3>3, <3>5, <3>6 DEF Abs!Bytes
    <3>8. len \in Nat /\ data \in [1 .. len -> Byte]
      BY <3>4, AsFunction
    <3>9. \A i \in 1 .. len : 0 + i = i /\ i <= Len(data)
      BY <3>4, <3>8
    <3>10. result \in [1 .. len -> Byte] /\ \A i \in 1 .. len : result[i] = data[i]
      BY <3>7, <3>8, <3>9
    <3>11. result = data
      BY <3>8, <3>10, SameBytes, Zenon
    <3>12. QED
      BY <3>1, <3>11 DEF named, data
  <2>3. QED
    BY <2>1, <2>2 DEF FileReadWhole
<1>2. QED
  BY <1>1, DriverInvariant, PTL

-----------------------------------------------------------------------------
(* The driver implements the atomic cursor.                                *)

\* The abstract cursor: where the call in progress began, or the device's.
View == IF pc \in {"inb", "poll"} THEN start ELSE dev

\* A call that returns is a step of the cursor, that of a call or of a failure.
LEMMA ReturnsAsCall ==
  ASSUME IInv, Returns, UNCHANGED item, View' = dev
  PROVE  Abs!AbsNext
<1>1. /\ pc \in {"inb", "poll"}
      /\ served' = [key |-> want, len |-> len] /\ result' = buf
      /\ \/ lost' = lost /\ Len(buf) = len /\ Taken
         \/ lost' = TRUE /\ (Untouched \/ Taken)
  BY ReturnsStep
<1>2. /\ want \in Int /\ len \in Nat /\ Len(buf) \in Nat /\ Len(buf) <= len
  BY DEF IInv, TypeInv, CallTypes
<1>3. View = start
  BY <1>1 DEF View
<1>4. served' \in Abs!Requests /\ served'.key = want /\ served'.len = len
  BY <1>1, <1>2 DEF Abs!Requests
<1>5. Abs!From(want) = Origin
  BY <1>3 DEF Abs!From, Origin, View
<1>6. CASE lost' = lost /\ Len(buf) = len /\ Taken
  <2>1. result' = Abs!Bytes(Origin, len) /\ View' = Abs!After(Origin, len)
    BY <1>1, <1>6 DEF Taken
  <2>2. Abs!Call(served')
    BY <1>4, <1>5, <1>6, <2>1 DEF Abs!Call, View
  <2>3. QED
    BY <1>4, <2>2 DEF Abs!AbsNext
<1>7. CASE lost' = TRUE /\ Untouched
  <2>1. result' = <<>> /\ View' = View
    BY <1>1, <1>3, <1>7 DEF Untouched
  <2>2. Abs!Fail(served')
    BY <1>7, <2>1 DEF Abs!Fail, View
  <2>3. QED
    BY <1>4, <2>2 DEF Abs!AbsNext
<1>8. CASE lost' = TRUE /\ Taken
  <2>1. Len(buf) \in 0 .. len
    BY <1>2
  <2>2. result' = Abs!Bytes(Origin, Len(buf)) /\ View' = Abs!After(Origin, Len(buf))
    BY <1>1, <1>8 DEF Taken
  <2>3. Abs!Fail(served')
    BY <1>4, <1>5, <1>8, <2>1, <2>2 DEF Abs!Fail, View
  <2>4. QED
    BY <1>4, <2>3 DEF Abs!AbsNext
<1>9. QED
  BY <1>1, <1>6, <1>7, <1>8

\* The variables of FwCfgAbs as the driver and the device show them.
Shown == <<item, View, served, result, lost>>

\* Every step of the driver and the device is one of the cursor or invisible.
LEMMA StepMaps ==
  ASSUME IInv, [Next]_vars
  PROVE  [Abs!AbsNext]_Shown
<1>1. CASE Device \/ Inb
  <2>1. CallNext
    BY <1>1, FetchStep, ByteStep, EndStep, InbStep DEF Device
  <2>2. UNCHANGED <<served, result, lost>>
    BY <1>1 DEF Device, DmaFetch, DmaByte, DmaDone, DmaError, Inb, outcome
  <2>3. UNCHANGED View
    <3>1. pc \in {"inb", "poll"}
      <4>1. CASE Inb
        BY <4>1 DEF Inb
      <4>2. CASE Device
        BY <4>2 DEF Device, DmaFetch, DmaByte, DmaDone, DmaError, IInv, CallInv, Quiet, Stopped
      <4>3. QED
        BY <1>1, <4>1, <4>2
    <3>2. QED
      BY <2>1, <3>1 DEF CallNext, View
  <2>4. QED
    BY <2>1, <2>2, <2>3 DEF CallNext, Shown
<1>2. CASE SetupVersion \/ select_readl \/ read \/ read_entry \/ read_file
  <2>1. /\ pc \in {"start", "idle"} /\ UNCHANGED <<item, served, result, lost>>
        /\ start' = dev /\ pc' \in {"inb", "poll"}
    BY <1>2 DEF SetupVersion, select_readl, read, read_entry, read_file, Ready, fw_cfg_read,
                BeginPort, BeginDma, Begin, fixed, outcome
  <2>2. QED
    BY <2>1 DEF View, Shown
<1>3. CASE SetupCount \/ SetupDir
  <2>1. /\ Returns /\ UNCHANGED item /\ start' = dev /\ pc' \in {"inb", "poll"}
    BY <1>3 DEF SetupCount, SetupDir, fw_cfg_read, BeginPort, BeginDma, Begin, fixed
  <2>2. View' = dev
    BY <2>1 DEF View
  <2>3. QED
    BY <2>1, <2>2, ReturnsAsCall
<1>4. CASE SetupDone \/ Return
  <2>1. /\ Returns /\ UNCHANGED <<item, dev>> /\ pc' = "idle"
    BY <1>4 DEF SetupDone, Return, fixed
  <2>2. View' = dev
    BY <2>1 DEF View
  <2>3. QED
    BY <2>1, <2>2, ReturnsAsCall
<1>5. CASE UNCHANGED vars
  BY <1>5 DEF vars, fixed, outcome, request, View, Shown
<1>6. QED
  BY <1>1, <1>2, <1>3, <1>4, <1>5 DEF Next, Driver

\* The refinement: whichever transport a call takes, and wherever the device is
\* when the driver looks, the callers see one cursor that each call moves in one
\* step when it returns.
THEOREM DriverImplementsCursor == Spec => ImplementsCursor
<1>1. Init => Abs!AbsInit
  BY DEF Init, Abs!AbsInit
<1>2. IInv /\ [Next]_vars => [Abs!AbsNext]_<<item, View, served, result, lost>>
  BY StepMaps DEF Shown
<1>3. QED
  BY <1>1, <1>2, DriverInvariant, PTL DEF Spec, ImplementsCursor, Abs!AbsSpec, View
=============================================================================
