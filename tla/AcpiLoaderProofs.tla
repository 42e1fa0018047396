-------------------------- MODULE AcpiLoaderProofs --------------------------
(***************************************************************************)
(* The table loader allocates as Malloc says, so that what is proved of    *)
(* malloc.c holds of every table it places, for every script.  From where  *)
(* the tables are follows what their bytes are: each handler writes inside *)
(* the field of its command, no two tables share a byte, and so a pointer  *)
(* that was patched and a range that was summed up stay as they are.       *)
(*                                                                         *)
(* The order is: what the conversions of tables.c compute, memory, the     *)
(* invariant, one lemma per handler, the theorems.                         *)
(***************************************************************************)
EXTENDS AcpiLoader, MallocProofs

\* The alignment do_alloc passes on is one Malloc knows.
LEMMA AlignUsedKnown ==
  ASSUME NEW c \in Commands, c.cmd = "ALLOC"
  PROVE  AlignUsed(c.align) \in Aligns
  BY LoaderAssumption DEF AlignUsed

\* A command that stops the loader allocates nothing.
LEMMA StopAllocatesNothing ==
  ASSUME NEW why, Stop(why)
  PROVE  UNCHANGED mallocVars
  BY DEF Stop

\* do_alloc allocates a block of the file's size, or panics.
LEMMA AllocIsMalloc ==
  ASSUME NEW c \in Commands, c.cmd = "ALLOC", do_alloc(c)
  PROVE  [MallocNext]_mallocVars
<1>1. CASE c.file \notin Files
  BY <1>1, StopAllocatesNothing DEF do_alloc
<1>2. CASE c.file \in Files
  <2> DEFINE n == Len(Blob[c.file])
             align == AlignUsed(c.align)
  <2>1. n \in Sizes /\ align \in Aligns
    BY <1>2, AlignUsedKnown, LoaderAssumption
  <2>2. malloc_fseg_align(n, align) \/ malloc_align(n, align)
    BY <1>2 DEF do_alloc
  <2> HIDE DEF n, align
  <2>3. QED
    BY <2>1, <2>2 DEF MallocNext
<1>3. QED
  BY <1>1, <1>2

\* The other handlers leave the allocators alone.
LEMMA PatchAllocatesNothing ==
  ASSUME NEW c, do_ptr(c) \/ do_checksum(c)
  PROVE  UNCHANGED mallocVars
  BY StopAllocatesNothing DEF do_ptr, do_checksum

\* Every step of extract_acpi is an allocation of malloc.c or leaves malloc.c
\* alone: the loader implements Malloc.
THEOREM LoaderImplementsMalloc == LoaderSpec => AllocationsAreMalloc
<1>1. LoaderInit => MallocInit
  BY DEF LoaderInit
<1>2. [LoaderNext]_vars => [MallocNext]_mallocVars
  <2> SUFFICES ASSUME [LoaderNext]_vars
               PROVE  [MallocNext]_mallocVars
    OBVIOUS
  <2>1. ASSUME NEW c \in Commands, Step(c)
        PROVE  [MallocNext]_mallocVars
    <3>1. CASE c.cmd = "ALLOC"
      BY <2>1, <3>1, AllocIsMalloc DEF Step
    <3>2. CASE c.cmd = "PTR"
      BY <2>1, <3>2, PatchAllocatesNothing DEF Step
    <3>3. CASE c.cmd = "CHECKSUM"
      BY <2>1, <3>3, PatchAllocatesNothing DEF Step
    <3>4. CASE c.cmd \notin {"ALLOC", "PTR", "CHECKSUM"}
      BY <2>1, <3>4, StopAllocatesNothing DEF Step
    <3>5. QED
      BY <3>1, <3>2, <3>3, <3>4
  <2>2. CASE EndOfScript
    BY <2>2, StopAllocatesNothing DEF EndOfScript
  <2>3. CASE UNCHANGED vars
    BY <2>3 DEF vars
  <2>4. QED
    BY <2>1, <2>2, <2>3 DEF LoaderNext
<1>3. QED
  BY <1>1, <1>2, PTL DEF LoaderSpec, AllocationsAreMalloc, MallocSpec

\* Whatever tables a script asks for, in whatever order and zones, no two of
\* their blocks share a byte while the demand fits the zones.
THEOREM LoaderTablesApart == LoaderSpec => []BlocksApart
  BY LoaderImplementsMalloc, MallocApart, PTL DEF AllocationsAreMalloc


Byte == 0 .. BASE - 1

\* The base and the bytes.
LEMMA Base == BASE \in Nat \ {0} /\ MIN_ALIGN \in Nat \ {0} /\ Byte \subseteq Nat /\ 0 \in Byte /\ 1 \in Nat
  BY LoaderAssumption DEF Byte

\* What the definition of Value computes, from the highest byte down.
LEMMA ValueUnfolds ==
  ASSUME NEW n \in Nat, NEW b \in [1 .. n -> Byte]
  PROVE  \E f \in [0 .. n -> Nat] :
           /\ Value(b) = f[n]
           /\ \A i \in 0 .. n : f[i] = IF i = 0 THEN 0 ELSE BASE * f[i - 1] + b[n - i + 1]
<1> DEFINE Is(h) == h = [i \in 0 .. n |-> IF i = 0 THEN 0 ELSE BASE * h[i - 1] + b[n - i + 1]]
           rec == [i \in 1 .. n |-> [x \in Nat |-> BASE * x + b[n - i + 1]]]
           f == CHOOSE h : Is(h)
<1>1. \A i \in 1 .. n, x \in Nat : BASE * x + b[n - i + 1] \in Nat
  <2> SUFFICES ASSUME NEW i \in 1 .. n, NEW x \in Nat
               PROVE  BASE * x + b[n - i + 1] \in Nat
    OBVIOUS
  <2>1. n - i + 1 \in 1 .. n
    OBVIOUS
  <2>2. b[n - i + 1] \in Nat
    BY <2>1, Base
  <2>3. QED
    BY <2>2, Base
<1>2. rec \in [1 .. n -> [Nat -> Nat]]
  BY <1>1
<1>3. 0 \in Nat
  BY Base
<1>4. PICK g \in [0 .. n -> Nat] : Recurs(g, 0, rec, n)
  <2> HIDE DEF rec
  <2>1. QED
    BY <1>2, <1>3, Recursion, Zenon
<1>5. Is(g)
  <2>1. ASSUME NEW i \in 0 .. n
        PROVE  g[i] = IF i = 0 THEN 0 ELSE BASE * g[i - 1] + b[n - i + 1]
    <3>1. i # 0 => i \in 1 .. n /\ g[i - 1] \in Nat
      OBVIOUS
    <3>2. QED
      BY <1>4, <3>1 DEF Recurs
  <2>2. QED
    BY <2>1
<1>6. Is(f)
  <2> HIDE DEF Is
  <2>1. QED
    BY <1>5
<1>7. \A i \in 0 .. n : f[i] = IF i = 0 THEN 0 ELSE BASE * f[i - 1] + b[n - i + 1]
  <2> HIDE DEF f
  <2>1. QED
    BY <1>6
<1>8. f \in [0 .. n -> Nat]
  <2> HIDE DEF f
  <2> DEFINE S == {i \in 0 .. n : f[i] \in Nat}
  <2>1. 0 \in S
    BY <1>3, <1>7
  <2>2. ASSUME NEW i \in 1 .. n, i - 1 \in S
        PROVE  i \in S
    <3>1. BASE * f[i - 1] + b[n - i + 1] \in Nat
      BY <1>1, <2>2
    <3>2. i \in 0 .. n /\ i # 0
      OBVIOUS
    <3>3. QED
      BY <1>7, <3>1, <3>2
  <2>3. 0 .. n \subseteq S
    <3> HIDE DEF S
    <3>1. QED
      BY <2>1, <2>2, Counting
  <2>4. QED
    BY <1>6, <2>3
<1>9. Value(b) = f[n]
  <2>1. Len(b) = n
    OBVIOUS
  <2>2. QED
    BY <2>1 DEF Value
<1> HIDE DEF f
<1>10. QED
  BY <1>7, <1>8, <1>9

\* What the definition of ToBytes computes.
LEMMA BytesUnfold ==
  ASSUME NEW n \in Nat, NEW v \in Nat
  PROVE  \E f \in [0 .. n -> Nat] :
           /\ ToBytes(v, n) = [i \in 1 .. n |-> f[i - 1] % BASE]
           /\ \A i \in 0 .. n : f[i] = IF i = 0 THEN v ELSE f[i - 1] \div BASE
<1> DEFINE Is(h) == h = [i \in 0 .. n |-> IF i = 0 THEN v ELSE h[i - 1] \div BASE]
           rec == [i \in 1 .. n |-> [x \in Nat |-> x \div BASE]]
           f == CHOOSE h : Is(h)
<1>1. \A i \in 1 .. n, x \in Nat : x \div BASE \in Nat
  BY Base, Division
<1>2. rec \in [1 .. n -> [Nat -> Nat]]
  BY <1>1
<1>3. v \in Nat
  OBVIOUS
<1>4. PICK g \in [0 .. n -> Nat] : Recurs(g, v, rec, n)
  <2> HIDE DEF rec
  <2>1. QED
    BY <1>2, <1>3, Recursion, Zenon
<1>5. Is(g)
  <2>1. ASSUME NEW i \in 0 .. n
        PROVE  g[i] = IF i = 0 THEN v ELSE g[i - 1] \div BASE
    <3>1. i # 0 => i \in 1 .. n /\ g[i - 1] \in Nat
      OBVIOUS
    <3>2. QED
      BY <1>4, <3>1 DEF Recurs
  <2>2. QED
    BY <2>1
<1>6. Is(f)
  <2> HIDE DEF Is
  <2>1. QED
    BY <1>5
<1>7. \A i \in 0 .. n : f[i] = IF i = 0 THEN v ELSE f[i - 1] \div BASE
  <2> HIDE DEF f
  <2>1. QED
    BY <1>6
<1>8. f \in [0 .. n -> Nat]
  <2> HIDE DEF f
  <2> DEFINE S == {i \in 0 .. n : f[i] \in Nat}
  <2>1. 0 \in S
    BY <1>3, <1>7
  <2>2. ASSUME NEW i \in 1 .. n, i - 1 \in S
        PROVE  i \in S
    <3>1. f[i - 1] \div BASE \in Nat
      BY <1>1, <2>2
    <3>2. i \in 0 .. n /\ i # 0
      OBVIOUS
    <3>3. QED
      BY <1>7, <3>1, <3>2
  <2>3. 0 .. n \subseteq S
    <3> HIDE DEF S
    <3>1. QED
      BY <2>1, <2>2, Counting
  <2>4. QED
    BY <1>6, <2>3
<1>9. ToBytes(v, n) = [i \in 1 .. n |-> f[i - 1] % BASE]
  BY DEF ToBytes
<1> HIDE DEF f
<1>10. QED
  BY <1>7, <1>8, <1>9

\* What the definition of Modulus computes.
LEMMA ModulusUnfolds ==
  ASSUME NEW n \in Nat
  PROVE  \E f \in [0 .. n -> Nat \ {0}] :
           /\ Modulus(n) = f[n]
           /\ \A i \in 0 .. n : f[i] = IF i = 0 THEN 1 ELSE BASE * f[i - 1]
<1> DEFINE Is(h) == h = [i \in 0 .. n |-> IF i = 0 THEN 1 ELSE BASE * h[i - 1]]
           rec == [i \in 1 .. n |-> [x \in Nat \ {0} |-> BASE * x]]
           f == CHOOSE h : Is(h)
<1>1. \A i \in 1 .. n, x \in Nat \ {0} : BASE * x \in Nat \ {0}
  BY Base
<1>2. rec \in [1 .. n -> [Nat \ {0} -> Nat \ {0}]]
  BY <1>1
<1>3. 1 \in Nat \ {0}
  BY Base
<1>4. PICK g \in [0 .. n -> Nat \ {0}] : Recurs(g, 1, rec, n)
  <2> HIDE DEF rec
  <2>1. QED
    BY <1>2, <1>3, Recursion, Zenon
<1>5. Is(g)
  <2>1. ASSUME NEW i \in 0 .. n
        PROVE  g[i] = IF i = 0 THEN 1 ELSE BASE * g[i - 1]
    <3>1. i # 0 => i \in 1 .. n /\ g[i - 1] \in Nat \ {0}
      OBVIOUS
    <3>2. QED
      BY <1>4, <3>1 DEF Recurs
  <2>2. QED
    BY <2>1
<1>6. Is(f)
  <2> HIDE DEF Is
  <2>1. QED
    BY <1>5
<1>7. \A i \in 0 .. n : f[i] = IF i = 0 THEN 1 ELSE BASE * f[i - 1]
  <2> HIDE DEF f
  <2>1. QED
    BY <1>6
<1>8. f \in [0 .. n -> Nat \ {0}]
  <2> HIDE DEF f
  <2> DEFINE S == {i \in 0 .. n : f[i] \in Nat \ {0}}
  <2>1. 0 \in S
    BY <1>3, <1>7
  <2>2. ASSUME NEW i \in 1 .. n, i - 1 \in S
        PROVE  i \in S
    <3>1. BASE * f[i - 1] \in Nat \ {0}
      BY <1>1, <2>2
    <3>2. i \in 0 .. n /\ i # 0
      OBVIOUS
    <3>3. QED
      BY <1>7, <3>1, <3>2
  <2>3. 0 .. n \subseteq S
    <3> HIDE DEF S
    <3>1. QED
      BY <2>1, <2>2, Counting
  <2>4. QED
    BY <1>6, <2>3
<1>9. Modulus(n) = f[n]
  BY DEF Modulus
<1> HIDE DEF f
<1>10. QED
  BY <1>7, <1>8, <1>9

\* What the definition of csum8 computes.
LEMMA SumUnfolds ==
  ASSUME NEW n \in Nat, NEW b \in [1 .. n -> Byte]
  PROVE  \E f \in [0 .. n -> Byte] :
           /\ csum8(b) = f[n]
           /\ \A i \in 0 .. n : f[i] = IF i = 0 THEN 0 ELSE (f[i - 1] + b[i]) % BASE
<1> DEFINE Is(h) == h = [i \in 0 .. n |-> IF i = 0 THEN 0 ELSE (h[i - 1] + b[i]) % BASE]
           rec == [i \in 1 .. n |-> [x \in Byte |-> (x + b[i]) % BASE]]
           f == CHOOSE h : Is(h)
<1>1. \A i \in 1 .. n, x \in Byte : (x + b[i]) % BASE \in Byte
  <2> SUFFICES ASSUME NEW i \in 1 .. n, NEW x \in Byte
               PROVE  (x + b[i]) % BASE \in Byte
    OBVIOUS
  <2>1. x + b[i] \in Int
    BY Base DEF Byte
  <2>2. QED
    BY <2>1, Base, Division DEF Byte
<1>2. rec \in [1 .. n -> [Byte -> Byte]]
  BY <1>1
<1>3. 0 \in Byte
  BY Base
<1>4. PICK g \in [0 .. n -> Byte] : Recurs(g, 0, rec, n)
  <2> HIDE DEF rec
  <2>1. QED
    BY <1>2, <1>3, Recursion, Zenon
<1>5. Is(g)
  <2>1. ASSUME NEW i \in 0 .. n
        PROVE  g[i] = IF i = 0 THEN 0 ELSE (g[i - 1] + b[i]) % BASE
    <3>1. i # 0 => i \in 1 .. n /\ g[i - 1] \in Byte
      OBVIOUS
    <3>2. QED
      BY <1>4, <3>1 DEF Recurs
  <2>2. QED
    BY <2>1
<1>6. Is(f)
  <2> HIDE DEF Is
  <2>1. QED
    BY <1>5
<1>7. \A i \in 0 .. n : f[i] = IF i = 0 THEN 0 ELSE (f[i - 1] + b[i]) % BASE
  <2> HIDE DEF f
  <2>1. QED
    BY <1>6
<1>8. f \in [0 .. n -> Byte]
  <2> HIDE DEF f
  <2> DEFINE S == {i \in 0 .. n : f[i] \in Byte}
  <2>1. 0 \in S
    BY <1>3, <1>7
  <2>2. ASSUME NEW i \in 1 .. n, i - 1 \in S
        PROVE  i \in S
    <3>1. (f[i - 1] + b[i]) % BASE \in Byte
      BY <1>1, <2>2
    <3>2. i \in 0 .. n /\ i # 0
      OBVIOUS
    <3>3. QED
      BY <1>7, <3>1, <3>2
  <2>3. 0 .. n \subseteq S
    <3> HIDE DEF S
    <3>1. QED
      BY <2>1, <2>2, Counting
  <2>4. QED
    BY <1>6, <2>3
<1>9. csum8(b) = f[n]
  <2>1. Len(b) = n
    OBVIOUS
  <2>2. QED
    BY <2>1 DEF csum8
<1> HIDE DEF f
<1>10. QED
  BY <1>7, <1>8, <1>9

\* A field of n bytes holds what is written to it but for what does not fit.
LEMMA BytesHoldValue ==
  ASSUME NEW n \in Nat, NEW v \in Nat
  PROVE  ToBytes(v, n) \in [1 .. n -> Byte] /\ Value(ToBytes(v, n)) = v % Modulus(n)
<1> DEFINE b == ToBytes(v, n)
<1>1. PICK rest \in [0 .. n -> Nat] :
        /\ ToBytes(v, n) = [i \in 1 .. n |-> rest[i - 1] % BASE]
        /\ \A i \in 0 .. n : rest[i] = IF i = 0 THEN v ELSE rest[i - 1] \div BASE
  BY BytesUnfold
<1>2. b \in [1 .. n -> Byte]
  <2>1. \A i \in 1 .. n : rest[i - 1] \in Nat
    OBVIOUS
  <2>2. \A i \in 1 .. n : rest[i - 1] % BASE \in Byte
    <3>1. \A i \in 1 .. n : rest[i - 1] \in Int
      BY <2>1
    <3>2. \A i \in 1 .. n : rest[i - 1] % BASE \in 0 .. BASE - 1
      BY <3>1, Base, Division, Zenon
    <3>3. QED
      BY <3>2 DEF Byte
  <2>3. QED
    BY <1>1, <2>2
<1>3. \A i \in 1 .. n : b[i] = rest[i - 1] % BASE
  BY <1>1
<1> HIDE DEF b
<1>4. PICK val \in [0 .. n -> Nat] :
        /\ Value(b) = val[n]
        /\ \A i \in 0 .. n : val[i] = IF i = 0 THEN 0 ELSE BASE * val[i - 1] + b[n - i + 1]
  BY <1>2, ValueUnfolds
<1>5. PICK pow \in [0 .. n -> Nat \ {0}] :
        /\ Modulus(n) = pow[n]
        /\ \A i \in 0 .. n : pow[i] = IF i = 0 THEN 1 ELSE BASE * pow[i - 1]
  BY ModulusUnfolds
<1> DEFINE top == rest[n]
           S == {i \in 0 .. n : rest[n - i] = pow[i] * top + val[i] /\ val[i] < pow[i]}
<1>6. top \in Nat
  OBVIOUS
<1>7. 0 \in S
  <2>1. pow[0] = 1 /\ val[0] = 0 /\ rest[n - 0] = top /\ 0 \in 0 .. n
    BY <1>4, <1>5
  <2> HIDE DEF top
  <2>2. QED
    BY <1>6, <2>1
<1>8. ASSUME NEW i \in 1 .. n, i - 1 \in S
      PROVE  i \in S
  <2> DEFINE p == pow[i - 1]
             w == val[i - 1]
             d == b[n - i + 1]
             high == rest[n - (i - 1)]
             all == rest[n - i]
  <2>1. i \in 0 .. n /\ i # 0 /\ i - 1 \in 0 .. n /\ n - i + 1 \in 1 .. n /\ n - i \in 0 .. n
        /\ (n - i + 1) - 1 = n - i /\ n - (i - 1) = n - i + 1 /\ n - i + 1 \in 0 .. n
        /\ n - i + 1 # 0
    OBVIOUS
  <2>2. high = p * top + w /\ w < p
    BY <1>8
  <2>3. pow[i] = BASE * p /\ val[i] = BASE * w + d
    BY <1>4, <1>5, <2>1
  <2>4. d = all % BASE /\ high = all \div BASE
    BY <1>1, <1>3, <2>1
  <2>5. p \in Nat \ {0} /\ w \in Nat /\ all \in Nat /\ BASE \in Nat \ {0}
    BY <2>1, Base
  <2>6. all = BASE * high + d /\ d \in 0 .. BASE - 1
    <3>1. all \in Int
      BY <2>5
    <3> HIDE DEF all, high, d
    <3>2. all % BASE \in 0 .. BASE - 1 /\ all = BASE * (all \div BASE) + (all % BASE)
      BY <2>5, <3>1, Division, Zenon
    <3>3. QED
      BY <2>4, <3>2
  <2> HIDE DEF p, w, d, high, all, top
  <2>7. all = (BASE * p) * top + (BASE * w + d)
    <3>1. BASE * (p * top + w) = (BASE * p) * top + BASE * w
      BY <1>6, <2>5
    <3>2. QED
      BY <1>6, <2>2, <2>5, <2>6, <3>1
  <2>8. BASE * w + d < BASE * p
    <3>1. w + 1 <= p
      BY <2>2, <2>5
    <3>2. BASE * (w + 1) <= BASE * p
      BY <2>5, <3>1
    <3> DEFINE x == BASE * w
               y == BASE * p
    <3>3. BASE * (w + 1) = x + BASE /\ x \in Int /\ y \in Int
      BY <2>5
    <3>4. x + BASE <= y /\ d \in Int /\ d < BASE
      BY <2>5, <2>6, <3>2, <3>3
    <3> HIDE DEF x, y
    <3>5. x + d < y
      BY <2>5, <3>3, <3>4
    <3>6. QED
      BY <3>5 DEF x, y
  <2>9. QED
    BY <2>1, <2>3, <2>7, <2>8 DEF all
<1>9. 0 .. n \subseteq S
  <2> HIDE DEF S
  <2>1. QED
    BY <1>7, <1>8, Counting
<1>10. v = pow[n] * top + val[n] /\ val[n] < pow[n]
  <2>1. n \in S /\ n - n = 0 /\ rest[0] = v
    BY <1>1, <1>9
  <2>2. QED
    BY <2>1
<1>11. pow[n] \in Nat \ {0} /\ val[n] \in 0 .. pow[n] - 1
  BY <1>10
<1> HIDE DEF top
<1>12. v % pow[n] = val[n]
  <2>1. top \in Int
    BY <1>6
  <2>2. (pow[n] * top + val[n]) % pow[n] = val[n]
    BY <1>11, <2>1, Remainder, Zenon
  <2>3. QED
    BY <1>10, <2>2
<1>13. QED
  BY <1>2, <1>4, <1>5, <1>12 DEF b

\* Subtracting the sum of a range from one of its bytes makes the range sum to 0.
LEMMA SumFixed ==
  ASSUME NEW n \in Nat, NEW b \in [1 .. n -> Byte], NEW c \in [1 .. n -> Byte],
         NEW k \in 1 .. n, c[k] = Fixed(b[k], csum8(b)),
         \A i \in 1 .. n : i # k => c[i] = b[i]
  PROVE  csum8(c) = 0
<1>1. PICK sb \in [0 .. n -> Byte] :
        /\ csum8(b) = sb[n]
        /\ \A i \in 0 .. n : sb[i] = IF i = 0 THEN 0 ELSE (sb[i - 1] + b[i]) % BASE
  BY SumUnfolds
<1>2. PICK sc \in [0 .. n -> Byte] :
        /\ csum8(c) = sc[n]
        /\ \A i \in 0 .. n : sc[i] = IF i = 0 THEN 0 ELSE (sc[i - 1] + c[i]) % BASE
  BY SumUnfolds
<1> DEFINE s == sb[n]
           S == {i \in 0 .. n : sc[i] = IF i < k THEN sb[i] ELSE (sb[i] - s) % BASE}
<1>3. s \in Nat
  <2>1. n \in 0 .. n
    OBVIOUS
  <2>2. QED
    BY <2>1, Base
<1>4. 0 \in S
  <2>1. 0 \in 0 .. n /\ 0 < k
    OBVIOUS
  <2>2. QED
    BY <1>1, <1>2, <2>1
<1>5. ASSUME NEW i \in 1 .. n, i - 1 \in S
      PROVE  i \in S
  <2> DEFINE x == sb[i - 1]
             y == b[i]
  <2>1. x \in Int /\ y \in Int /\ i \in 0 .. n /\ i # 0 /\ i - 1 \in 0 .. n
    BY Base DEF Byte
  <2>2. sb[i] = (x + y) % BASE /\ sc[i] = (sc[i - 1] + c[i]) % BASE
    BY <1>1, <1>2, <2>1
  <2>3. sc[i - 1] = IF i - 1 < k THEN x ELSE (x - s) % BASE
    BY <1>5
  <2>4. c[k] = (b[k] - s) % BASE
    BY <1>1 DEF Fixed
  <2> HIDE DEF x
  <2>5. CASE i < k
    <3>1. sc[i] = sb[i]
      BY <2>1, <2>2, <2>3, <2>5
    <3>2. QED
      BY <2>1, <2>5, <3>1
  <2>6. (((x + y) % BASE) - s) % BASE = (x + y - s) % BASE
    <3>1. x + y \in Int /\ 0 - s \in Int
      BY <1>3, <2>1
    <3>2. (((x + y) % BASE) + (0 - s)) % BASE = ((x + y) + (0 - s)) % BASE
      BY <3>1, Base, SumOfRemainder
    <3>3. (x + y) % BASE \in Int
      BY <3>1, Base, Division
    <3>4. ((x + y) % BASE) + (0 - s) = ((x + y) % BASE) - s /\ (x + y) + (0 - s) = x + y - s
      BY <1>3, <2>1, <3>3
    <3>5. QED
      BY <3>2, <3>4
  <2>7. CASE i = k
    <3>1. c[i] = (y - s) % BASE /\ y - s \in Int
      BY <1>3, <2>1, <2>4, <2>7
    <3>2. (((y - s) % BASE) + x) % BASE = ((y - s) + x) % BASE
      BY <2>1, <3>1, Base, SumOfRemainder
    <3>3. (y - s) % BASE \in Int
      BY <3>1, Base, Division
    <3>4. sc[i - 1] = x
      BY <2>1, <2>3, <2>7
    <3>5. sc[i] = (x + y - s) % BASE
      <4>1. x + c[i] = ((y - s) % BASE) + x /\ (y - s) + x = x + y - s
        BY <1>3, <2>1, <3>1, <3>3
      <4>2. QED
        BY <2>2, <3>2, <3>4, <4>1
    <3>6. QED
      BY <2>1, <2>2, <2>6, <2>7, <3>5
  <2>8. CASE i > k
    <3>1. c[i] = y
      BY <2>1, <2>8
    <3>2. sc[i - 1] = (x - s) % BASE /\ x - s \in Int
      BY <1>3, <2>1, <2>3, <2>8
    <3>3. (((x - s) % BASE) + y) % BASE = ((x - s) + y) % BASE
      BY <2>1, <3>2, Base, SumOfRemainder
    <3>4. (x - s) + y = x + y - s
      BY <1>3, <2>1
    <3>5. sc[i] = (x + y - s) % BASE
      BY <2>2, <3>1, <3>2, <3>3, <3>4
    <3>6. QED
      BY <2>1, <2>2, <2>6, <2>8, <3>5
  <2>9. QED
    BY <2>1, <2>5, <2>7, <2>8
<1>6. 0 .. n \subseteq S
  <2> HIDE DEF S
  <2>1. QED
    BY <1>4, <1>5, Counting
<1>7. sc[n] = (s - s) % BASE
  BY <1>6
<1>8. (s - s) % BASE = 0
  <2>1. 0 \in 0 .. BASE - 1 /\ BASE * 0 + 0 = s - s
    BY <1>3, Base
  <2>2. (BASE * 0 + 0) % BASE = 0
    BY <2>1, Base, Remainder
  <2>3. QED
    BY <2>1, <2>2
<1>9. QED
  BY <1>2, <1>7, <1>8

-----------------------------------------------------------------------------
(* Memory.                                                                 *)

LoaderTypeOK ==
  /\ mem \in [Addresses -> Byte]
  /\ file_address \in [Files -> Nat]
  /\ rsdp_paddr \in Nat
  /\ pc \in {"run", "done", "panic"}
  /\ executed \subseteq Commands

\* Addresses and files as plain numbers.
LEMMA Space ==
  /\ ADDR_SPACE \in Nat \ {0}
  /\ \A a : a \in Addresses <=> a \in Nat /\ a < ADDR_SPACE
  /\ \A f \in Files : /\ Blob[f] \in [1 .. Len(Blob[f]) -> Byte]
                      /\ Len(Blob[f]) \in Nat /\ Len(Blob[f]) \in Sizes
<1>1. ADDR_SPACE \in Nat \ {0}
  BY Numbers
<1>2. \A a : a \in Addresses <=> a \in Nat /\ a < ADDR_SPACE
  BY <1>1 DEF Addresses
<1>3. ASSUME NEW f \in Files
      PROVE  /\ Blob[f] \in [1 .. Len(Blob[f]) -> Byte]
             /\ Len(Blob[f]) \in Nat /\ Len(Blob[f]) \in Sizes
  <2>1. Blob[f] \in Seq(Byte) /\ Len(Blob[f]) \in Sizes
    BY LoaderAssumption DEF Byte
  <2>2. QED
    BY <2>1
<1>4. QED
  BY <1>1, <1>2, <1>3

\* The n bytes of a memory at an offset from an address.
Bytes(m, p, at, n) == [i \in 1 .. n |-> m[(p + at + i - 1) % ADDR_SPACE]]

NoWrap(p, at, n) == p + at + n <= ADDR_SPACE

\* The sequence s of n bytes is what the memory holds there.
Holds(m, p, at, n, s) ==
  s \in [1 .. n -> Byte] /\ \A i \in 1 .. n : s[i] = m[p + (at + i - 1)]

\* That is so of Bytes where memory does not wrap, and of nothing else.
LEMMA Loaded ==
  ASSUME NEW m \in [Addresses -> Byte], NEW p \in Nat, NEW at \in Nat, NEW n \in Nat
  PROVE  /\ Bytes(m, p, at, n) \in [1 .. n -> Byte]
         /\ NoWrap(p, at, n) => Holds(m, p, at, n, Bytes(m, p, at, n))
<1>1. \A i \in 1 .. n : (p + at + i - 1) % ADDR_SPACE \in Addresses
  <2> SUFFICES ASSUME NEW i \in 1 .. n
               PROVE  (p + at + i - 1) % ADDR_SPACE \in Addresses
    OBVIOUS
  <2>1. p + at + i - 1 \in Int
    OBVIOUS
  <2>2. QED
    BY <2>1, Space, Division DEF Addresses
<1>2. Bytes(m, p, at, n) \in [1 .. n -> Byte]
  BY <1>1 DEF Bytes
<1>3. ASSUME p + at + n <= ADDR_SPACE, NEW i \in 1 .. n
      PROVE  Bytes(m, p, at, n)[i] = m[p + (at + i - 1)]
  <2>1. /\ p + at + i - 1 = p + (at + i - 1)
        /\ p + at + i - 1 \in Nat /\ p + at + i - 1 < ADDR_SPACE
    BY <1>3, Space
  <2>2. (p + at + i - 1) % ADDR_SPACE = p + (at + i - 1)
    BY <2>1, Space, ModSmall
  <2>3. QED
    BY <2>2 DEF Bytes
<1>4. QED
  BY <1>2, <1>3 DEF NoWrap, Holds

\* What the memory holds there is its bytes there.
LEMMA BytesAre ==
  ASSUME NEW m \in [Addresses -> Byte], NEW p \in Nat, NEW at \in Nat, NEW n \in Nat,
         NoWrap(p, at, n), NEW s, Holds(m, p, at, n, s)
  PROVE  Bytes(m, p, at, n) = s
<1> DEFINE b == Bytes(m, p, at, n)
<1>1. Holds(m, p, at, n, b)
  BY Loaded
<1> HIDE DEF b
<1>2. b = s
  BY <1>1 DEF Holds
<1>3. QED
  BY <1>2 DEF b

\* Two memories are the same there.
Agree(m, o, p, at, n) == \A j \in at .. at + n - 1 : o[p + j] = m[p + j]

\* Two memories that agree there have the same bytes there.
LEMMA SameBytes ==
  ASSUME NEW m \in [Addresses -> Byte], NEW o \in [Addresses -> Byte],
         NEW p \in Nat, NEW at \in Nat, NEW n \in Nat,
         NoWrap(p, at, n), Agree(m, o, p, at, n)
  PROVE  Bytes(o, p, at, n) = Bytes(m, p, at, n)
<1> DEFINE s == Bytes(m, p, at, n)
<1>1. Holds(m, p, at, n, s)
  BY Loaded
<1> HIDE DEF s
<1>2. \A i \in 1 .. n : at + i - 1 \in at .. at + n - 1
  OBVIOUS
<1>3. Holds(o, p, at, n, s)
  BY <1>1, <1>2 DEF Holds, Agree
<1>4. Bytes(o, p, at, n) = s
  BY <1>3, BytesAre
<1>5. QED
  BY <1>4 DEF s

\* Where memory does not wrap, storing changes the bytes from the address on
\* and no other.
LEMMA Stored ==
  ASSUME LoaderTypeOK, NEW p \in Nat, NEW n \in Nat, NEW b \in [1 .. n -> Byte]
  PROVE  /\ Store(p, b) \in [Addresses -> Byte]
         /\ p + n <= ADDR_SPACE =>
              /\ \A i \in 1 .. n : Store(p, b)[p + i - 1] = b[i]
              /\ \A a \in Addresses : a < p \/ p + n <= a => Store(p, b)[a] = mem[a]
<1> DEFINE at(a) == ((a - p) % ADDR_SPACE) + 1
<1>1. Len(b) = n
  OBVIOUS
<1>2. \A a \in Addresses : Store(p, b)[a] = IF at(a) <= n THEN b[at(a)] ELSE mem[a]
  BY <1>1 DEF Store
<1>3. ASSUME NEW a \in Addresses
      PROVE  at(a) \in Nat /\ 1 <= at(a)
  <2>1. a - p \in Int
    BY Space
  <2>2. (a - p) % ADDR_SPACE \in 0 .. ADDR_SPACE - 1
    BY <2>1, Space, Division
  <2>3. QED
    BY <2>2, Space
<1>4. Store(p, b) \in [Addresses -> Byte]
  <2>1. ASSUME NEW a \in Addresses
        PROVE  Store(p, b)[a] \in Byte
    <3>1. at(a) <= n => at(a) \in 1 .. n
      BY <1>3
    <3>2. mem[a] \in Byte
      BY DEF LoaderTypeOK
    <3> HIDE DEF at
    <3>3. QED
      BY <1>2, <3>1, <3>2
  <2>2. Store(p, b) = [a \in Addresses |-> Store(p, b)[a]]
    BY DEF Store
  <2>3. QED
    BY <2>1, <2>2
<1>5. ASSUME p + n <= ADDR_SPACE, NEW i \in 1 .. n
      PROVE  Store(p, b)[p + i - 1] = b[i]
  <2> DEFINE a == p + i - 1
  <2>1. a \in Addresses /\ a - p = i - 1 /\ i - 1 \in Nat /\ i - 1 < ADDR_SPACE
    BY <1>5, Space
  <2>2. (a - p) % ADDR_SPACE = i - 1
    BY <2>1, Space, ModSmall
  <2>3. at(a) = i
    BY <2>2
  <2> HIDE DEF at, a
  <2>4. Store(p, b)[a] = b[i]
    BY <1>2, <2>1, <2>3
  <2>5. QED
    BY <2>4 DEF a
<1>6. ASSUME p + n <= ADDR_SPACE, NEW a \in Addresses, a < p \/ p + n <= a
      PROVE  Store(p, b)[a] = mem[a]
  <2>1. a \in Nat /\ a < ADDR_SPACE /\ ADDR_SPACE \in Nat \ {0}
    BY Space
  <2>2. CASE p + n <= a
    <3>1. a - p \in Nat /\ a - p < ADDR_SPACE
      BY <2>1, <2>2
    <3>2. (a - p) % ADDR_SPACE = a - p
      BY <2>1, <3>1, ModSmall
    <3>3. ~(at(a) <= n)
      BY <2>1, <2>2, <3>2
    <3> HIDE DEF at
    <3>4. QED
      BY <1>2, <3>3
  <2>3. CASE a < p
    <3>1. a - p + ADDR_SPACE \in 0 .. ADDR_SPACE - 1
      BY <1>6, <2>1, <2>3
    <3>2. ADDR_SPACE * (-1) + (a - p + ADDR_SPACE) = a - p /\ -1 \in Int
      BY <2>1
    <3>3. (a - p) % ADDR_SPACE = a - p + ADDR_SPACE
      <4>1. (ADDR_SPACE * (-1) + (a - p + ADDR_SPACE)) % ADDR_SPACE = a - p + ADDR_SPACE
        BY <2>1, <3>1, <3>2, Remainder, Zenon
      <4>2. QED
        BY <3>2, <4>1
    <3>4. ~(at(a) <= n)
      BY <1>6, <2>1, <2>3, <3>3
    <3> HIDE DEF at
    <3>5. QED
      BY <1>2, <3>4
  <2>4. QED
    BY <1>6, <2>2, <2>3
<1>7. QED
  BY <1>4, <1>5, <1>6

-----------------------------------------------------------------------------
(* The invariant.                                                          *)

FilesApart(f, g) ==
  \/ file_address[f] + Len(Blob[f]) <= file_address[g]
  \/ file_address[g] + Len(Blob[g]) <= file_address[f]

\* A file that is somewhere was allocated, is in a block of its size, and shares
\* no byte with another.
PlacedInv ==
  /\ \A f \in Placed : \E c \in Of("ALLOC") : c.file = f
  /\ \A f \in Placed : \E b \in blocks : b.addr = file_address[f] /\ b.size = Len(Blob[f])
  /\ \A b \in blocks : b.id < calls
  /\ Fit => \A f, g \in Placed : f # g => FilesApart(f, g)

\* The fields and ranges of executed commands are inside files that are there.
InFile(f, offset, n) == f \in Placed /\ offset + n <= Len(Blob[f])

CommandsInv ==
  pc # "panic" =>
    /\ \A c \in Of("PTR") : c.src \in Placed /\ InFile(c.dest, c.offset, c.size)
    /\ \A c \in Of("CHECKSUM") : InFile(c.file, c.start, c.len) /\ c.offset \in Covered(c)

\* The bytes of an executed pointer are what QEMU put there plus the address.
Field(c) == Load(file_address[c.dest] + c.offset, c.size)
Sent(c) == SubSeq(Blob[c.dest], c.offset + 1, c.offset + c.size)
FieldsPatched ==
  Fit /\ pc # "panic" =>
    \A c \in Of("PTR") : Field(c) = Patched(Sent(c), file_address[c.src], c.size)

\* The RSDP is in a block of the F segment, and the address of it is known.
RsdpInv ==
  \A f \in RsdpFiles :
    (\E c \in Of("ALLOC") : c.file = f /\ c.zone = "FSEG")
      => /\ rsdp_paddr = file_address[f]
         /\ \E b \in blocks : b.zone = "FSEG" /\ b.addr = rsdp_paddr

LoaderIInv ==
  /\ LoaderTypeOK /\ PlacedInv /\ CommandsInv
  /\ FieldsPatched /\ ChecksumsHold /\ BytesKept /\ RsdpInv

\* A step of malloc.c only adds to the demand.
LEMMA FitBefore ==
  ASSUME MallocTypeOK, [MallocNext]_mallocVars, Fit'
  PROVE  Fit
<1>1. ASSUME NEW z \in Zones
      PROVE  demand[z] \in Nat /\ demand'[z] \in Nat /\ demand[z] <= demand'[z]
  <2>1. demand \in [Zones -> Nat]
    BY DEF MallocTypeOK
  <2>2. ASSUME NEW n \in Sizes, NEW a \in Aligns, NEW y \in Zones,
               demand' = [demand EXCEPT ![y] = @ + n + a - 1]
        PROVE  demand'[z] \in Nat /\ demand[z] <= demand'[z]
    <3>1. n \in Nat /\ a \in Nat \ {0}
      BY RequestAssumption
    <3>2. demand'[z] = IF z = y THEN demand[z] + n + a - 1 ELSE demand[z]
      BY <2>1, <2>2
    <3>3. QED
      BY <2>1, <3>1, <3>2
  <2>3. CASE UNCHANGED mallocVars
    BY <2>1, <2>3 DEF mallocVars
  <2>4. CASE MallocNext
    <3>1. PICK n \in Sizes, a \in Aligns : malloc_align(n, a) \/ malloc_fseg_align(n, a)
      BY <2>4 DEF MallocNext
    <3>2. \E y \in Zones : demand' = [demand EXCEPT ![y] = @ + n + a - 1]
      BY <3>1 DEF malloc_align, malloc_fseg_align, Hand, Zones
    <3>3. QED
      BY <2>1, <2>2, <3>2
  <2>5. QED
    BY <2>1, <2>3, <2>4
<1>2. ASSUME NEW z \in Zones
      PROVE  Fits(z)
  <2>1. demand'[z] <= ZoneHigh(z) - ZoneLow(z)
    BY DEF Fit, Fits, ZoneLow, ZoneHigh
  <2>2. ZoneHigh(z) - ZoneLow(z) \in Int
    BY Numbers DEF ZoneHigh, ZoneLow
  <2> DEFINE room == ZoneHigh(z) - ZoneLow(z)
  <2> HIDE DEF room
  <2>3. demand[z] <= room
    BY <1>1, <2>1, <2>2 DEF room
  <2>4. QED
    BY <2>3 DEF Fits, room
<1>3. QED
  BY <1>2 DEF Fit

\* A file that is somewhere is inside memory.
LEMMA FileInside ==
  ASSUME LoaderTypeOK, PlacedInv, MallocIInv, Fit, NEW f \in Placed
  PROVE  /\ f \in Files /\ file_address[f] \in Nat /\ Len(Blob[f]) \in Nat
         /\ file_address[f] + Len(Blob[f]) <= ADDR_SPACE
<1>1. f \in Files /\ file_address[f] \in Nat
  BY DEF Placed, LoaderTypeOK
<1>2. PICK b \in blocks : b.addr = file_address[f] /\ b.size = Len(Blob[f])
  BY DEF PlacedInv
<1>3. Inside(b) /\ b.zone \in Zones
  BY IInvImplies, BlockFields DEF MallocIInv, BlocksInside, Fit
<1>4. ZoneHigh(b.zone) \in Nat /\ ZoneHigh(b.zone) < ADDR_SPACE
  BY Numbers DEF ZoneHigh
<1>5. Len(Blob[f]) \in Nat /\ ADDR_SPACE \in Nat
  BY <1>1, Space
<1>6. file_address[f] + Len(Blob[f]) <= ZoneHigh(b.zone)
  BY <1>2, <1>3 DEF Inside
<1>7. QED
  BY <1>1, <1>4, <1>5, <1>6

\* The bytes b are written at an offset in a file.
WritesIn(f, at, n, b) ==
  /\ f \in Placed /\ at \in Nat /\ n \in Nat /\ at + n <= Len(Blob[f])
  /\ b \in [1 .. n -> Byte] /\ mem' = Store(file_address[f] + at, b)

\* They are what changes of that file, and no other file changes.
LEMMA Writes ==
  ASSUME LoaderTypeOK, PlacedInv, MallocIInv, Fit,
         NEW f, NEW at, NEW n, NEW b, WritesIn(f, at, n, b)
  PROVE  /\ \A i \in 1 .. n : mem'[file_address[f] + (at + i - 1)] = b[i]
         /\ \A g \in Placed : \A j \in 0 .. Len(Blob[g]) - 1 :
              g # f \/ j \notin at .. at + n - 1
                => mem'[file_address[g] + j] = mem[file_address[g] + j]
<1> DEFINE p == file_address[f]
           q == p + at
<1>0. /\ f \in Placed /\ at \in Nat /\ n \in Nat /\ at + n <= Len(Blob[f])
      /\ b \in [1 .. n -> Byte] /\ mem' = Store(q, b)
  BY DEF WritesIn
<1>1. p \in Nat /\ f \in Files /\ Len(Blob[f]) \in Nat /\ p + Len(Blob[f]) <= ADDR_SPACE
  BY <1>0, FileInside
<1>2. q \in Nat /\ q + n <= ADDR_SPACE
  BY <1>0, <1>1, Space
<1>3. /\ \A i \in 1 .. n : mem'[q + i - 1] = b[i]
      /\ \A a \in Addresses : a < q \/ q + n <= a => mem'[a] = mem[a]
  <2> HIDE DEF q
  <2>1. QED
    BY <1>0, <1>2, Stored
<1>4. ASSUME NEW i \in 1 .. n
      PROVE  mem'[p + (at + i - 1)] = b[i]
  <2>1. p + (at + i - 1) = q + i - 1
    BY <1>0, <1>1
  <2>2. QED
    BY <1>3, <2>1
<1>5. ASSUME NEW g \in Placed, NEW j \in 0 .. Len(Blob[g]) - 1, g # f \/ j \notin at .. at + n - 1
      PROVE  mem'[file_address[g] + j] = mem[file_address[g] + j]
  <2> DEFINE a == file_address[g] + j
  <2>1. /\ file_address[g] \in Nat /\ Len(Blob[g]) \in Nat
        /\ file_address[g] + Len(Blob[g]) <= ADDR_SPACE
    BY FileInside
  <2>2. a \in Addresses
    <3>1. a \in Nat /\ a < ADDR_SPACE
      BY <2>1, Space
    <3> HIDE DEF a
    <3>2. QED
      BY <3>1, Space
  <2>3. a < q \/ q + n <= a
    <3>1. CASE g = f
      BY <1>0, <1>1, <1>5, <2>1, <3>1
    <3>2. CASE g # f
      <4>1. FilesApart(f, g)
        BY <1>0, <3>2 DEF PlacedInv
      <4> DEFINE r == file_address[g]
                 k == Len(Blob[f])
                 l == Len(Blob[g])
      <4>2. p + k <= r \/ r + l <= p
        BY <4>1 DEF FilesApart
      <4>3. p \in Nat /\ k \in Nat /\ r \in Nat /\ l \in Nat /\ at + n <= k /\ j \in 0 .. l - 1
        BY <1>0, <1>1, <2>1
      <4> HIDE DEF p, k, l, r
      <4>4. r + j < p + at \/ p + at + n <= r + j
        BY <1>0, <4>2, <4>3
      <4>5. QED
        BY <4>4 DEF r
    <3>3. QED
      BY <3>1, <3>2
  <2> HIDE DEF a, q
  <2>4. mem'[a] = mem[a]
    BY <1>3, <2>2, <2>3
  <2>5. QED
    BY <2>4 DEF a
<1>6. QED
  BY <1>4, <1>5

\* A range of a file that no byte changes in is loaded as before.
LEMMA RangeKept ==
  ASSUME LoaderTypeOK, LoaderTypeOK', PlacedInv, MallocIInv, Fit, NEW g \in Placed,
         file_address'[g] = file_address[g],
         NEW at \in Nat, NEW n \in Nat, at + n <= Len(Blob[g]),
         \A j \in at .. at + n - 1 : mem'[file_address[g] + j] = mem[file_address[g] + j]
  PROVE  Load(file_address[g] + at, n)' = Load(file_address[g] + at, n)
<1> DEFINE p == file_address[g]
<1>1. p \in Nat /\ Len(Blob[g]) \in Nat /\ p + Len(Blob[g]) <= ADDR_SPACE
  BY FileInside
<1>2. NoWrap(p, at, n)
  BY <1>1, Space DEF NoWrap
<1>3. mem \in [Addresses -> Byte] /\ mem' \in [Addresses -> Byte]
  BY DEF LoaderTypeOK, Addresses, Byte
<1>4. /\ Load(p + at, n)' = Bytes(mem', p, at, n)
      /\ Load(p + at, n) = Bytes(mem, p, at, n)
  BY DEF Load, Bytes
<1> DEFINE m == mem
           o == mem'
<1>5. Agree(m, o, p, at, n)
  BY DEF Agree
<1> HIDE DEF p, m, o
<1>6. Bytes(o, p, at, n) = Bytes(m, p, at, n)
  <2>1. m \in [Addresses -> Byte] /\ o \in [Addresses -> Byte]
    BY <1>3 DEF m, o
  <2>2. QED
    BY <1>1, <1>2, <1>5, <2>1, SameBytes
<1>7. QED
  BY <1>4, <1>6 DEF p, m, o

\* The bytes QEMU sent for a field.
LEMMA SentBytes ==
  ASSUME NEW f \in Files, NEW at \in Nat, NEW n \in Nat, at + n <= Len(Blob[f])
  PROVE  LET s == SubSeq(Blob[f], at + 1, at + n)
         IN  s \in [1 .. n -> Byte] /\ \A i \in 1 .. n : s[i] = Blob[f][at + i]
<1> DEFINE b == Blob[f]
           s == SubSeq(b, at + 1, at + n)
<1>1. b \in Seq(Byte) /\ Len(b) \in Nat /\ at + n <= Len(b)
  BY Space, LoaderAssumption DEF Byte
<1> HIDE DEF b
<1>2. \A i \in 1 .. n : at + i \in 1 .. Len(b)
  BY <1>1
<1>3. s \in Seq(Byte) /\ Len(s) = n
  BY <1>1, <1>2
<1>4. \A i \in 1 .. n : s[i] = b[at + i]
  BY <1>1, <1>2
<1>5. s \in [1 .. n -> Byte]
  <2> HIDE DEF s
  <2>1. QED
    BY <1>3
<1>6. QED
  BY <1>4, <1>5 DEF b

\* The value of some bytes is a number.
LEMMA ValueType ==
  ASSUME NEW n \in Nat, NEW b \in [1 .. n -> Byte]
  PROVE  Value(b) \in Nat
<1>1. PICK val \in [0 .. n -> Nat] : Value(b) = val[n]
  BY ValueUnfolds
<1>2. n \in 0 .. n
  OBVIOUS
<1>3. QED
  BY <1>1, <1>2

-----------------------------------------------------------------------------
(* The steps.                                                              *)

\* A step that allocates nothing moves no file.
LEMMA Unmoved ==
  ASSUME LoaderIInv, UNCHANGED <<mallocVars, file_address, rsdp_paddr>>, executed \subseteq executed',
         \A c \in executed' : c.cmd = "ALLOC" /\ c.file \in Files => c \in executed
  PROVE  PlacedInv' /\ RsdpInv' /\ Placed' = Placed /\ (Fit' <=> Fit)
<1>1. /\ file_address' = file_address /\ rsdp_paddr' = rsdp_paddr
      /\ blocks' = blocks /\ calls' = calls /\ demand' = demand
  BY DEF mallocVars
<1>2. Placed' = Placed
  BY <1>1 DEF Placed
<1>3. Fit' <=> Fit
  BY <1>1 DEF Fit, Fits, ZoneHigh, ZoneLow
<1>4. PlacedInv'
  <2>1. \A f \in Placed : \E c \in Of("ALLOC")' : c.file = f
    BY DEF LoaderIInv, PlacedInv, Of
  <2>2. \A f, g : FilesApart(f, g)' <=> FilesApart(f, g)
    BY <1>1 DEF FilesApart
  <2>3. QED
    BY <1>1, <1>2, <1>3, <2>1, <2>2 DEF LoaderIInv, PlacedInv
<1>5. RsdpInv'
  <2>1. \A f \in RsdpFiles, c \in Of("ALLOC")' : c.file = f => c \in Of("ALLOC")
    BY LoaderAssumption DEF Of
  <2>2. QED
    BY <1>1, <2>1 DEF LoaderIInv, RsdpInv
<1>6. QED
  BY <1>2, <1>3, <1>4, <1>5

\* Executed commands have the fields they are known to have.
LEMMA PtrFields ==
  ASSUME LoaderIInv, pc # "panic", NEW c \in Of("PTR")
  PROVE  /\ c \in executed /\ c.cmd = "PTR" /\ c.src \in Placed /\ c.dest \in Placed
         /\ c.offset \in Nat /\ c.size \in Nat /\ c.offset + c.size <= Len(Blob[c.dest])
<1>1. c \in executed /\ c.cmd = "PTR" /\ c \in Commands
  BY DEF LoaderIInv, LoaderTypeOK, Of
<1>2. c.offset \in Nat /\ c.size \in Nat
  BY <1>1, LoaderAssumption
<1>3. c.src \in Placed /\ c.dest \in Placed /\ c.offset + c.size <= Len(Blob[c.dest])
  BY DEF LoaderIInv, CommandsInv, InFile
<1>4. QED
  BY <1>1, <1>2, <1>3

\* The same of a range that was summed up.
LEMMA SumFields ==
  ASSUME LoaderIInv, pc # "panic", NEW c \in Of("CHECKSUM")
  PROVE  /\ c \in executed /\ c.cmd = "CHECKSUM" /\ c.file \in Placed
         /\ c.offset \in Covered(c)
         /\ c.start \in Nat /\ c.len \in Nat /\ c.start + c.len <= Len(Blob[c.file])
<1>1. c \in executed /\ c.cmd = "CHECKSUM" /\ c \in Commands
  BY DEF LoaderIInv, LoaderTypeOK, Of
<1>2. c.start \in Nat /\ c.len \in Nat
  BY <1>1, LoaderAssumption
<1>3. c.file \in Placed /\ c.start + c.len <= Len(Blob[c.file]) /\ c.offset \in Covered(c)
  BY DEF LoaderIInv, CommandsInv, InFile
<1>4. QED
  BY <1>1, <1>2, <1>3

\* The loop ends, or a handler or extract_acpi panics.
LEMMA StopKeeps ==
  ASSUME LoaderIInv, pc = "run", NEW why \in {"done", "panic"}, Stop(why),
         executed \subseteq executed', executed' \subseteq Commands,
         \A c \in executed' : c.cmd = "ALLOC" /\ c.file \in Files => c \in executed,
         why = "panic" \/ \A c \in executed' : c.cmd \in {"PTR", "CHECKSUM"} => c \in executed
  PROVE  LoaderIInv'
<1>1. /\ UNCHANGED <<mallocVars, file_address, rsdp_paddr>> /\ mem' = mem
      /\ file_address' = file_address /\ rsdp_paddr' = rsdp_paddr /\ pc' = why
  BY DEF Stop
<1>2. PlacedInv' /\ RsdpInv' /\ Placed' = Placed /\ (Fit' <=> Fit)
  BY <1>1, Unmoved
<1>3. LoaderTypeOK'
  BY <1>1 DEF LoaderIInv, LoaderTypeOK, Addresses, Byte, Files
<1>4. CASE why = "panic"
  BY <1>1, <1>2, <1>3, <1>4
     DEF LoaderIInv, CommandsInv, FieldsPatched, ChecksumsHold, BytesKept
<1>5. CASE why # "panic"
  <2>1. Of("PTR")' = Of("PTR") /\ Of("CHECKSUM")' = Of("CHECKSUM")
    BY <1>5 DEF Of
  <2>2. \A p, n : Load(p, n)' = Load(p, n)
    BY <1>1 DEF Load
  <2>3. CommandsInv'
    BY <1>2, <2>1 DEF LoaderIInv, CommandsInv, InFile, Covered
  <2>4. FieldsPatched'
    BY <1>1, <1>2, <2>1, <2>2 DEF LoaderIInv, FieldsPatched, Field, Sent
  <2>5. ChecksumsHold'
    BY <1>1, <1>2, <2>1, <2>2 DEF LoaderIInv, ChecksumsHold
  <2>6. BytesKept'
    BY <1>1, <1>2, <2>1 DEF LoaderIInv, BytesKept, PtrBytes
  <2>7. QED
    BY <1>2, <1>3, <2>3, <2>4, <2>5, <2>6 DEF LoaderIInv
<1>6. QED
  BY <1>4, <1>5

\* No executed command is about the n bytes at an offset of a file.
Untouched(f, at, n) ==
  /\ \A d \in Of("PTR") : d.dest = f => PtrBytes(d) \cap (at .. at + n - 1) = {}
  /\ \A s \in Of("CHECKSUM") : s.file = f => Covered(s) \cap (at .. at + n - 1) = {}

\* Command c is about them.
Accounts(c, f, at, n) ==
  \A j \in at .. at + n - 1 :
    \/ c.cmd = "PTR" /\ c.dest = f /\ j \in PtrBytes(c)
    \/ c.cmd = "CHECKSUM" /\ c.file = f /\ j = c.offset

\* A step keeps what is known of executed commands.
KnownKept ==
  Fit => /\ \A d \in Of("PTR") : Field(d)' = Field(d)
         /\ \A s \in Of("CHECKSUM") :
              Load(file_address[s.file] + s.start, s.len)' =
                Load(file_address[s.file] + s.start, s.len)

\* A command that writes n bytes at an offset of a file, neither in a field nor
\* in a range an earlier command is about, keeps what is known of those and
\* accounts for what it changes.
LEMMA WriteKeeps ==
  ASSUME LoaderIInv, MallocIInv, pc = "run",
         UNCHANGED <<mallocVars, file_address, rsdp_paddr, pc>>,
         NEW c \in Commands, c.cmd # "ALLOC", executed' = executed \cup {c},
         NEW f, NEW at, NEW n, NEW b, WritesIn(f, at, n, b),
         Untouched(f, at, n), Accounts(c, f, at, n)
  PROVE  /\ LoaderTypeOK' /\ PlacedInv' /\ RsdpInv' /\ BytesKept'
         /\ Placed' = Placed /\ (Fit' <=> Fit) /\ KnownKept
<1>1. /\ file_address' = file_address /\ rsdp_paddr' = rsdp_paddr /\ pc' = "run"
      /\ LoaderTypeOK /\ PlacedInv /\ pc # "panic"
  BY DEF LoaderIInv
<1>2. PlacedInv' /\ RsdpInv' /\ Placed' = Placed /\ (Fit' <=> Fit)
  BY Unmoved
<1>3. LoaderTypeOK'
  <2> DEFINE p == file_address[f] + at
  <2>1. p \in Nat /\ n \in Nat /\ b \in [1 .. n -> Byte] /\ mem' = Store(p, b)
    BY <1>1 DEF LoaderTypeOK, Placed, WritesIn
  <2> HIDE DEF p
  <2>2. mem' \in [Addresses -> Byte]
    BY <1>1, <2>1, Stored
  <2>3. QED
    BY <1>1, <2>2 DEF LoaderTypeOK, Addresses, Byte, Files
<1>4. ASSUME Fit, NEW g \in Placed, NEW j \in 0 .. Len(Blob[g]) - 1,
             g # f \/ j \notin at .. at + n - 1
      PROVE  mem'[file_address[g] + j] = mem[file_address[g] + j]
  BY <1>1, <1>4, Writes
<1>5. ASSUME Fit, NEW d \in Of("PTR")
      PROVE  Field(d)' = Field(d)
  <2>1. /\ d.dest \in Placed /\ d.offset \in Nat /\ d.size \in Nat
        /\ d.offset + d.size <= Len(Blob[d.dest]) /\ Len(Blob[d.dest]) \in Nat
    BY <1>1, <1>5, PtrFields, FileInside
  <2>2. ASSUME NEW j \in d.offset .. d.offset + d.size - 1
        PROVE  mem'[file_address[d.dest] + j] = mem[file_address[d.dest] + j]
    <3>1. j \in 0 .. Len(Blob[d.dest]) - 1
      BY <2>1
    <3>2. d.dest # f \/ j \notin at .. at + n - 1
      BY DEF Untouched, PtrBytes
    <3>3. QED
      BY <1>4, <1>5, <2>1, <3>1, <3>2
  <2>3. Load(file_address[d.dest] + d.offset, d.size)' =
          Load(file_address[d.dest] + d.offset, d.size)
    BY <1>1, <1>3, <1>5, <2>1, <2>2, RangeKept
  <2>4. QED
    BY <2>3 DEF Field
<1>6. ASSUME Fit, NEW s \in Of("CHECKSUM")
      PROVE  Load(file_address[s.file] + s.start, s.len)' =
               Load(file_address[s.file] + s.start, s.len)
  <2>1. /\ s.file \in Placed /\ s.start \in Nat /\ s.len \in Nat
        /\ s.start + s.len <= Len(Blob[s.file]) /\ Len(Blob[s.file]) \in Nat
    BY <1>1, <1>6, SumFields, FileInside
  <2>2. ASSUME NEW j \in s.start .. s.start + s.len - 1
        PROVE  mem'[file_address[s.file] + j] = mem[file_address[s.file] + j]
    <3>1. j \in 0 .. Len(Blob[s.file]) - 1
      BY <2>1
    <3>2. s.file # f \/ j \notin at .. at + n - 1
      BY DEF Untouched, Covered
    <3>3. QED
      BY <1>4, <1>6, <2>1, <3>1, <3>2
  <2>3. QED
    BY <1>1, <1>3, <1>6, <2>1, <2>2, RangeKept
<1>7. BytesKept'
  <2> SUFFICES ASSUME Fit, NEW g \in Placed, NEW i \in 0 .. Len(Blob[g]) - 1
               PROVE  \/ mem'[file_address[g] + i] = Blob[g][i + 1]
                      \/ \E d \in Of("PTR")' : d.dest = g /\ i \in PtrBytes(d)
                      \/ \E d \in Of("CHECKSUM")' : d.file = g /\ i = d.offset
    BY <1>1, <1>2 DEF BytesKept, PtrBytes
  <2>1. \/ mem[file_address[g] + i] = Blob[g][i + 1]
        \/ \E d \in Of("PTR") : d.dest = g /\ i \in PtrBytes(d)
        \/ \E d \in Of("CHECKSUM") : d.file = g /\ i = d.offset
    BY <1>1 DEF LoaderIInv, BytesKept
  <2>2. Of("PTR") \subseteq Of("PTR")' /\ Of("CHECKSUM") \subseteq Of("CHECKSUM")'
    BY DEF Of
  <2>3. CASE g = f /\ i \in at .. at + n - 1
    <3>1. c.cmd \in {"PTR", "CHECKSUM"} => c \in Of(c.cmd)'
      BY DEF Of
    <3>2. QED
      BY <2>3, <3>1 DEF Accounts
  <2>4. CASE ~(g = f /\ i \in at .. at + n - 1)
    <3>1. mem'[file_address[g] + i] = mem[file_address[g] + i]
      BY <1>4, <2>4
    <3>2. QED
      BY <2>1, <2>2, <3>1
  <2>5. QED
    BY <2>3, <2>4
<1>8. KnownKept
  BY <1>5, <1>6 DEF KnownKept
<1>9. QED
  BY <1>2, <1>3, <1>7, <1>8

\* What WellFormed says of each command.
LEMMA WellFormedPtr ==
  ASSUME NEW c \in Commands, c.cmd = "PTR", WellFormed(c), file_address[c.dest] # 0
  PROVE  /\ c \notin executed /\ c.offset \in Nat /\ c.size \in Nat \ {0}
         /\ c.src \in Files /\ c.dest \in Placed /\ c.offset + c.size <= Len(Blob[c.dest])
         /\ \A d \in Of("PTR") : d.dest = c.dest => PtrBytes(d) \cap PtrBytes(c) = {}
         /\ \A s \in Of("CHECKSUM") : s.file = c.dest => Covered(s) \cap PtrBytes(c) = {}
<1>1. /\ c.offset \in Nat /\ c.size \in Nat \ {0}
      /\ c.src \in Files /\ c.dest \in Placed /\ Len(Blob[c.dest]) \in Nat
  BY LoaderAssumption, Space DEF Placed
<1>2. /\ c \notin executed
      /\ \A i \in PtrBytes(c) : i < Len(Blob[c.dest])
      /\ Unsealed(c.dest, PtrBytes(c))
      /\ \A d \in Of("PTR") : d.dest = c.dest => PtrBytes(d) \cap PtrBytes(c) = {}
  BY DEF WellFormed
<1>3. c.offset + c.size - 1 \in PtrBytes(c)
  BY <1>1 DEF PtrBytes
<1>4. c.offset + c.size - 1 < Len(Blob[c.dest])
  BY <1>2, <1>3
<1>5. c.offset + c.size <= Len(Blob[c.dest])
  BY <1>1, <1>4
<1>6. QED
  BY <1>1, <1>2, <1>5 DEF Unsealed

\* The same of a checksum's byte and range.
LEMMA WellFormedSum ==
  ASSUME NEW c \in Commands, c.cmd = "CHECKSUM", WellFormed(c), file_address[c.file] # 0
  PROVE  /\ c \notin executed /\ c.file \in Placed
         /\ {c.offset, c.start, c.len} \subseteq Nat /\ c.offset \in Covered(c)
         /\ \A d \in Of("PTR") : d.dest = c.file => c.offset \notin PtrBytes(d)
         /\ \A s \in Of("CHECKSUM") : s.file = c.file => c.offset \notin Covered(s)
<1>1. c.file \in Placed /\ {c.offset, c.start, c.len} \subseteq Nat
  BY LoaderAssumption DEF Placed
<1>2. /\ c \notin executed /\ c.offset \in Covered(c)
      /\ Unsealed(c.file, {c.offset})
      /\ \A d \in Of("PTR") : d.dest = c.file => c.offset \notin PtrBytes(d)
  BY DEF WellFormed
<1>3. QED
  BY <1>1, <1>2 DEF Unsealed

\* What do_ptr stores is bytes.
LEMMA PatchedBytes ==
  ASSUME LoaderTypeOK, NEW q \in Nat, NEW at \in Nat, NEW n \in Nat, NEW p \in Nat
  PROVE  /\ Load(q + at, n) = Bytes(mem, q, at, n)
         /\ Patched(Load(q + at, n), p, n) \in [1 .. n -> Byte]
<1> DEFINE old == Load(q + at, n)
<1>1. old = Bytes(mem, q, at, n) /\ mem \in [Addresses -> Byte]
  BY DEF LoaderTypeOK, Load, Bytes
<1>2. old \in [1 .. n -> Byte]
  <2> HIDE DEF old
  <2>1. QED
    BY <1>1, Loaded
<1> HIDE DEF old
<1>3. Value(old) + p \in Nat
  <2>1. Value(old) \in Nat
    BY <1>2, ValueType
  <2>2. QED
    BY <2>1
<1>4. Patched(old, p, n) \in [1 .. n -> Byte]
  BY <1>3, BytesHoldValue DEF Patched
<1>5. QED
  BY <1>1, <1>4 DEF old

\* A field that no earlier command wrote to is patched: p is added to what QEMU
\* sent.
LEMMA PatchesField ==
  ASSUME LoaderIInv, MallocIInv, pc # "panic", Fit, NEW f \in Placed, NEW p \in Nat,
         NEW at \in Nat, NEW n \in Nat, at + n <= Len(Blob[f]),
         Untouched(f, at, n),
         LoaderTypeOK',
         mem' = Store(file_address[f] + at, Patched(Load(file_address[f] + at, n), p, n))
  PROVE  Bytes(mem', file_address[f], at, n) =
           Patched(SubSeq(Blob[f], at + 1, at + n), p, n)
<1> DEFINE q == file_address[f]
           b == Patched(Load(q + at, n), p, n)
           old == Bytes(mem, q, at, n)
           new == Bytes(mem', q, at, n)
           sent == SubSeq(Blob[f], at + 1, at + n)
<1>1. /\ LoaderTypeOK /\ PlacedInv /\ BytesKept
      /\ mem \in [Addresses -> Byte] /\ mem' \in [Addresses -> Byte]
  BY DEF LoaderIInv, LoaderTypeOK, Addresses, Byte
<1>2. /\ q \in Nat /\ f \in Files /\ Len(Blob[f]) \in Nat
      /\ q + Len(Blob[f]) <= ADDR_SPACE
  BY <1>1, FileInside
<1>3. NoWrap(q, at, n)
  BY <1>2, Space DEF NoWrap
<1>4. b \in [1 .. n -> Byte] /\ b = Patched(old, p, n)
  <2> HIDE DEF q
  <2>1. QED
    BY <1>1, <1>2, PatchedBytes
<1>5. \A i \in 1 .. n : mem'[q + (at + i - 1)] = b[i]
  <2>1. WritesIn(f, at, n, b)
    BY <1>4 DEF WritesIn
  <2> HIDE DEF b
  <2>2. QED
    BY <1>1, <2>1, Writes
<1> HIDE DEF b
<1>6. ASSUME NEW i \in 1 .. n
      PROVE  mem[q + (at + i - 1)] = Blob[f][at + i]
  <2> DEFINE j == at + i - 1
  <2>1. j \in 0 .. Len(Blob[f]) - 1 /\ j \in at .. at + n - 1 /\ j + 1 = at + i
    BY <1>2
  <2> HIDE DEF j
  <2>2. ~ \E d \in Of("PTR") : d.dest = f /\ j \in PtrBytes(d)
    BY <2>1 DEF Untouched
  <2>3. ~ \E s \in Of("CHECKSUM") : s.file = f /\ j = s.offset
    <3>1. \A s \in Of("CHECKSUM") : s.offset \in Covered(s)
      BY SumFields
    <3>2. QED
      BY <2>1, <3>1 DEF Untouched
  <2>4. mem[q + j] = Blob[f][j + 1]
    BY <1>1, <2>1, <2>2, <2>3 DEF BytesKept
  <2>5. QED
    BY <2>1, <2>4 DEF j
<1> HIDE DEF q
<1>7. sent \in [1 .. n -> Byte] /\ \A i \in 1 .. n : sent[i] = Blob[f][at + i]
  BY <1>2, SentBytes
<1> HIDE DEF sent
<1>8. old = sent
  <2>1. Holds(mem, q, at, n, sent)
    BY <1>6, <1>7 DEF Holds
  <2>2. QED
    BY <1>1, <1>2, <1>3, <2>1, BytesAre
<1>9. new = b
  <2> DEFINE m == mem'
  <2>1. m \in [Addresses -> Byte] /\ Holds(m, q, at, n, b)
    BY <1>1, <1>4, <1>5 DEF Holds
  <2> HIDE DEF m
  <2>2. Bytes(m, q, at, n) = b
    BY <1>2, <1>3, <2>1, BytesAre
  <2>3. QED
    BY <2>2 DEF m
<1> HIDE DEF old, new
<1>10. QED
  BY <1>4, <1>8, <1>9 DEF new, sent, q

\* do_ptr patches its field and keeps the rest.
LEMMA PtrKeeps ==
  ASSUME LoaderIInv, MallocIInv, pc = "run", NEW c \in Commands, c.cmd = "PTR",
         WellFormed(c), executed' = executed \cup {c}, do_ptr(c)
  PROVE  LoaderIInv'
<1> DEFINE p == file_address[c.src]
           q == file_address[c.dest]
<1>1. CASE p = 0 \/ q = 0
  <2>1. Stop("panic")
    BY <1>1 DEF do_ptr
  <2>2. executed' \subseteq Commands
    BY DEF LoaderIInv, LoaderTypeOK
  <2>3. QED
    BY <2>1, <2>2, StopKeeps
<1>2. CASE ~(p = 0 \/ q = 0)
  <2> DEFINE f == c.dest
             at == c.offset
             n == c.size
             b == Patched(Load(q + at, n), p, n)
  <2>1. /\ c \notin executed /\ at \in Nat /\ n \in Nat
        /\ c.src \in Placed /\ f \in Placed /\ at + n <= Len(Blob[f])
        /\ at .. at + n - 1 = PtrBytes(c)
    BY <1>2, WellFormedPtr DEF Placed, PtrBytes
  <2>2. Untouched(f, at, n) /\ Accounts(c, f, at, n)
    BY <1>2, <2>1, WellFormedPtr DEF Untouched, Accounts
  <2>3. /\ mem' = Store(q + at, b)
        /\ UNCHANGED <<mallocVars, file_address, rsdp_paddr, pc>>
    BY <1>2 DEF do_ptr
  <2>4. LoaderTypeOK /\ PlacedInv /\ p \in Nat /\ q \in Nat
    BY <2>1 DEF LoaderIInv, LoaderTypeOK, Placed
  <2>5. b \in [1 .. n -> Byte]
    <3> HIDE DEF p, q, at, n
    <3>1. QED
      BY <2>1, <2>4, PatchedBytes
  <2>6. /\ Of("PTR")' = Of("PTR") \cup {c} /\ Of("CHECKSUM")' = Of("CHECKSUM")
        /\ file_address' = file_address /\ pc' = "run" /\ pc # "panic"
    BY <2>3 DEF Of
  <2>7. /\ LoaderTypeOK' /\ PlacedInv' /\ RsdpInv' /\ BytesKept'
        /\ Placed' = Placed /\ (Fit' <=> Fit) /\ KnownKept
    <3>1. WritesIn(f, at, n, b)
      BY <2>1, <2>3, <2>5 DEF WritesIn
    <3> HIDE DEF b, at, n, f
    <3>2. QED
      BY <2>2, <2>3, <3>1, WriteKeeps
  <2>8. ASSUME Fit
        PROVE  Field(c)' = Patched(Sent(c), p, n)
    <3>1. Bytes(mem', q, at, n) = Patched(SubSeq(Blob[f], at + 1, at + n), p, n)
      <4>1. mem' = Store(file_address[f] + at, Patched(Load(file_address[f] + at, n), p, n))
        BY <2>3
      <4>2. Bytes(mem', file_address[f], at, n) =
              Patched(SubSeq(Blob[f], at + 1, at + n), p, n)
        <5> HIDE DEF at, n, f, p
        <5>1. QED
          BY <2>1, <2>2, <2>4, <2>6, <2>7, <2>8, <4>1, PatchesField
      <4>3. QED
        BY <4>2
    <3>2. Field(c)' = Bytes(mem', q, at, n)
      BY <2>6 DEF Field, Load, Bytes
    <3>3. QED
      BY <3>1, <3>2 DEF Sent
  <2>9. CommandsInv'
    BY <2>1, <2>6, <2>7 DEF LoaderIInv, CommandsInv, InFile, Covered
  <2>10. ChecksumsHold'
    BY <2>6, <2>7 DEF LoaderIInv, ChecksumsHold, KnownKept
  <2>11. FieldsPatched'
    BY <2>6, <2>7, <2>8 DEF LoaderIInv, FieldsPatched, Sent, KnownKept
  <2>12. QED
    BY <2>7, <2>9, <2>10, <2>11 DEF LoaderIInv
<1>3. QED
  BY <1>1, <1>2

\* What do_checksum stores is a byte.
LEMMA FixedByte ==
  ASSUME LoaderTypeOK, NEW p \in Nat, NEW at \in Nat, NEW from \in Nat, NEW n \in Nat
  PROVE  /\ Load(p + from, n) = Bytes(mem, p, from, n)
         /\ Load(p + from, n) \in [1 .. n -> Byte]
         /\ Fixed(mem[(p + at) % ADDR_SPACE], csum8(Load(p + from, n))) \in Byte
<1> DEFINE old == Load(p + from, n)
           a == (p + at) % ADDR_SPACE
<1>1. old = Bytes(mem, p, from, n) /\ mem \in [Addresses -> Byte]
  BY DEF LoaderTypeOK, Load, Bytes
<1>2. old \in [1 .. n -> Byte]
  <2> HIDE DEF old
  <2>1. QED
    BY <1>1, Loaded
<1>3. a \in Addresses
  <2>1. p + at \in Int
    OBVIOUS
  <2>2. QED
    BY <2>1, Space, Division DEF Addresses
<1> HIDE DEF old, a
<1>4. mem[a] \in Int
  <2>1. mem[a] \in Byte
    BY <1>1, <1>3
  <2>2. QED
    BY <2>1, Base DEF Byte
<1>5. csum8(old) \in Int
  <2>1. PICK sum \in [0 .. n -> Byte] : csum8(old) = sum[n]
    BY <1>2, SumUnfolds
  <2>2. n \in 0 .. n
    OBVIOUS
  <2>3. sum[n] \in Byte
    BY <2>2
  <2>4. QED
    BY <2>1, <2>3, Base DEF Byte
<1>6. Fixed(mem[a], csum8(old)) \in Byte
  <2> DEFINE z == mem[a] - csum8(old)
  <2>1. z \in Int
    BY <1>4, <1>5
  <2> HIDE DEF z
  <2>2. z % BASE \in 0 .. BASE - 1
    BY <2>1, Base, Division
  <2>3. QED
    BY <2>2 DEF Byte, Fixed, z
<1>7. QED
  BY <1>1, <1>2, <1>6 DEF old, a

\* A range whose checksum is taken sums to 0.
LEMMA FixesRange ==
  ASSUME LoaderIInv, MallocIInv, Fit, NEW f \in Placed,
         NEW at \in Nat, NEW from \in Nat, NEW len \in Nat,
         at \in from .. from + len - 1, from + len <= Len(Blob[f]), LoaderTypeOK',
         mem' = Store(file_address[f] + at,
                      <<Fixed(mem[(file_address[f] + at) % ADDR_SPACE],
                              csum8(Load(file_address[f] + from, len)))>>)
  PROVE  csum8(Bytes(mem', file_address[f], from, len)) = 0
<1> DEFINE p == file_address[f]
           old == Bytes(mem, p, from, len)
           new == Bytes(mem', p, from, len)
           byte == Fixed(mem[(p + at) % ADDR_SPACE], csum8(old))
           k == at - from + 1
<1>1. /\ LoaderTypeOK /\ PlacedInv
      /\ mem \in [Addresses -> Byte] /\ mem' \in [Addresses -> Byte]
  BY DEF LoaderIInv, LoaderTypeOK, Addresses, Byte
<1>2. p \in Nat /\ Len(Blob[f]) \in Nat /\ p + Len(Blob[f]) <= ADDR_SPACE
  BY <1>1, FileInside
<1>3. NoWrap(p, from, len) /\ at + 1 <= Len(Blob[f])
  <2> DEFINE l == Len(Blob[f])
  <2>1. l \in Nat /\ p + l <= ADDR_SPACE /\ from + len <= l /\ p \in Nat
    BY <1>2
  <2> HIDE DEF l, p
  <2>2. p + from + len <= ADDR_SPACE /\ at + 1 <= l
    BY <2>1, Numbers
  <2>3. QED
    BY <2>2 DEF NoWrap, l
<1>4. byte \in Byte /\ mem' = Store(p + at, <<byte>>)
  <2>1. Load(p + from, len) = old /\ Fixed(mem[(p + at) % ADDR_SPACE],
                                           csum8(Load(p + from, len))) \in Byte
    <3> HIDE DEF p
    <3>1. QED
      BY <1>1, <1>2, FixedByte
  <2> HIDE DEF old
  <2>2. QED
    BY <2>1
<1> HIDE DEF byte
<1>5. /\ \A i \in 1 .. 1 : mem'[p + (at + i - 1)] = <<byte>>[i]
      /\ \A j \in 0 .. Len(Blob[f]) - 1 :
           j \notin at .. at + 1 - 1 => mem'[p + j] = mem[p + j]
  <2>1. <<byte>> \in [1 .. 1 -> Byte] /\ 1 \in Nat
    BY <1>4
  <2> DEFINE b == <<byte>>
  <2>2. WritesIn(f, at, 1, b)
    BY <1>3, <1>4, <2>1 DEF WritesIn
  <2> HIDE DEF b
  <2>3. /\ \A i \in 1 .. 1 : mem'[p + (at + i - 1)] = b[i]
        /\ \A j \in 0 .. Len(Blob[f]) - 1 :
             j \notin at .. at + 1 - 1 => mem'[p + j] = mem[p + j]
    BY <1>1, <2>2, Writes
  <2>4. QED
    BY <2>3 DEF b
<1>6. /\ mem'[p + at] = byte
      /\ \A j \in 0 .. Len(Blob[f]) - 1 : j # at => mem'[p + j] = mem[p + j]
  <2>1. at + 1 - 1 = at /\ 1 \in 1 .. 1 /\ at .. at + 1 - 1 = {at}
    OBVIOUS
  <2>2. QED
    BY <1>5, <2>1
<1>7. byte = Fixed(mem[p + at], csum8(old))
  <2>1. p + at \in Nat /\ p + at < ADDR_SPACE
    <3> HIDE DEF p
    <3>1. QED
      BY <1>2, <1>3, Space
  <2>2. (p + at) % ADDR_SPACE = p + at
    <3> DEFINE a == p + at
    <3> HIDE DEF a
    <3>1. a % ADDR_SPACE = a
      BY <2>1, Space, ModSmall DEF a
    <3>2. QED
      BY <3>1 DEF a
  <2> HIDE DEF p
  <2>3. QED
    BY <2>2 DEF byte
<1> HIDE DEF p
<1> DEFINE m == mem
           o == mem'
<1>8. m \in [Addresses -> Byte] /\ o \in [Addresses -> Byte]
  BY <1>1
<1> HIDE DEF m, o
<1>9. /\ old \in [1 .. len -> Byte]
      /\ \A i \in 1 .. len : old[i] = mem[p + (from + i - 1)]
      /\ new \in [1 .. len -> Byte]
      /\ \A i \in 1 .. len : new[i] = mem'[p + (from + i - 1)]
  <2>1. Holds(m, p, from, len, old) /\ Holds(o, p, from, len, new)
    BY <1>2, <1>3, <1>8, Loaded DEF old, new, m, o
  <2>2. QED
    BY <2>1 DEF Holds, m, o
<1>10. k \in 1 .. len /\ from + k - 1 = at
  OBVIOUS
<1> HIDE DEF old, new, k
<1>11. new[k] = Fixed(old[k], csum8(old))
  <2>1. old[k] = mem[p + at] /\ new[k] = mem'[p + at]
    BY <1>9, <1>10
  <2>2. QED
    BY <1>6, <1>7, <2>1
<1>12. ASSUME NEW i \in 1 .. len, i # k
       PROVE  new[i] = old[i]
  <2> DEFINE j == from + i - 1
  <2>1. j \in 0 .. Len(Blob[f]) - 1 /\ j # at
    BY <1>2, <1>12 DEF k
  <2> HIDE DEF j
  <2>2. mem'[p + j] = mem[p + j]
    BY <1>6, <2>1
  <2>3. QED
    BY <1>9, <2>2 DEF j
<1>13. csum8(new) = 0
  BY <1>9, <1>10, <1>11, <1>12, SumFixed
<1>14. QED
  BY <1>13 DEF new, p

\* do_checksum makes its range sum to 0 and keeps the rest.
LEMMA ChecksumKeeps ==
  ASSUME LoaderIInv, MallocIInv, pc = "run", NEW c \in Commands, c.cmd = "CHECKSUM",
         WellFormed(c), executed' = executed \cup {c}, do_checksum(c)
  PROVE  LoaderIInv'
<1> DEFINE f == c.file
           p == file_address[f]
           n == Len(Blob[f])
           at == c.offset
           from == c.start
           len == c.len
           bad == p = 0 \/ at >= n \/ n < from \/ len > n - from
<1>1. CASE bad
  <2>1. Stop("panic")
    BY <1>1 DEF do_checksum
  <2>2. executed' \subseteq Commands
    BY DEF LoaderIInv, LoaderTypeOK
  <2>3. QED
    BY <2>1, <2>2, StopKeeps
<1>2. CASE ~bad
  <2> DEFINE byte == Fixed(mem[(p + at) % ADDR_SPACE], csum8(Load(p + from, len)))
             b == <<byte>>
  <2>1. f \in Placed /\ at \in Nat /\ from \in Nat /\ len \in Nat /\ n \in Nat
    BY <1>2, WellFormedSum, Space DEF Placed
  <2>2. /\ at \in Covered(c) /\ at \in from .. from + len - 1
        /\ from + len <= n /\ at + 1 <= n
    <3>1. at \in Covered(c) /\ at \in from .. from + len - 1
      BY <1>2, WellFormedSum DEF Covered
    <3>2. at < n /\ len <= n - from
      BY <1>2, <2>1
    <3> HIDE DEF n, at, from, len
    <3>3. QED
      BY <2>1, <3>1, <3>2
  <2>3. /\ mem' = Store(file_address[f] + at, b)
        /\ UNCHANGED <<mallocVars, file_address, rsdp_paddr, pc>>
    BY <1>2 DEF do_checksum
  <2>4. LoaderTypeOK /\ PlacedInv /\ p \in Nat
    BY <2>1 DEF LoaderIInv, LoaderTypeOK, Placed
  <2>5. b \in [1 .. 1 -> Byte]
    <3>1. byte \in Byte
      <4> HIDE DEF p, at, from, len
      <4>1. QED
        BY <2>1, <2>4, FixedByte
    <3> HIDE DEF byte
    <3>2. QED
      BY <3>1
  <2>6. /\ Of("PTR")' = Of("PTR") /\ Of("CHECKSUM")' = Of("CHECKSUM") \cup {c}
        /\ file_address' = file_address /\ pc' = "run" /\ pc # "panic"
    BY <2>3 DEF Of
  <2>7. /\ LoaderTypeOK' /\ PlacedInv' /\ RsdpInv' /\ BytesKept'
        /\ Placed' = Placed /\ (Fit' <=> Fit) /\ KnownKept
    <3>1. at .. at + 1 - 1 = {at} /\ 1 \in Nat
      BY <2>1
    <3>2. Untouched(f, at, 1) /\ Accounts(c, f, at, 1)
      BY <1>2, <3>1, WellFormedSum DEF Untouched, Accounts
    <3>3. WritesIn(f, at, 1, b)
      BY <2>1, <2>2, <2>3, <2>5, <3>1 DEF WritesIn
    <3> HIDE DEF b, f, at
    <3>4. QED
      BY <2>3, <3>2, <3>3, WriteKeeps
  <2>8. ASSUME Fit
        PROVE  csum8(Load(p + from, len)') = 0
    <3>1. Load(p + from, len)' = Bytes(mem', p, from, len)
      BY <2>6 DEF Load, Bytes
    <3>2. csum8(Bytes(mem', p, from, len)) = 0
      <4> HIDE DEF f, at, from, len
      <4>1. QED
        BY <2>1, <2>2, <2>3, <2>7, <2>8, FixesRange
    <3>3. QED
      BY <3>1, <3>2
  <2>9. CommandsInv'
    BY <2>1, <2>2, <2>6, <2>7 DEF LoaderIInv, CommandsInv, InFile, Covered
  <2>10. FieldsPatched'
    BY <2>6, <2>7 DEF LoaderIInv, FieldsPatched, Sent, KnownKept
  <2>11. ChecksumsHold'
    BY <2>6, <2>7, <2>8 DEF LoaderIInv, ChecksumsHold, KnownKept
  <2>12. QED
    BY <2>7, <2>9, <2>10, <2>11 DEF LoaderIInv
<1>3. QED
  BY <1>1, <1>2

\* What do_alloc does to a file of the directory.
LEMMA AllocEffect ==
  ASSUME LoaderIInv, MallocIInv, MallocIInv', NEW c \in Commands, c.cmd = "ALLOC",
         WellFormed(c), c.file \in Files, do_alloc(c)
  PROVE  \E p \in Nat, new \in blocks' :
           /\ c.file \notin Placed
           /\ new.addr = p /\ new.size = Len(Blob[c.file]) /\ new.id = calls
           /\ c.zone = "FSEG" => new.zone = "FSEG"
           /\ blocks' = blocks \cup {new} /\ calls' = calls + 1 /\ calls \in Nat
           /\ file_address' = [file_address EXCEPT ![c.file] = p]
           /\ mem' = Store(p, Blob[c.file])
           /\ rsdp_paddr' = IF IsRsdp(c) THEN p ELSE rsdp_paddr
           /\ pc' = pc
<1> DEFINE n == Len(Blob[c.file])
           a == AlignUsed(c.align)
           p == IF c.zone = "FSEG" THEN FsegAddr(n, a) ELSE HighAddr(n, a)
           z == IF c.zone = "FSEG" THEN "FSEG" ELSE "HIGH"
           new == [id |-> calls, zone |-> z, addr |-> p, size |-> n, align |-> a]
<1>1. /\ blocks' = blocks \cup {new} /\ calls' = calls + 1
      /\ file_address' = [file_address EXCEPT ![c.file] = p]
      /\ mem' = Store(p, Blob[c.file])
      /\ rsdp_paddr' = IF IsRsdp(c) THEN p ELSE rsdp_paddr
      /\ pc' = pc
  <2>1. /\ IF c.zone = "FSEG" THEN malloc_fseg_align(n, a) ELSE malloc_align(n, a)
        /\ file_address' = [file_address EXCEPT ![c.file] = p]
        /\ mem' = Store(p, Blob[c.file])
        /\ rsdp_paddr' = IF IsRsdp(c) THEN p ELSE rsdp_paddr
        /\ pc' = pc
    BY DEF do_alloc
  <2> HIDE DEF n, a
  <2>2. CASE c.zone = "FSEG"
    BY <2>1, <2>2 DEF malloc_fseg_align, Hand
  <2>3. CASE c.zone # "FSEG"
    BY <2>1, <2>3 DEF malloc_align, Hand
  <2>4. QED
    BY <2>2, <2>3
<1>2. /\ new.addr = p /\ new.size = n /\ new.id = calls
      /\ c.zone = "FSEG" => new.zone = "FSEG"
  OBVIOUS
<1> HIDE DEF new
<1>3. new \in blocks' /\ calls \in Nat
  BY <1>1 DEF MallocIInv, MallocTypeOK
<1>4. p \in Nat
  <2>1. new.addr \in Nat
    BY <1>3 DEF MallocIInv, MallocTypeOK, Block
  <2>2. QED
    BY <1>2, <2>1
<1>5. c.file \notin Placed
  <2>1. \A d \in Of("ALLOC") : d.file # c.file
    BY DEF WellFormed
  <2>2. QED
    BY <2>1 DEF LoaderIInv, PlacedInv
<1> HIDE DEF p, n
<1>6. QED
  BY <1>1, <1>2, <1>3, <1>4, <1>5 DEF n

\* do_alloc puts a file where no other file is and leaves those as they are.
LEMMA AllocKeeps ==
  ASSUME LoaderIInv, MallocIInv, MallocIInv', BlocksInside', BlocksApart',
         [MallocNext]_mallocVars, pc = "run", NEW c \in Commands, c.cmd = "ALLOC",
         WellFormed(c), executed' = executed \cup {c}, do_alloc(c)
  PROVE  LoaderIInv'
<1>1. CASE c.file \notin Files
  <2>1. Stop("panic") /\ executed' \subseteq Commands
    BY <1>1 DEF do_alloc, LoaderIInv, LoaderTypeOK
  <2>2. QED
    BY <1>1, <2>1, StopKeeps
<1>2. CASE c.file \in Files
  <2> DEFINE f == c.file
             n == Len(Blob[f])
  <2>1. PICK p \in Nat, new \in blocks' :
          /\ f \notin Placed
          /\ new.addr = p /\ new.size = n /\ new.id = calls
          /\ c.zone = "FSEG" => new.zone = "FSEG"
          /\ blocks' = blocks \cup {new} /\ calls' = calls + 1 /\ calls \in Nat
          /\ file_address' = [file_address EXCEPT ![f] = p]
          /\ mem' = Store(p, Blob[f])
          /\ rsdp_paddr' = IF IsRsdp(c) THEN p ELSE rsdp_paddr
          /\ pc' = pc
    BY <1>2, AllocEffect
  <2>2. LoaderTypeOK /\ PlacedInv /\ pc # "panic" /\ pc' = "run"
    BY <2>1 DEF LoaderIInv
  <2>3. f \in Files /\ n \in Nat /\ Blob[f] \in [1 .. n -> Byte]
    BY <1>2, Space
  <2>4. /\ file_address'[f] = p
        /\ \A g \in Files : g # f => file_address'[g] = file_address[g]
        /\ file_address' \in [Files -> Nat]
    BY <1>2, <2>1, <2>2 DEF LoaderTypeOK
  <2>5. /\ Placed \subseteq Placed' /\ Placed' \subseteq Placed \cup {f}
        /\ \A g \in Placed : g \in Files /\ g # f /\ file_address'[g] = file_address[g]
    BY <2>1, <2>4 DEF Placed
  <2>6. /\ Of("PTR")' = Of("PTR") /\ Of("CHECKSUM")' = Of("CHECKSUM")
        /\ Of("ALLOC")' = Of("ALLOC") \cup {c}
    BY DEF Of
  <2>7. Fit' => Fit
    BY FitBefore DEF MallocIInv
  <2>8. LoaderTypeOK'
    <3>1. mem' \in [Addresses -> Byte]
      BY <2>1, <2>2, <2>3, Stored
    <3>2. rsdp_paddr' \in Nat
      BY <2>1, <2>2 DEF LoaderTypeOK
    <3>3. QED
      BY <2>2, <2>4, <3>1, <3>2 DEF LoaderTypeOK, Addresses, Byte, Files
  <2>9. ASSUME Fit', NEW k \in Placed
        PROVE  p + n <= file_address[k] \/ file_address[k] + Len(Blob[k]) <= p
    <3>1. PICK b \in blocks : b.addr = file_address[k] /\ b.size = Len(Blob[k])
      BY <2>2 DEF PlacedInv
    <3>2. b # new /\ b \in blocks'
      <4>1. b.id < calls /\ b.id \in Nat
        BY <2>2 DEF PlacedInv, MallocIInv, MallocTypeOK, Block
      <4>2. QED
        BY <2>1, <4>1
    <3>3. Apart(new, b)
      BY <2>1, <2>9, <3>2 DEF BlocksApart, Fit, Apart
    <3>4. QED
      BY <2>1, <3>1, <3>3 DEF Apart
  <2>10. PlacedInv'
    <3>1. \A g \in Placed' : \E d \in Of("ALLOC")' : d.file = g
      BY <2>2, <2>5, <2>6 DEF PlacedInv
    <3>2. \A g \in Placed' : \E b \in blocks' : b.addr = file_address'[g] /\ b.size = Len(Blob[g])
      BY <2>1, <2>2, <2>4, <2>5 DEF PlacedInv
    <3>3. \A b \in blocks' : b.id < calls'
      <4>1. \A b \in blocks : b.id < calls /\ b.id \in Nat
        BY <2>2 DEF PlacedInv, MallocIInv, MallocTypeOK, Block
      <4>2. QED
        BY <2>1, <4>1
    <3>4. ASSUME Fit', NEW g \in Placed', NEW h \in Placed', g # h
          PROVE  FilesApart(g, h)'
      <4>1. CASE g \in Placed /\ h \in Placed
        BY <2>2, <2>5, <2>7, <3>4, <4>1 DEF PlacedInv, FilesApart
      <4>2. CASE g = f /\ h \in Placed
        BY <2>4, <2>5, <2>9, <3>4, <4>2 DEF FilesApart
      <4>3. CASE h = f /\ g \in Placed
        BY <2>4, <2>5, <2>9, <3>4, <4>3 DEF FilesApart
      <4>4. QED
        BY <2>5, <3>4, <4>1, <4>2, <4>3
    <3>5. QED
      BY <3>1, <3>2, <3>3, <3>4 DEF PlacedInv
  <2>11. CommandsInv'
    BY <2>2, <2>5, <2>6 DEF LoaderIInv, CommandsInv, InFile, Covered
  <2>12. ASSUME Fit'
         PROVE  /\ \A i \in 1 .. n : mem'[p + i - 1] = Blob[f][i]
                /\ \A g \in Placed : \A j \in 0 .. Len(Blob[g]) - 1 :
                     mem'[file_address[g] + j] = mem[file_address[g] + j]
    <3>1. p + n <= ADDR_SPACE
      <4>1. new.zone \in Zones
        BY DEF MallocIInv, MallocTypeOK, Block
      <4>2. new.addr + new.size <= ZoneHigh(new.zone)
        BY <2>12 DEF BlocksInside, Fit, Inside, ZoneHigh, ZoneLow
      <4>3. ZoneHigh(new.zone) \in Nat /\ ZoneHigh(new.zone) < ADDR_SPACE
        BY Numbers DEF ZoneHigh
      <4>4. QED
        BY <2>1, <2>3, <4>2, <4>3, Space
    <3>2. /\ \A i \in 1 .. n : mem'[p + i - 1] = Blob[f][i]
          /\ \A a \in Addresses : a < p \/ p + n <= a => mem'[a] = mem[a]
      <4> DEFINE b == Blob[f]
      <4>1. p \in Nat /\ n \in Nat /\ b \in [1 .. n -> Byte] /\ mem' = Store(p, b)
        BY <2>1, <2>3
      <4> HIDE DEF b, n, f
      <4>2. /\ \A i \in 1 .. n : Store(p, b)[p + i - 1] = b[i]
            /\ \A a \in Addresses : a < p \/ p + n <= a => Store(p, b)[a] = mem[a]
        BY <2>2, <3>1, <4>1, Stored
      <4>3. /\ \A i \in 1 .. n : mem'[p + i - 1] = b[i]
            /\ \A a \in Addresses : a < p \/ p + n <= a => mem'[a] = mem[a]
        BY <4>1, <4>2, Zenon
      <4>4. QED
        BY <4>3 DEF b
    <3>3. ASSUME NEW g \in Placed, NEW j \in 0 .. Len(Blob[g]) - 1
          PROVE  mem'[file_address[g] + j] = mem[file_address[g] + j]
      <4>1. /\ file_address[g] \in Nat /\ Len(Blob[g]) \in Nat
            /\ file_address[g] + Len(Blob[g]) <= ADDR_SPACE
        BY <2>2, <2>7, <2>12, FileInside
      <4> DEFINE q == file_address[g]
                 l == Len(Blob[g])
                 a == q + j
      <4>2. p + n <= q \/ q + l <= p
        BY <2>9, <2>12
      <4>3. q \in Nat /\ l \in Nat /\ j \in 0 .. l - 1 /\ q + l <= ADDR_SPACE
        BY <4>1
      <4> HIDE DEF q, l
      <4>4. a \in Nat /\ a < ADDR_SPACE /\ (a < p \/ p + n <= a)
        BY <2>3, <4>2, <4>3, Space
      <4> HIDE DEF a
      <4>5. mem'[a] = mem[a]
        BY <3>2, <4>4, Space
      <4>6. QED
        BY <4>5 DEF a, q
    <3>4. QED
      BY <3>2, <3>3
  <2>13. ASSUME Fit', NEW g \in Placed, NEW at \in Nat, NEW len \in Nat, at + len <= Len(Blob[g])
         PROVE  Load(file_address[g] + at, len)' = Load(file_address[g] + at, len)
    <3>1. Len(Blob[g]) \in Nat
      BY <2>5, Space
    <3>2. \A j \in at .. at + len - 1 : j \in 0 .. Len(Blob[g]) - 1
      BY <2>13, <3>1
    <3>3. \A j \in at .. at + len - 1 : mem'[file_address[g] + j] = mem[file_address[g] + j]
      BY <2>12, <2>13, <3>2
    <3>4. QED
      BY <2>2, <2>5, <2>7, <2>8, <2>13, <3>3, RangeKept
  <2>14. FieldsPatched'
    <3> SUFFICES ASSUME Fit', NEW d \in Of("PTR")
                 PROVE  Field(d)' = Patched(Sent(d), file_address'[d.src], d.size)
      BY <2>6 DEF FieldsPatched, Sent
    <3>1. /\ d.src \in Placed /\ d.dest \in Placed /\ d.offset \in Nat /\ d.size \in Nat
          /\ d.offset + d.size <= Len(Blob[d.dest])
      BY <2>2, PtrFields
    <3>2. Field(d)' = Field(d)
      BY <2>13, <3>1 DEF Field
    <3>3. Field(d) = Patched(Sent(d), file_address[d.src], d.size)
      BY <2>2, <2>7 DEF LoaderIInv, FieldsPatched
    <3>4. QED
      BY <2>5, <3>1, <3>2, <3>3
  <2>15. ChecksumsHold'
    <3> SUFFICES ASSUME Fit', NEW s \in Of("CHECKSUM")
                 PROVE  csum8(Load(file_address[s.file] + s.start, s.len)') = 0
      BY <2>6 DEF ChecksumsHold
    <3>1. /\ s.file \in Placed /\ s.start \in Nat /\ s.len \in Nat
          /\ s.start + s.len <= Len(Blob[s.file])
      BY <2>2, SumFields
    <3>2. Load(file_address[s.file] + s.start, s.len)' =
            Load(file_address[s.file] + s.start, s.len)
      BY <2>13, <3>1
    <3>3. QED
      BY <2>2, <2>7, <3>2 DEF LoaderIInv, ChecksumsHold
  <2>16. BytesKept'
    <3> SUFFICES ASSUME Fit', NEW g \in Placed', NEW i \in 0 .. Len(Blob[g]) - 1
                 PROVE  \/ mem'[file_address'[g] + i] = Blob[g][i + 1]
                        \/ \E d \in Of("PTR") : d.dest = g /\ i \in PtrBytes(d)
                        \/ \E d \in Of("CHECKSUM") : d.file = g /\ i = d.offset
      BY <2>6 DEF BytesKept, PtrBytes
    <3>1. CASE g = f
      <4>1. i + 1 \in 1 .. n /\ p + (i + 1) - 1 = p + i
        BY <2>3, <3>1
      <4>2. mem'[p + (i + 1) - 1] = Blob[f][i + 1]
        BY <2>12, <4>1
      <4>3. QED
        BY <2>4, <3>1, <4>1, <4>2
    <3>2. CASE g \in Placed
      <4>1. /\ mem'[file_address[g] + i] = mem[file_address[g] + i]
            /\ file_address'[g] = file_address[g]
        BY <2>5, <2>12, <3>2
      <4>2. QED
        BY <2>2, <2>7, <3>2, <4>1 DEF LoaderIInv, BytesKept
    <3>3. QED
      BY <2>5, <3>1, <3>2
  <2>17. RsdpInv'
    <3> SUFFICES ASSUME NEW g \in RsdpFiles, NEW d \in Of("ALLOC")', d.file = g, d.zone = "FSEG"
                 PROVE  /\ rsdp_paddr' = file_address'[g]
                        /\ \E b \in blocks' : b.zone = "FSEG" /\ b.addr = rsdp_paddr'
      BY DEF RsdpInv
    <3>1. CASE d = c
      <4>1. g = f /\ IsRsdp(c)
        BY <3>1 DEF IsRsdp
      <4>2. QED
        BY <2>1, <2>4, <3>1, <4>1
    <3>2. CASE d # c
      <4>1. d \in Of("ALLOC")
        BY <2>6, <3>2
      <4>2. d.file # f
        BY <4>1 DEF WellFormed
      <4>3. g \in Files /\ g # f /\ ~IsRsdp(c)
        BY <4>2, LoaderAssumption DEF IsRsdp
      <4>4. /\ rsdp_paddr = file_address[g]
            /\ \E b \in blocks : b.zone = "FSEG" /\ b.addr = rsdp_paddr
        BY <4>1 DEF LoaderIInv, RsdpInv
      <4>5. QED
        BY <2>1, <2>4, <4>3, <4>4
    <3>3. QED
      BY <3>1, <3>2
  <2>18. QED
    BY <2>8, <2>10, <2>11, <2>14, <2>15, <2>16, <2>17 DEF LoaderIInv
<1>3. QED
  BY <1>1, <1>2


-----------------------------------------------------------------------------
(* The theorems.                                                           *)

\* One round of the loop of extract_acpi, whichever command it carries out.
LEMMA StepKeeps ==
  ASSUME LoaderIInv, MallocIInv, MallocIInv', BlocksInside', BlocksApart',
         NEW c \in Commands, Step(c)
  PROVE  LoaderIInv'
<1>1. /\ pc = "run" /\ WellFormed(c) /\ executed' = executed \cup {c}
      /\ executed' \subseteq Commands
  BY DEF Step, LoaderIInv, LoaderTypeOK
<1>2. CASE c.cmd = "ALLOC"
  <2>1. do_alloc(c)
    BY <1>2 DEF Step
  <2>2. [MallocNext]_mallocVars
    BY <1>2, <2>1, AllocIsMalloc
  <2>3. QED
    BY <1>1, <1>2, <2>1, <2>2, AllocKeeps
<1>3. CASE c.cmd = "PTR"
  <2>1. do_ptr(c)
    BY <1>3 DEF Step
  <2>2. QED
    BY <1>1, <1>3, <2>1, PtrKeeps
<1>4. CASE c.cmd = "CHECKSUM"
  <2>1. do_checksum(c)
    BY <1>4 DEF Step
  <2>2. QED
    BY <1>1, <1>4, <2>1, ChecksumKeeps
<1>5. CASE c.cmd \notin {"ALLOC", "PTR", "CHECKSUM"}
  <2>1. PICK why \in {"done", "panic"} : Stop(why)
    BY <1>5 DEF Step
  <2>2. \A d \in executed' : d.cmd \in {"ALLOC", "PTR", "CHECKSUM"} => d \in executed
    BY <1>1, <1>5
  <2>3. QED
    BY <1>1, <2>1, <2>2, StopKeeps
<1>6. QED
  BY <1>2, <1>3, <1>4, <1>5

\* What the loader has done to memory agrees with the commands it carried out,
\* for every script QEMU may send.
THEOREM LoaderInvariant == LoaderSpec => []LoaderIInv
<1>1. LoaderInit => LoaderIInv
  <2> SUFFICES ASSUME LoaderInit
               PROVE  LoaderIInv
    OBVIOUS
  <2>1. /\ blocks = {} /\ executed = {} /\ Placed = {}
        /\ \A cmd : Of(cmd) = {}
    BY DEF LoaderInit, MallocInit, Placed, Of
  <2>2. LoaderTypeOK
    <3>1. 0 \in Byte
      BY LoaderAssumption DEF Byte
    <3>2. QED
      BY <2>1, <3>1 DEF LoaderInit, LoaderTypeOK
  <2>3. /\ PlacedInv /\ CommandsInv /\ FieldsPatched
        /\ ChecksumsHold /\ BytesKept /\ RsdpInv
    BY <2>1 DEF PlacedInv, CommandsInv, FieldsPatched, ChecksumsHold, BytesKept, RsdpInv
  <2>4. QED
    BY <2>2, <2>3 DEF LoaderIInv
<1>2. LoaderIInv /\ MallocIInv /\ (MallocIInv' /\ BlocksInside' /\ BlocksApart')
        /\ [LoaderNext]_vars => LoaderIInv'
  <2> SUFFICES ASSUME LoaderIInv, MallocIInv,
                      MallocIInv', BlocksInside', BlocksApart', [LoaderNext]_vars
               PROVE  LoaderIInv'
    OBVIOUS
  <2>1. CASE \E c \in Commands : Step(c)
    <3>1. PICK c \in Commands : Step(c)
      BY <2>1
    <3>2. QED
      BY <3>1, StepKeeps
  <2>2. CASE EndOfScript
    <3>1. pc = "run" /\ Stop("done") /\ executed' = executed /\ executed \subseteq Commands
      BY <2>2 DEF EndOfScript, LoaderIInv, LoaderTypeOK
    <3>2. QED
      BY <3>1, StopKeeps
  <2>3. CASE UNCHANGED vars
    <3>1. /\ UNCHANGED <<mallocVars, mem, file_address, rsdp_paddr, pc>>
          /\ executed' = executed
      BY <2>3 DEF vars, loaderVars
    <3>2. /\ mem' = mem /\ file_address' = file_address /\ rsdp_paddr' = rsdp_paddr
          /\ pc' = pc /\ blocks' = blocks /\ calls' = calls /\ demand' = demand
      BY <3>1 DEF mallocVars
    <3>3. PlacedInv' /\ RsdpInv' /\ Placed' = Placed /\ (Fit' <=> Fit)
      BY <3>1, Unmoved
    <3>4. /\ Of("PTR")' = Of("PTR") /\ Of("CHECKSUM")' = Of("CHECKSUM")
          /\ \A p, n : Load(p, n)' = Load(p, n)
      BY <3>1, <3>2 DEF Of, Load
    <3>5. LoaderTypeOK' /\ CommandsInv'
      BY <3>1, <3>2, <3>3, <3>4
         DEF LoaderIInv, LoaderTypeOK, CommandsInv, InFile, Covered, Addresses, Byte, Files
    <3>6. FieldsPatched'
      BY <3>2, <3>3, <3>4 DEF LoaderIInv, FieldsPatched, Field, Sent
    <3>7. ChecksumsHold'
      BY <3>2, <3>3, <3>4 DEF LoaderIInv, ChecksumsHold
    <3>8. BytesKept'
      BY <3>2, <3>3, <3>4 DEF LoaderIInv, BytesKept, PtrBytes
    <3>9. QED
      BY <3>3, <3>5, <3>6, <3>7, <3>8 DEF LoaderIInv
  <2>4. QED
    BY <2>1, <2>2, <2>3 DEF LoaderNext
<1>3. MallocSpec => [](MallocIInv /\ BlocksInside /\ BlocksApart)
  BY MallocInvariant, IInvImplies, PTL
<1>4. QED
  BY <1>1, <1>2, <1>3, LoaderImplementsMalloc, PTL DEF LoaderSpec, AllocationsAreMalloc

\* do_ptr adds the address of a table to the number QEMU left in the field, of
\* whatever size the field is, and nothing later disturbs the sum.
THEOREM LoaderPointersPatched == LoaderSpec => []PointersPatched
<1>1. LoaderIInv => PointersPatched
  <2> SUFFICES ASSUME LoaderIInv, Fit, pc # "panic", NEW c \in Of("PTR")
               PROVE  Value(Field(c)) = (Value(Sent(c)) + file_address[c.src]) % Modulus(c.size)
    BY DEF PointersPatched, Field, Sent
  <2>1. /\ c.src \in Files /\ c.dest \in Files /\ c.offset \in Nat /\ c.size \in Nat
        /\ c.offset + c.size <= Len(Blob[c.dest])
    BY PtrFields DEF Placed
  <2>2. Field(c) = ToBytes(Value(Sent(c)) + file_address[c.src], c.size)
    BY DEF LoaderIInv, FieldsPatched, Patched
  <2>3. Sent(c) \in [1 .. c.size -> Byte]
    BY <2>1, SentBytes DEF Sent
  <2>4. Value(Sent(c)) \in Nat /\ file_address[c.src] \in Nat
    BY <2>1, <2>3, ValueType DEF LoaderIInv, LoaderTypeOK
  <2>5. Value(Sent(c)) + file_address[c.src] \in Nat
    BY <2>4
  <2>6. QED
    BY <2>1, <2>2, <2>5, BytesHoldValue
<1>2. QED
  BY <1>1, LoaderInvariant, PTL

\* A range do_checksum summed up goes on summing to zero.
THEOREM LoaderChecksumsHold == LoaderSpec => []ChecksumsHold
<1>1. LoaderIInv => ChecksumsHold
  BY DEF LoaderIInv
<1>2. QED
  BY <1>1, LoaderInvariant, PTL

\* No handler writes a byte that is not its command's, in any table.
THEOREM LoaderBytesKept == LoaderSpec => []BytesKept
<1>1. LoaderIInv => BytesKept
  BY DEF LoaderIInv
<1>2. QED
  BY <1>1, LoaderInvariant, PTL

\* do_alloc tells the kernel where the RSDP is, which is in the F segment.
THEOREM LoaderRsdpFound == LoaderSpec => []RsdpFound
<1>1. LoaderIInv /\ MallocIInv => RsdpFound
  <2> SUFFICES ASSUME LoaderIInv, MallocIInv, NEW f \in RsdpFiles,
                      \E c \in Of("ALLOC") : c.file = f /\ c.zone = "FSEG"
               PROVE  /\ rsdp_paddr = file_address[f]
                      /\ Fit => rsdp_paddr \in EDATA .. FSEG_END
    BY DEF RsdpFound
  <2>1. PICK b \in blocks : b.zone = "FSEG" /\ b.addr = rsdp_paddr
    BY DEF LoaderIInv, RsdpInv
  <2>2. b.addr \in Nat /\ b.size \in Nat
    BY BlockFields DEF MallocIInv
  <2>3. Fit => EDATA <= b.addr /\ b.addr + b.size <= FSEG_END
    BY <2>1, IInvImplies DEF Fit, BlocksInside, Inside, ZoneLow, ZoneHigh
  <2>4. Fit => b.addr \in EDATA .. FSEG_END
    BY <2>2, <2>3, Numbers
  <2>5. QED
    BY <2>1, <2>4 DEF LoaderIInv, RsdpInv
<1>2. QED
  BY <1>1, LoaderInvariant, LoaderImplementsMalloc, MallocInvariant, PTL
     DEF AllocationsAreMalloc

=============================================================================
