----------------------------- MODULE CLibProofs -----------------------------
(***************************************************************************)
(* memmove is right for every memory, every length and every overlap, and  *)
(* the string functions are for strings of any length; vsnprintf stays in  *)
(* its buffer for every format.  The run `c_lib` checks them in 9 bytes    *)
(* and on formats of two or three directives.                              *)
(***************************************************************************)
EXTENDS Printf, WellFoundedInduction, TLAPS

Addresses == 0 .. Size - 1

\* The memory when the bytes from lo up to hi of the destination are copied.
Copied(lo, hi) ==
  [a \in Addresses |-> IF lo <= a /\ a < hi THEN call.mem[call.src + (a - call.dest)]
                       ELSE call.mem[a]]

\* The memory has a size.
LEMMA SizeIsNat == Size \in Nat
  BY CallsAssumption

\* A call of memmove is one that its caller may make.
CallInv ==
  /\ call.dest \in Nat /\ call.src \in Nat /\ call.n \in Nat
  /\ call.dest + call.n <= Size /\ call.src + call.n <= Size
  /\ call.mem \in [Addresses -> 0 .. 127]
  /\ pc \in {"call", "forward", "backward", "done"}

\* Forward, call.n - n bytes are copied and the source is not behind; backward,
\* those above n are and it is: the bytes that are left still are the old ones.
ForwardInv ==
  /\ n \in 0 .. call.n /\ call.dest <= call.src
  /\ d = call.dest + (call.n - n) /\ s = call.src + (call.n - n)
  /\ mem = Copied(call.dest, d)

BackwardInv ==
  /\ n \in 0 .. call.n /\ call.src < call.dest
  /\ d = call.dest + n /\ s = call.src + n
  /\ mem = Copied(d, call.dest + call.n)

WholeCopy == mem = Copied(call.dest, call.dest + call.n)

MemmoveIInv ==
  call.fn = "memmove" =>
    /\ CallInv
    /\ pc = "call" => mem = call.mem
    /\ pc = "forward" => ForwardInv
    /\ pc = "backward" => BackwardInv
    /\ pc = "done" => ret = call.dest /\ WholeCopy

\* A caller's memory is as it was, and no call of vsnprintf is one of memmove.
LEMMA MemmoveInit == Init => MemmoveIInv
<1> SUFFICES ASSUME Init, call.fn = "memmove"
             PROVE  MemmoveIInv
  BY DEF MemmoveIInv
<1>1. StringInit
  BY PrintsAssumption DEF Init, PrintInit
<1>2. call \in Calls /\ mem = call.mem /\ pc = "call"
  BY <1>1 DEF StringInit
<1>3. /\ {call.dest, call.src, call.n} \subseteq Nat
      /\ call.mem \in [Addresses -> 0 .. 127]
      /\ Fits(call.dest, call.n) /\ Fits(call.src, call.n)
  BY <1>2, CallsAssumption DEF Addresses
<1>5. CallInv
  BY <1>2, <1>3, SizeIsNat DEF CallInv, Fits
<1>6. QED
  BY <1>2, <1>5 DEF MemmoveIInv

\* Nothing is copied yet.
LEMMA CopiedNothing ==
  ASSUME CallInv, NEW at \in Nat
  PROVE  Copied(at, at) = call.mem
<1>1. \A a \in Addresses : ~(at <= a /\ a < at)
  BY SizeIsNat DEF Addresses
<1>2. Copied(at, at) = [a \in Addresses |-> call.mem[a]]
  BY <1>1 DEF Copied
<1>3. QED
  BY <1>2 DEF CallInv

\* The first byte that is copied next still holds what it did at the call.
LEMMA ForwardStep ==
  ASSUME call.fn = "memmove", CallInv, ForwardInv, n > 0
  PROVE  [mem EXCEPT ![d] = mem[s]] = Copied(call.dest, d + 1)
<1>1. d \in Addresses /\ s \in Addresses /\ d <= s /\ call.dest \in Nat /\ call.dest <= d
  <2>1. /\ call.dest \in Nat /\ call.src \in Nat /\ call.n \in Nat /\ call.dest <= call.src
        /\ call.dest + call.n <= Size /\ call.src + call.n <= Size
    BY DEF CallInv, ForwardInv
  <2>2. n \in Nat /\ n <= call.n /\ d = call.dest + (call.n - n) /\ s = call.src + (call.n - n)
    BY <2>1 DEF ForwardInv
  <2>3. d \in 0 .. Size - 1 /\ s \in 0 .. Size - 1 /\ d <= s
    BY <2>1, <2>2, SizeIsNat
  <2>4. call.dest <= d
    BY <2>1, <2>2
  <2>5. QED
    BY <2>1, <2>3, <2>4 DEF Addresses
<1>2. mem[s] = call.mem[call.src + (d - call.dest)]
  BY <1>1 DEF CallInv, ForwardInv, Copied
<1> DEFINE new == [mem EXCEPT ![d] = mem[s]]
<1>3. new = [a \in Addresses |-> IF a = d THEN mem[s] ELSE mem[a]]
  BY <1>1 DEF ForwardInv, Copied
<1> HIDE DEF new
<1>4. ASSUME NEW a \in Addresses
      PROVE  new[a] = Copied(call.dest, d + 1)[a]
  <2>1. a \in Int /\ d \in Int /\ call.dest \in Int /\ call.dest <= d
    BY <1>1, SizeIsNat DEF Addresses
  <2>2. mem[a] = IF call.dest <= a /\ a < d THEN call.mem[call.src + (a - call.dest)]
                 ELSE call.mem[a]
    BY DEF ForwardInv, Copied
  <2>3. new[a] = IF a = d THEN call.mem[call.src + (d - call.dest)] ELSE mem[a]
    BY <1>2, <1>3
  <2>4. Copied(call.dest, d + 1)[a] =
          IF call.dest <= a /\ a < d + 1 THEN call.mem[call.src + (a - call.dest)]
          ELSE call.mem[a]
    BY DEF Copied
  <2>5. QED
    BY <2>1, <2>2, <2>3, <2>4
<1>5. new = Copied(call.dest, d + 1)
  BY <1>3, <1>4 DEF Copied
<1>6. QED
  BY <1>5 DEF new

\* The same from the other end.
LEMMA BackwardStep ==
  ASSUME call.fn = "memmove", CallInv, BackwardInv, n > 0
  PROVE  [mem EXCEPT ![d - 1] = mem[s - 1]] = Copied(d - 1, call.dest + call.n)
<1>1. d - 1 \in Addresses /\ s - 1 \in Addresses /\ s < d
  <2>1. d \in 1 .. Size /\ s \in 1 .. Size /\ s < d
    BY SizeIsNat DEF CallInv, BackwardInv
  <2>2. QED
    BY <2>1, SizeIsNat DEF Addresses
<1>2. mem[s - 1] = call.mem[call.src + (d - 1 - call.dest)]
  BY <1>1 DEF CallInv, BackwardInv, Copied
<1> DEFINE new == [mem EXCEPT ![d - 1] = mem[s - 1]]
<1>3. new = [a \in Addresses |-> IF a = d - 1 THEN mem[s - 1] ELSE mem[a]]
  BY <1>1 DEF BackwardInv, Copied
<1> HIDE DEF new
<1>4. ASSUME NEW a \in Addresses
      PROVE  new[a] = Copied(d - 1, call.dest + call.n)[a]
  <2> DEFINE end == call.dest + call.n
  <2>1. a \in Int /\ d \in Int /\ end \in Int /\ d <= end
    BY SizeIsNat DEF CallInv, BackwardInv, Addresses
  <2> HIDE DEF end
  <2>2. mem[a] = IF d <= a /\ a < end THEN call.mem[call.src + (a - call.dest)]
                 ELSE call.mem[a]
    BY DEF BackwardInv, Copied, end
  <2>3. new[a] = IF a = d - 1 THEN call.mem[call.src + (d - 1 - call.dest)] ELSE mem[a]
    BY <1>2, <1>3
  <2>4. Copied(d - 1, end)[a] =
          IF d - 1 <= a /\ a < end THEN call.mem[call.src + (a - call.dest)]
          ELSE call.mem[a]
    BY DEF Copied
  <2>5. new[a] = Copied(d - 1, end)[a]
    BY <2>1, <2>2, <2>3, <2>4
  <2>6. QED
    BY <2>5 DEF end
<1>5. new = Copied(d - 1, call.dest + call.n)
  BY <1>3, <1>4 DEF Copied
<1>6. QED
  BY <1>5 DEF new

\* Each step keeps what is known of a memmove.
LEMMA MemmoveStep == MemmoveIInv /\ [Next]_vars => MemmoveIInv'
<1> SUFFICES ASSUME MemmoveIInv, [Next]_vars, call'.fn = "memmove"
             PROVE  MemmoveIInv'
  BY DEF MemmoveIInv
<1>1. call' = call
  BY DEF Next, StringNext, memmove, CopyForward, CopyBackward, Moved, Read, Write, Finished, vars,
         stringVars, PrintNext, literal, percent, percent_char, char_arg, end_of_fmt, zero_flag,
         width, long, number, too_long, pointer, string, other, finish, Convert, Goto
<1>2. call.fn = "memmove" /\ CallInv
  BY <1>1 DEF MemmoveIInv
<1>3. CASE memmove
  <2>1. pc = "call" /\ mem = call.mem /\ mem' = mem /\ n' = call.n
    BY <1>2, <1>3 DEF memmove, MemmoveIInv
  <2>2. CASE call.dest <= call.src
    <3>1. pc' = "forward" /\ d' = call.dest /\ s' = call.src
      BY <1>3, <2>2 DEF memmove, Forward
    <3>2. mem' = Copied(call.dest, call.dest)
      BY <1>2, <2>1, CopiedNothing DEF CallInv
    <3>3. CallInv'
      BY <1>1, <1>2, <3>1 DEF CallInv
    <3>4. Copied(call.dest, d)' = Copied(call.dest, d')
      BY <1>1 DEF Copied
    <3>5. ForwardInv'
      BY <1>1, <1>2, <2>1, <2>2, <3>1, <3>2, <3>4 DEF ForwardInv, CallInv
    <3>6. QED
      BY <3>1, <3>3, <3>5 DEF MemmoveIInv
  <2>3. CASE ~(call.dest <= call.src)
    <3>1. pc' = "backward" /\ d' = call.dest + call.n /\ s' = call.src + call.n
      BY <1>3, <2>3 DEF memmove, Forward
    <3>2. mem' = Copied(call.dest + call.n, call.dest + call.n)
      BY <1>2, <2>1, CopiedNothing DEF CallInv
    <3>3. CallInv'
      BY <1>1, <1>2, <3>1 DEF CallInv
    <3>4. Copied(d, call.dest + call.n)' = Copied(d', call.dest + call.n)
      BY <1>1 DEF Copied
    <3>5. BackwardInv'
      BY <1>1, <1>2, <2>1, <2>3, <3>1, <3>2, <3>4 DEF BackwardInv, CallInv
    <3>6. QED
      BY <3>1, <3>3, <3>5 DEF MemmoveIInv
  <2>4. QED
    BY <2>2, <2>3
<1>4. CASE CopyForward
  <2>1. ForwardInv /\ n > 0 /\ pc' = "forward"
    BY <1>2, <1>4 DEF MemmoveIInv, CopyForward
  <2>2. mem' = Copied(call.dest, d + 1) /\ d' = d + 1 /\ s' = s + 1 /\ n' = n - 1
    BY <1>2, <1>4, <2>1, ForwardStep DEF CopyForward
  <2>3. ForwardInv' /\ CallInv'
    BY <1>1, <1>2, <2>1, <2>2 DEF ForwardInv, CallInv, Copied
  <2>4. QED
    BY <2>1, <2>3 DEF MemmoveIInv
<1>5. CASE CopyBackward
  <2>1. BackwardInv /\ n > 0 /\ pc' = "backward"
    BY <1>2, <1>5 DEF MemmoveIInv, CopyBackward
  <2>2. mem' = Copied(d - 1, call.dest + call.n) /\ d' = d - 1 /\ s' = s - 1 /\ n' = n - 1
    BY <1>2, <1>5, <2>1, BackwardStep DEF CopyBackward
  <2>3. BackwardInv' /\ CallInv'
    BY <1>1, <1>2, <2>1, <2>2 DEF BackwardInv, CallInv, Copied
  <2>4. QED
    BY <2>1, <2>3 DEF MemmoveIInv
<1>6. CASE Moved
  <2>1. pc' = "done" /\ ret' = call.dest /\ mem' = mem /\ n = 0
    BY <1>6 DEF Moved
  <2>2. WholeCopy
    BY <1>2, <1>6, <2>1 DEF MemmoveIInv, Moved, CallInv, ForwardInv, BackwardInv, WholeCopy
  <2>3. CallInv' /\ WholeCopy'
    BY <1>1, <1>2, <2>1, <2>2 DEF CallInv, WholeCopy, Copied
  <2>4. QED
    BY <1>1, <2>1, <2>3 DEF MemmoveIInv
<1>7. CASE UNCHANGED vars
  BY <1>1, <1>2, <1>7
  DEF vars, stringVars, MemmoveIInv, CallInv, ForwardInv, BackwardInv, WholeCopy, Copied
<1>8. ASSUME NEW fn, NEW value, fn # "memmove", Read(fn, value) \/ Write(fn, value)
      PROVE  FALSE
  BY <1>2, <1>8 DEF Read, Write
<1>9. CASE PrintNext
  BY <1>2, <1>9
  DEF CallInv, PrintNext, literal, percent, percent_char, char_arg, end_of_fmt, zero_flag, width,
      long, number, too_long, pointer, string, other, finish
<1>10. QED
  BY <1>3, <1>4, <1>5, <1>6, <1>7, <1>8, <1>9 DEF Next, StringNext, Finished

\* However source and destination overlap and however large memory is, memmove
\* leaves in the destination what the source held, and changes nothing else.
THEOREM MemmoveIsRight == Spec => []MemmoveRight
<1>1. MemmoveIInv => MemmoveRight
  BY DEF MemmoveIInv, CallInv, WholeCopy, Copied, Addresses, MemmoveRight
<1>2. QED
  BY <1>1, MemmoveInit, MemmoveStep, PTL DEF Spec
-----------------------------------------------------------------------------
(* Strings.                                                                *)

\* The order of numbers as a relation.
LEMMA LessThan ==
  ASSUME NEW j \in Nat, NEW i \in Nat, j < i
  PROVE  <<j, i>> \in OpToRel(<, Nat)
<1>1. OpToRel(<, Nat) = {r \in Nat \X Nat : r[1] < r[2]}
  BY Zenon DEF OpToRel
<1>2. <<j, i>> \in {r \in Nat \X Nat : r[1] < r[2]}
  OBVIOUS
<1>3. QED
  BY <1>1, <1>2

\* A set of numbers has a least one.
LEMMA LeastNumber ==
  ASSUME NEW S, S \subseteq Nat, S # {}
  PROVE  \E i \in S : \A j \in S : i <= j
<1>1. \E i \in S : \A j \in S : ~(<<j, i>> \in OpToRel(<, Nat))
  BY WFMin, NatLessThanWellFounded
<1>2. PICK i \in S : \A j \in S : ~(<<j, i>> \in OpToRel(<, Nat))
  BY <1>1
<1>3. ASSUME NEW j \in S, j < i
      PROVE  FALSE
  <2>1. j \in Nat /\ i \in Nat
    OBVIOUS
  <2>2. <<j, i>> \in OpToRel(<, Nat)
    BY <1>3, <2>1, LessThan
  <2>3. QED
    BY <1>2, <2>2
<1>4. \A j \in S : j \in Nat /\ i \in Nat /\ ~(j < i)
  BY <1>3
<1>5. \A j \in S : i <= j
  BY <1>4
<1>6. QED
  BY <1>5

\* A loop that stops somewhere in memory stops somewhere first.
LEMMA FirstOf ==
  ASSUME NEW p \in Nat, NEW end \in Nat, NEW Stops, NEW e \in p .. end, e \in Stops
  PROVE  \E q \in p .. end : q \in Stops /\ \A r \in p .. q - 1 : r \notin Stops
<1> DEFINE S == {q \in p .. end : q \in Stops}
<1>1. S \subseteq Nat /\ S # {}
  OBVIOUS
<1>2. PICK q \in S : \A r \in S : q <= r
  <2> HIDE DEF S
  <2>1. QED
    BY <1>1, LeastNumber
<1>3. QED
  BY <1>2

\* A function on the numbers up to l is a sequence, and the other way round.
LEMMA FunctionIsSequence ==
  ASSUME NEW T, NEW l \in Nat, NEW t \in [1 .. l -> T]
  PROVE  t \in Seq(T) /\ Len(t) = l
OBVIOUS

LEMMA SequenceIsFunction ==
  ASSUME NEW T, NEW t \in Seq(T)
  PROVE  t \in [1 .. Len(t) -> T] /\ Len(t) \in Nat
OBVIOUS

\* A string ends at the first terminator.
LEMMA TextIs ==
  ASSUME NEW m \in [Addresses -> 0 .. 127], NEW p \in Nat, Terminated(m, p)
  PROVE  LET l == Len(Text(m, p))
         IN  /\ Text(m, p) \in Seq(0 .. 127) /\ l \in Nat
             /\ p + l < Size /\ m[p + l] = 0
             /\ \A k \in 0 .. l - 1 : m[p + k] # 0
             /\ \A k \in 1 .. l : Text(m, p)[k] = m[p + k - 1]
<1> DEFINE Ends(e) == e \in p .. Size - 1 /\ m[e] = 0 /\ \A q \in p .. e - 1 : m[q] # 0
           end     == CHOOSE e \in p .. Size - 1 : m[e] = 0 /\ \A q \in p .. e - 1 : m[q] # 0
<1>1. \E e : Ends(e)
  <2>1. PICK z \in p .. Size - 1 : m[z] = 0
    BY DEF Terminated
  <2> DEFINE Stops == {e \in p .. Size - 1 : m[e] = 0}
  <2>2. z \in Stops /\ Size - 1 \in Nat
    BY <2>1, CallsAssumption
  <2>3. PICK q \in p .. Size - 1 : q \in Stops /\ \A r \in p .. q - 1 : r \notin Stops
    <3> HIDE DEF Stops
    <3>1. QED
      BY <2>2, FirstOf
  <2>4. \A r \in p .. q - 1 : r \in p .. Size - 1
    BY SizeIsNat
  <2>5. QED
    BY <2>3, <2>4
<1>2. Ends(end)
  BY <1>1
<1>3. Text(m, p) = [k \in 1 .. end - p |-> m[p + k - 1]]
  BY DEF Text
<1> HIDE DEF end
<1>4. end \in p .. Size - 1 /\ end \in Nat /\ end - p \in Nat
  BY <1>2, SizeIsNat
<1>5. \A k \in 1 .. end - p : p + k - 1 \in Addresses
  BY <1>4, SizeIsNat DEF Addresses
<1>6. Text(m, p) \in Seq(0 .. 127) /\ Len(Text(m, p)) = end - p
  <2>1. Text(m, p) \in [1 .. end - p -> 0 .. 127]
    BY <1>3, <1>5
  <2>2. QED
    BY <1>4, <2>1, FunctionIsSequence
<1>7. p + (end - p) = end /\ \A k \in 0 .. (end - p) - 1 : p + k \in p .. end - 1
  BY <1>4
<1>8. p + (end - p) < Size
  BY <1>4, SizeIsNat
<1>9. \A k \in 0 .. (end - p) - 1 : m[p + k] # 0
  BY <1>2, <1>7
<1>10. \A k \in 1 .. end - p : Text(m, p)[k] = m[p + k - 1]
  BY <1>3
<1>11. QED
  BY <1>2, <1>4, <1>6, <1>7, <1>8, <1>9, <1>10

\* Only one number of characters is that of the string.
LEMMA TextEnds ==
  ASSUME NEW m \in [Addresses -> 0 .. 127], NEW p \in Nat, Terminated(m, p), NEW l \in Nat,
         m[p + l] = 0, \A k \in 0 .. l - 1 : m[p + k] # 0
  PROVE  l = Len(Text(m, p))
<1> DEFINE e == Len(Text(m, p))
<1>1. e \in Nat /\ m[p + e] = 0 /\ \A k \in 0 .. e - 1 : m[p + k] # 0
  BY TextIs
<1> HIDE DEF e
<1>2. ~(l < e) /\ ~(e < l)
  BY <1>1
<1>3. l = e
  BY <1>1, <1>2
<1>4. QED
  BY <1>3 DEF e

\* strlen counts the characters before the terminator.
LEMMA StrlenIs ==
  ASSUME mem \in [Addresses -> 0 .. 127], NEW p \in Nat, Terminated(mem, p)
  PROVE  strlen(p) = Len(Text(mem, p))
<1> DEFINE q == CHOOSE q \in p .. Size : mem[q] = 0 /\ \A r \in p .. q - 1 : ~(mem[r] = 0)
           l == Len(Text(mem, p))
<1>1. strlen(p) = q - p
  BY DEF strlen, First
<1>2. l \in Nat /\ p + l < Size /\ mem[p + l] = 0 /\ \A k \in 0 .. l - 1 : mem[p + k] # 0
  BY TextIs
<1>3. \E x \in p .. Size : mem[x] = 0 /\ \A r \in p .. x - 1 : ~(mem[r] = 0)
  <2> HIDE DEF l
  <2>1. p + l \in p .. Size
    BY <1>2, SizeIsNat
  <2>2. ASSUME NEW r \in p .. (p + l) - 1
        PROVE  mem[r] # 0
    <3>1. r - p \in 0 .. l - 1 /\ p + (r - p) = r
      BY <1>2
    <3>2. QED
      BY <1>2, <3>1
  <2>3. QED
    BY <1>2, <2>1, <2>2
<1>4. q \in p .. Size /\ mem[q] = 0 /\ \A r \in p .. q - 1 : ~(mem[r] = 0)
  BY <1>3
<1> HIDE DEF q, l
<1>5. q - p \in Nat /\ mem[p + (q - p)] = 0 /\ \A k \in 0 .. (q - p) - 1 : mem[p + k] # 0
  <2>1. q - p \in Nat /\ p + (q - p) = q
    BY <1>4, SizeIsNat
  <2>2. \A k \in 0 .. (q - p) - 1 : p + k \in p .. q - 1
    BY <1>4, SizeIsNat
  <2>3. QED
    BY <1>4, <2>1, <2>2
<1>6. q - p = Len(Text(mem, p))
  BY <1>5, TextEnds
<1>7. QED
  BY <1>1, <1>6

\* Sequences that agree up to k are ordered as they are behind it.
LEMMA Ordered ==
  ASSUME NEW t \in Seq(0 .. 127), NEW u \in Seq(0 .. 127), NEW k \in Nat,
         k <= Len(t), k <= Len(u), \A j \in 1 .. k : t[j] = u[j]
  PROVE  /\ k = Len(t) /\ k = Len(u) => t = u /\ ~Precedes(t, u)
         /\ k = Len(t) /\ k < Len(u) => t # u /\ Precedes(t, u)
         /\ k < Len(t) /\ k = Len(u) => t # u /\ ~Precedes(t, u)
         /\ k < Len(t) /\ k < Len(u) /\ t[k + 1] # u[k + 1] =>
              t # u /\ (Precedes(t, u) <=> t[k + 1] < u[k + 1])
<1> DEFINE Before(j) == /\ j < Len(u) /\ SubSeq(t, 1, j) = SubSeq(u, 1, j)
                        /\ j = Len(t) \/ t[j + 1] < u[j + 1]
<1>0. /\ t \in [1 .. Len(t) -> 0 .. 127] /\ Len(t) \in Nat
      /\ u \in [1 .. Len(u) -> 0 .. 127] /\ Len(u) \in Nat
  BY SequenceIsFunction
<1>1. Precedes(t, u) <=> \E j \in 0 .. Len(t) : Before(j)
  BY DEF Precedes
<1>2. SubSeq(t, 1, k) = SubSeq(u, 1, k)
  <2>1. SubSeq(t, 1, k) = [j \in 1 .. k |-> t[j]]
    OBVIOUS
  <2>2. SubSeq(u, 1, k) = [j \in 1 .. k |-> u[j]]
    OBVIOUS
  <2>3. QED
    BY <2>1, <2>2
<1>3. ASSUME NEW j \in 0 .. Len(t), Before(j), k < Len(u) => t[k + 1] # u[k + 1],
             k < Len(t) \/ k = Len(u)
      PROVE  j = k
  <2>1. j \in Nat /\ Len(t) \in Nat /\ Len(u) \in Nat
    OBVIOUS
  <2>2. ASSUME j < k
        PROVE  FALSE
    <3>1. j # Len(t) /\ t[j + 1] < u[j + 1]
      BY <1>3, <2>1, <2>2
    <3>2. j + 1 \in 1 .. k /\ j + 1 \in 1 .. Len(u)
      BY <2>1, <2>2
    <3>3. t[j + 1] = u[j + 1]
      BY <3>2
    <3>4. u[j + 1] \in 0 .. 127
      BY <1>0, <3>2
    <3>5. \A x \in 0 .. 127 : ~(x < x)
      OBVIOUS
    <3>6. QED
      BY <3>1, <3>3, <3>4, <3>5, Zenon
  <2>3. ASSUME k < j
        PROVE  FALSE
    <3>1. k + 1 \in 1 .. j /\ k < Len(u) /\ j <= Len(t) /\ j <= Len(u)
      BY <1>3, <2>1, <2>3
    <3>2. SubSeq(t, 1, j)[k + 1] = t[k + 1] /\ SubSeq(u, 1, j)[k + 1] = u[k + 1]
      BY <2>1, <3>1
    <3>3. QED
      BY <1>3, <3>1, <3>2
  <2>4. QED
    BY <2>1, <2>2, <2>3
<1> HIDE DEF Before
<1>4. CASE k = Len(t) /\ k = Len(u)
  <2>1. t = u
    <3>1. t = [j \in 1 .. k |-> t[j]]
      BY <1>0, <1>4
    <3>2. u = [j \in 1 .. k |-> u[j]]
      BY <1>0, <1>4
    <3>3. QED
      BY <3>1, <3>2
  <2>2. \A j \in 0 .. Len(t) : ~Before(j)
    <3> SUFFICES ASSUME NEW j \in 0 .. Len(t), Before(j)
                 PROVE  FALSE
      OBVIOUS
    <3>1. j < Len(t) /\ t[j + 1] < u[j + 1]
      BY <1>4 DEF Before
    <3>2. j + 1 \in 1 .. k /\ j + 1 \in 1 .. Len(u)
      BY <1>4, <3>1
    <3>3. t[j + 1] = u[j + 1]
      BY <3>2
    <3>4. u[j + 1] \in 0 .. 127
      BY <1>0, <3>2
    <3>5. \A x \in 0 .. 127 : ~(x < x)
      OBVIOUS
    <3>6. QED
      BY <3>1, <3>3, <3>4, <3>5, Zenon
  <2>3. QED
    BY <1>1, <1>4, <2>1, <2>2
<1>5. CASE k = Len(t) /\ k < Len(u)
  <2>1. Before(k)
    BY <1>2, <1>5 DEF Before
  <2>2. QED
    BY <1>1, <1>5, <2>1
<1>6. CASE k < Len(t) /\ k = Len(u)
  <2>1. \A j \in 0 .. Len(t) : ~Before(j)
    BY <1>3, <1>6 DEF Before
  <2>2. QED
    BY <1>1, <1>6, <2>1
<1>7. CASE k < Len(t) /\ k < Len(u) /\ t[k + 1] # u[k + 1]
  <2>1. \A j \in 0 .. Len(t) : Before(j) => j = k
    BY <1>3, <1>7
  <2>2. Before(k) <=> t[k + 1] < u[k + 1]
    BY <1>2, <1>7 DEF Before
  <2>3. k \in 0 .. Len(t) /\ t # u
    BY <1>7
  <2>4. QED
    BY <1>1, <1>7, <2>1, <2>2, <2>3
<1>8. QED
  BY <1>4, <1>5, <1>6, <1>7

\* memcmp stops at k, the first difference or the end.
StopsAt(p, q, len, k) ==
  /\ \A j \in 0 .. k - 1 : mem[p + j] = mem[q + j]
  /\ k = len => memcmp(p, q, len) = 0
  /\ k < len => mem[p + k] # mem[q + k] /\ memcmp(p, q, len) = mem[p + k] - mem[q + k]

LEMMA MemcmpIs ==
  ASSUME NEW p \in Nat, NEW q \in Nat, NEW len \in Nat
  PROVE  \E k \in 0 .. len : StopsAt(p, q, len, k)
<1> DEFINE Stop(j) == j = len \/ mem[p + j] # mem[q + j]
           k == CHOOSE i \in 0 .. len : Stop(i) /\ \A r \in 0 .. i - 1 : ~Stop(r)
<1>1. memcmp(p, q, len) = IF k = len THEN 0 ELSE mem[p + k] - mem[q + k]
  BY DEF memcmp, First
<1>2. \E i \in 0 .. len : Stop(i) /\ \A r \in 0 .. i - 1 : ~Stop(r)
  <2> DEFINE Stops == {j \in 0 .. len : Stop(j)}
  <2>1. len \in Stops /\ len \in 0 .. len /\ 0 \in Nat
    OBVIOUS
  <2>2. PICK i \in 0 .. len : i \in Stops /\ \A r \in 0 .. i - 1 : r \notin Stops
    <3> HIDE DEF Stops
    <3>1. QED
      BY <2>1, FirstOf
  <2>3. QED
    BY <2>2
<1>3. k \in 0 .. len /\ Stop(k) /\ \A r \in 0 .. k - 1 : ~Stop(r)
  BY <1>2
<1> HIDE DEF k
<1>4. StopsAt(p, q, len, k)
  BY <1>1, <1>3 DEF StopsAt
<1>5. QED
  BY <1>3, <1>4

\* strcmp stops at the first difference, or at the end of both strings.
LEMMA StrcmpIs ==
  ASSUME mem \in [Addresses -> 0 .. 127], NEW p \in Nat, NEW q \in Nat,
         Terminated(mem, p), Terminated(mem, q)
  PROVE  \E k \in Nat :
           /\ k <= Len(Text(mem, p)) /\ k <= Len(Text(mem, q))
           /\ \A j \in 0 .. k - 1 : mem[p + j] = mem[q + j]
           /\ mem[p + k] # mem[q + k] \/ mem[p + k] = 0
           /\ strcmp(p, q) = mem[p + k] - mem[q + k]
<1> DEFINE Stop(j) == mem[p + j] # mem[q + j] \/ mem[p + j] = 0
           k == CHOOSE i \in 0 .. Size : Stop(i) /\ \A r \in 0 .. i - 1 : ~Stop(r)
           t == Len(Text(mem, p))
           u == Len(Text(mem, q))
<1>1. strcmp(p, q) = mem[p + k] - mem[q + k]
  BY DEF strcmp, First
<1>2. /\ t \in Nat /\ p + t < Size /\ mem[p + t] = 0
      /\ u \in Nat /\ q + u < Size /\ mem[q + u] = 0
      /\ \A j \in 0 .. u - 1 : mem[q + j] # 0
  BY TextIs
<1> HIDE DEF t, u
<1>3. \E i \in 0 .. Size : Stop(i) /\ \A r \in 0 .. i - 1 : ~Stop(r)
  <2> DEFINE Stops == {j \in 0 .. Size : Stop(j)}
  <2>1. t \in Stops /\ Size \in Nat /\ t \in 0 .. Size
    BY <1>2, SizeIsNat
  <2>2. PICK i \in 0 .. Size : i \in Stops /\ \A r \in 0 .. i - 1 : r \notin Stops
    <3> HIDE DEF Stops
    <3>1. QED
      BY <2>1, FirstOf
  <2>3. \A r \in 0 .. i - 1 : r \in 0 .. Size
    BY SizeIsNat
  <2>4. QED
    BY <2>2, <2>3
<1>4. k \in 0 .. Size /\ Stop(k) /\ \A r \in 0 .. k - 1 : ~Stop(r)
  BY <1>3
<1> HIDE DEF k
<1>5. k \in Nat /\ k <= t
  <2>1. k \in Nat
    BY <1>4, SizeIsNat
  <2>2. ~(t < k)
    BY <1>2, <1>4, <2>1
  <2>3. QED
    BY <1>2, <2>1, <2>2
<1>6. k <= u
  <2>1. ASSUME u < k
        PROVE  FALSE
    <3>1. mem[p + u] = mem[q + u] /\ mem[p + u] # 0
      BY <1>2, <1>4, <1>5, <2>1
    <3>2. QED
      BY <1>2, <3>1
  <2>2. QED
    BY <1>2, <1>5, <2>1
<1>7. QED
  BY <1>1, <1>4, <1>5, <1>6 DEF t, u

\* The least address found, or NULL.
LeastIn(found, r) ==
  IF found = {} THEN r = NULL ELSE r \in found /\ \A q \in found : r <= q

\* strchr stops at the character or at the terminator, whichever is first.
LEMMA StrchrIs ==
  ASSUME mem \in [Addresses -> 0 .. 127], NEW p \in Nat, Terminated(mem, p), NEW c
  PROVE  LeastIn({r \in p .. p + Len(Text(mem, p)) : mem[r] = c}, strchr(p, c))
<1> DEFINE Stop(r) == mem[r] = c \/ mem[r] = 0
           q == CHOOSE x \in p .. Size : Stop(x) /\ \A r \in p .. x - 1 : ~Stop(r)
           l == Len(Text(mem, p))
           found == {r \in p .. p + l : mem[r] = c}
<1>1. strchr(p, c) = IF mem[q] = c THEN q ELSE NULL
  BY DEF strchr, First
<1>2. /\ l \in Nat /\ p + l < Size /\ mem[p + l] = 0
      /\ \A k \in 0 .. l - 1 : mem[p + k] # 0
  BY TextIs
<1> HIDE DEF l
<1>3. \E x \in p .. Size : Stop(x) /\ \A r \in p .. x - 1 : ~Stop(r)
  <2> DEFINE Stops == {r \in p .. Size : Stop(r)}
  <2>1. p + l \in Stops /\ p + l \in p .. Size /\ Size \in Nat
    BY <1>2, SizeIsNat
  <2>2. PICK x \in p .. Size : x \in Stops /\ \A r \in p .. x - 1 : r \notin Stops
    <3> HIDE DEF Stops
    <3>1. QED
      BY <2>1, FirstOf
  <2>3. \A r \in p .. x - 1 : r \in p .. Size
    BY SizeIsNat
  <2>4. QED
    BY <2>2, <2>3
<1>4. q \in p .. Size /\ Stop(q) /\ \A r \in p .. q - 1 : ~Stop(r)
  BY <1>3
<1> HIDE DEF q
<1>5. q \in Nat /\ q <= p + l
  <2>1. q \in Nat
    BY <1>4, SizeIsNat
  <2>2. ~(p + l < q)
    <3>1. p + l \in p .. q - 1 <=> p + l < q
      BY <1>2, <2>1
    <3>2. QED
      BY <1>2, <1>4, <3>1
  <2>3. QED
    BY <1>2, <2>1, <2>2
<1>6. \A r \in found : q <= r
  BY <1>2, <1>4, <1>5
<1>7. CASE mem[q] = c
  <2>1. q \in found
    BY <1>2, <1>4, <1>5, <1>7
  <2>2. QED
    BY <1>1, <1>6, <1>7, <2>1 DEF LeastIn, l
<1>8. CASE mem[q] # c
  <2>1. mem[q] = 0
    BY <1>4, <1>8
  <2>2. ~(q < p + l)
    <3>1. q < p + l => q - p \in 0 .. l - 1 /\ p + (q - p) = q
      BY <1>2, <1>4, <1>5
    <3>2. QED
      BY <1>2, <2>1, <3>1
  <2>3. q = p + l
    BY <1>2, <1>5, <2>2
  <2>4. found = {}
    BY <1>2, <1>5, <1>6, <1>8, <2>3
  <2>5. QED
    BY <1>1, <1>8, <2>4 DEF LeastIn, l
<1>9. QED
  BY <1>7, <1>8

\* memchr stops at the character or at the end of the block.
LEMMA MemchrIs ==
  ASSUME NEW p \in Nat, NEW len \in Nat, NEW c
  PROVE  LeastIn({r \in p .. p + len - 1 : mem[r] = c}, memchr(p, c, len))
<1> DEFINE Stop(r) == r = p + len \/ mem[r] = c
           q == CHOOSE x \in p .. p + len : Stop(x) /\ \A r \in p .. x - 1 : ~Stop(r)
           found == {r \in p .. p + len - 1 : mem[r] = c}
<1>1. memchr(p, c, len) = IF q = p + len THEN NULL ELSE q
  BY DEF memchr, First
<1>2. \E x \in p .. p + len : Stop(x) /\ \A r \in p .. x - 1 : ~Stop(r)
  <2> DEFINE Stops == {r \in p .. p + len : Stop(r)}
  <2>1. p + len \in Stops /\ p + len \in p .. p + len /\ p + len \in Nat
    OBVIOUS
  <2>2. PICK x \in p .. p + len : x \in Stops /\ \A r \in p .. x - 1 : r \notin Stops
    <3> HIDE DEF Stops
    <3>1. QED
      BY <2>1, FirstOf
  <2>3. \A r \in p .. x - 1 : r \in p .. p + len
    OBVIOUS
  <2>4. QED
    BY <2>2, <2>3
<1>3. q \in p .. p + len /\ Stop(q) /\ \A r \in p .. q - 1 : ~Stop(r)
  BY <1>2
<1> HIDE DEF q
<1>4. \A r \in found : q <= r
  BY <1>3
<1>5. CASE q = p + len
  <2>1. found = {}
    BY <1>4, <1>5
  <2>2. QED
    BY <1>1, <1>5, <2>1 DEF LeastIn
<1>6. CASE q # p + len
  <2>1. q \in found
    BY <1>3, <1>6
  <2>2. QED
    BY <1>1, <1>4, <1>6, <2>1 DEF LeastIn
<1>7. QED
  BY <1>5, <1>6

\* memcmp is 0 for a place where the second string is found.
LEMMA FoundAt ==
  ASSUME mem \in [Addresses -> 0 .. 127], NEW p \in Nat, NEW q \in Nat,
         Terminated(mem, p), Terminated(mem, q),
         NEW j \in Nat, j + Len(Text(mem, q)) <= Len(Text(mem, p))
  PROVE  memcmp(p + j, q, Len(Text(mem, q))) = 0 <=>
         SubSeq(Text(mem, p), j + 1, j + Len(Text(mem, q))) = Text(mem, q)
<1> DEFINE t == Text(mem, p)
           u == Text(mem, q)
           l == Len(u)
<1>1. /\ t \in Seq(0 .. 127) /\ Len(t) \in Nat /\ p + Len(t) < Size
      /\ \A k \in 1 .. Len(t) : t[k] = mem[p + k - 1]
      /\ u \in Seq(0 .. 127) /\ l \in Nat /\ q + l < Size
      /\ \A k \in 1 .. l : u[k] = mem[q + k - 1]
      /\ j + l <= Len(t)
  BY TextIs
<1> HIDE DEF t, u, l
<1>2. PICK k \in 0 .. l : StopsAt(p + j, q, l, k)
  <2>1. p + j \in Nat /\ l \in Nat
    BY <1>1
  <2>2. QED
    BY <2>1, MemcmpIs
<1>3. u = [i \in 1 .. l |-> mem[q + i - 1]]
  <2>1. u \in [1 .. l -> 0 .. 127]
    BY <1>1, SequenceIsFunction DEF l
  <2>2. QED
    BY <1>1, <2>1
<1>4. SubSeq(t, j + 1, j + l) = [i \in 1 .. l |-> mem[(p + j) + i - 1]]
  <2>1. SubSeq(t, j + 1, j + l) = [i \in 1 .. l |-> t[j + i]]
    BY <1>1
  <2>2. \A i \in 1 .. l : t[j + i] = mem[(p + j) + i - 1]
    <3> SUFFICES ASSUME NEW i \in 1 .. l
                 PROVE  t[j + i] = mem[(p + j) + i - 1]
      OBVIOUS
    <3>1. j + i \in 1 .. Len(t) /\ p + (j + i) - 1 = (p + j) + i - 1
      BY <1>1
    <3>2. QED
      BY <1>1, <3>1
  <2>3. QED
    BY <2>1, <2>2
<1>5. CASE k = l
  <2>1. \A i \in 1 .. l : mem[(p + j) + i - 1] = mem[q + i - 1]
    <3> SUFFICES ASSUME NEW i \in 1 .. l
                 PROVE  mem[(p + j) + i - 1] = mem[q + i - 1]
      OBVIOUS
    <3>1. i - 1 \in 0 .. k - 1 /\ (p + j) + (i - 1) = (p + j) + i - 1 /\ q + (i - 1) = q + i - 1
      BY <1>1, <1>5
    <3>2. QED
      BY <1>2, <3>1 DEF StopsAt
  <2>2. SubSeq(t, j + 1, j + l) = u
    BY <1>3, <1>4, <2>1
  <2>3. QED
    BY <1>1, <1>2, <1>5, <2>2 DEF t, u, l, StopsAt
<1>6. CASE k < l
  <2>1. (p + j) + k \in Addresses /\ q + k \in Addresses
    BY <1>1, <1>6, SizeIsNat DEF Addresses
  <2>2. memcmp(p + j, q, l) # 0
    <3>1. mem[(p + j) + k] \in 0 .. 127 /\ mem[q + k] \in 0 .. 127
      BY <2>1
    <3>2. \A x, y \in 0 .. 127 : x # y => x - y # 0
      OBVIOUS
    <3>3. mem[(p + j) + k] # mem[q + k] /\ memcmp(p + j, q, l) = mem[(p + j) + k] - mem[q + k]
      BY <1>2, <1>6 DEF StopsAt
    <3>4. QED
      BY <3>1, <3>2, <3>3
  <2>3. SubSeq(t, j + 1, j + l) # u
    <3>1. /\ k + 1 \in 1 .. l
          /\ (p + j) + (k + 1) - 1 = (p + j) + k /\ q + (k + 1) - 1 = q + k
      BY <1>1, <1>6
    <3>2. SubSeq(t, j + 1, j + l)[k + 1] = mem[(p + j) + k] /\ u[k + 1] = mem[q + k]
      BY <1>3, <1>4, <3>1
    <3>3. QED
      BY <1>2, <1>6, <3>2 DEF StopsAt
  <2>4. QED
    BY <2>2, <2>3 DEF t, u, l
<1>7. QED
  BY <1>1, <1>2, <1>5, <1>6

\* strstr looks at every place at which the second string can start.
LEMMA StrstrIs ==
  ASSUME mem \in [Addresses -> 0 .. 127], NEW p \in Nat, NEW q \in Nat,
         Terminated(mem, p), Terminated(mem, q)
  PROVE  LET t == Text(mem, p)
             u == Text(mem, q)
         IN  LeastIn({r \in p .. p + Len(t) - Len(u) : SubSeq(t, r - p + 1, r - p + Len(u)) = u},
                     strstr(p, q))
<1> DEFINE t  == Text(mem, p)
           u  == Text(mem, q)
           l1 == Len(t)
           l2 == Len(u)
           Found(r) == SubSeq(t, r - p + 1, r - p + l2) = u
           found == {r \in p .. p + l1 - l2 : Found(r)}
           Stop(j) == ~(l1 - j >= l2) \/ memcmp(p + j, q, l2) = 0
           k == CHOOSE i \in 0 .. l1 : Stop(i) /\ \A j \in 0 .. i - 1 : ~Stop(j)
<1>1. strlen(p) = l1 /\ strlen(q) = l2
  BY StrlenIs
<1>2. strstr(p, q) = IF l2 = 0 THEN p ELSE IF l1 - k >= l2 THEN p + k ELSE NULL
  BY <1>1 DEF strstr, First, MayMatch
<1>3. l1 \in Nat /\ l2 \in Nat /\ t \in Seq(0 .. 127) /\ u \in Seq(0 .. 127)
  BY TextIs
<1>4. \A j \in Nat : j + l2 <= l1 => (memcmp(p + j, q, l2) = 0 <=> Found(p + j))
  <2> SUFFICES ASSUME NEW j \in Nat, j + l2 <= l1
               PROVE  memcmp(p + j, q, l2) = 0 <=> Found(p + j)
    OBVIOUS
  <2>1. memcmp(p + j, q, l2) = 0 <=> SubSeq(t, j + 1, j + l2) = u
    BY FoundAt
  <2>2. (p + j) - p + 1 = j + 1 /\ (p + j) - p + l2 = j + l2
    BY <1>3
  <2>3. QED
    BY <2>1, <2>2
<1> HIDE DEF t, u, l1, l2
<1>5. CASE l2 = 0
  <2>1. u = <<>>
    BY <1>3, <1>5 DEF l2
  <2>2. p - p + 1 = 1 /\ p - p + l2 = 0
    BY <1>5
  <2>3. SubSeq(t, 1, 0) = <<>>
    BY <1>3
  <2>4. Found(p)
    BY <2>1, <2>2, <2>3
  <2>5. p \in found /\ \A r \in found : p <= r
    BY <1>3, <1>5, <2>4
  <2>6. LeastIn(found, strstr(p, q))
    <3> HIDE DEF found
    <3>1. QED
      BY <1>2, <1>5, <2>5 DEF LeastIn
  <2>7. QED
    BY <2>6 DEF t, u, l1, l2
<1>6. CASE l2 # 0
  <2>1. \E i \in 0 .. l1 : Stop(i) /\ \A j \in 0 .. i - 1 : ~Stop(j)
    <3> DEFINE Stops == {j \in 0 .. l1 : Stop(j)}
    <3>1. l1 \in Stops /\ l1 \in 0 .. l1 /\ 0 \in Nat
      BY <1>3, <1>6
    <3>2. PICK i \in 0 .. l1 : i \in Stops /\ \A r \in 0 .. i - 1 : r \notin Stops
      <4> HIDE DEF Stops
      <4>1. QED
        BY <1>3, <3>1, FirstOf
    <3>3. \A r \in 0 .. i - 1 : r \in 0 .. l1
      BY <1>3
    <3>4. QED
      BY <3>2, <3>3
  <2>2. k \in 0 .. l1 /\ Stop(k) /\ \A j \in 0 .. k - 1 : ~Stop(j)
    BY <2>1
  <2> HIDE DEF k, Found
  <2>3. \A r \in found : p + k <= r
    <3> SUFFICES ASSUME NEW r \in p .. p + l1 - l2, Found(r), r < p + k
                 PROVE  FALSE
      BY <1>3, <2>2
    <3>1. r - p \in Nat /\ p + (r - p) = r /\ (r - p) + l2 <= l1 /\ r - p \in 0 .. k - 1
      BY <1>3, <2>2
    <3>2. memcmp(p + (r - p), q, l2) = 0
      BY <1>4, <3>1
    <3>3. QED
      BY <2>2, <3>1, <3>2
  <2>4. CASE l1 - k >= l2
    <3>1. memcmp(p + k, q, l2) = 0 /\ k \in Nat /\ k + l2 <= l1
      BY <1>3, <2>2, <2>4
    <3>2. Found(p + k)
      BY <1>4, <3>1
    <3>3. p + k \in found
      BY <1>3, <3>1, <3>2
    <3>4. LeastIn(found, strstr(p, q))
      <4> HIDE DEF found
      <4>1. QED
        BY <1>2, <1>6, <2>3, <2>4, <3>3 DEF LeastIn
    <3>5. QED
      BY <3>4 DEF t, u, l1, l2, Found
  <2>5. CASE ~(l1 - k >= l2)
    <3>1. found = {}
      <4>1. ASSUME NEW r \in found
            PROVE  FALSE
        <5>1. r \in p .. p + l1 - l2 /\ p + k <= r
          BY <2>3
        <5>2. QED
          BY <1>3, <2>2, <2>5, <5>1
      <4>2. QED
        BY <4>1
    <3>2. LeastIn(found, strstr(p, q))
      <4> HIDE DEF found
      <4>1. QED
        BY <1>2, <1>6, <2>5, <3>1 DEF LeastIn
    <3>3. QED
      BY <3>2 DEF t, u, l1, l2, Found
  <2>6. QED
    BY <2>4, <2>5
<1>7. QED
  BY <1>5, <1>6

\* A copy of the string at q behind a string t at p continues it, and no other
\* byte changes.
LEMMA CopyIs ==
  ASSUME mem \in [Addresses -> 0 .. 127], NEW p \in Nat, NEW q \in Nat, NEW t \in Seq(0 .. 127),
         Terminated(mem, q), Fits(p + Len(t), Len(Text(mem, q)) + 1),
         \A k \in 0 .. Len(t) - 1 : mem[p + k] = t[k + 1] /\ t[k + 1] # 0
  PROVE  LET new == strcat(p + Len(t), q)
             joined == t \o Text(mem, q)
         IN  /\ Text(new, p) = joined
             /\ \A r \in Addresses : r \notin p .. p + Len(joined) => new[r] = mem[r]
<1> DEFINE u == Text(mem, q)
           l == Len(u)
           end == p + Len(t)
           new == strcat(end, q)
           joined == t \o u
           len == Len(t) + l
<1>1. strlen(q) = l
  BY StrlenIs
<1>2. /\ u \in Seq(0 .. 127) /\ l \in Nat /\ q + l < Size /\ mem[q + l] = 0
      /\ \A k \in 0 .. l - 1 : mem[q + k] # 0
      /\ \A k \in 1 .. l : u[k] = mem[q + k - 1]
  BY TextIs
<1>3. Len(t) \in Nat /\ end \in Nat /\ len \in Nat /\ end + l < Size /\ p + len = end + l
  BY <1>2, SizeIsNat DEF Fits
<1>4. /\ joined \in Seq(0 .. 127) /\ Len(joined) = len
      /\ \A k \in 1 .. len : joined[k] = IF k <= Len(t) THEN t[k] ELSE u[k - Len(t)]
  <2> HIDE DEF u
  <2>1. QED
    BY <1>2, <1>3
<1>5. new = [a \in Addresses |-> IF a \in end .. end + l THEN mem[q + a - end] ELSE mem[a]]
  BY <1>1 DEF strcat, Addresses
<1> HIDE DEF u, l, end, new, joined
<1>6. new \in [Addresses -> 0 .. 127]
  <2> SUFFICES ASSUME NEW a \in Addresses
               PROVE  (IF a \in end .. end + l THEN mem[q + a - end] ELSE mem[a]) \in 0 .. 127
    BY <1>5
  <2>1. CASE a \in end .. end + l
    <3>1. q + a - end \in Addresses
      BY <1>2, <1>3, <2>1, SizeIsNat DEF Addresses
    <3>2. QED
      BY <2>1, <3>1
  <2>2. CASE a \notin end .. end + l
    BY <2>2
  <2>3. QED
    BY <2>1, <2>2
<1>7. \A k \in 0 .. l : new[end + k] = mem[q + k]
  <2> SUFFICES ASSUME NEW k \in 0 .. l
               PROVE  new[end + k] = mem[q + k]
    OBVIOUS
  <2>1. end + k \in Addresses /\ end + k \in end .. end + l /\ q + (end + k) - end = q + k
    BY <1>2, <1>3, SizeIsNat DEF Addresses
  <2>2. QED
    BY <1>5, <2>1
<1>8. \A k \in 0 .. Len(t) - 1 : new[p + k] = t[k + 1] /\ t[k + 1] # 0
  <2> SUFFICES ASSUME NEW k \in 0 .. Len(t) - 1
               PROVE  new[p + k] = t[k + 1] /\ t[k + 1] # 0
    OBVIOUS
  <2>1. p + k \in Addresses /\ p + k \notin end .. end + l
    BY <1>2, <1>3, SizeIsNat DEF Addresses, end
  <2>2. QED
    BY <1>5, <2>1
<1>9. \A k \in 1 .. len : new[p + k - 1] = joined[k] /\ joined[k] # 0
  <2> SUFFICES ASSUME NEW k \in 1 .. len
               PROVE  new[p + k - 1] = joined[k] /\ joined[k] # 0
    OBVIOUS
  <2>1. CASE k <= Len(t)
    <3>1. k - 1 \in 0 .. Len(t) - 1 /\ p + (k - 1) = p + k - 1 /\ (k - 1) + 1 = k
      BY <1>3, <2>1
    <3>2. joined[k] = t[k]
      BY <1>4, <2>1
    <3>3. QED
      BY <1>8, <3>1, <3>2
  <2>2. CASE ~(k <= Len(t))
    <3> DEFINE j == k - Len(t)
    <3>1. j \in 1 .. l /\ j - 1 \in 0 .. l /\ j - 1 \in 0 .. l - 1
      BY <1>2, <1>3, <2>2
    <3>2. end + (j - 1) = p + k - 1 /\ q + (j - 1) = q + j - 1
      BY <1>2, <1>3, <2>2 DEF end
    <3>3. joined[k] = u[j]
      BY <1>4, <2>2
    <3> HIDE DEF j
    <3>4. u[j] = mem[q + (j - 1)] /\ mem[q + (j - 1)] # 0
      BY <1>2, <3>1, <3>2
    <3>5. new[p + k - 1] = mem[q + (j - 1)]
      BY <1>7, <3>1, <3>2
    <3>6. QED
      BY <3>3, <3>4, <3>5
  <2>3. QED
    BY <2>1, <2>2
<1>10. new[p + len] = 0
  <2>1. l \in 0 .. l
    BY <1>2
  <2>2. QED
    BY <1>2, <1>3, <1>7, <2>1
<1>11. \A k \in 0 .. len - 1 : new[p + k] # 0
  <2> SUFFICES ASSUME NEW k \in 0 .. len - 1
               PROVE  new[p + k] # 0
    OBVIOUS
  <2>1. k + 1 \in 1 .. len /\ p + (k + 1) - 1 = p + k
    BY <1>3
  <2>2. QED
    BY <1>9, <2>1
<1>12. Terminated(new, p)
  <2>1. p + len \in p .. Size - 1
    BY <1>3, SizeIsNat
  <2>2. QED
    BY <1>10, <2>1 DEF Terminated
<1>13. Len(Text(new, p)) = len
  BY <1>3, <1>6, <1>10, <1>11, <1>12, TextEnds
<1>14. Text(new, p) = joined
  <2>1. /\ Text(new, p) \in Seq(0 .. 127)
        /\ \A k \in 1 .. len : Text(new, p)[k] = new[p + k - 1]
    BY <1>6, <1>12, <1>13, TextIs
  <2>2. Text(new, p) \in [1 .. len -> 0 .. 127]
    BY <1>13, <2>1, SequenceIsFunction
  <2>3. joined \in [1 .. len -> 0 .. 127]
    BY <1>4, SequenceIsFunction
  <2>4. \A k \in 1 .. len : Text(new, p)[k] = joined[k]
    BY <1>9, <2>1
  <2>5. Text(new, p) = [k \in 1 .. len |-> Text(new, p)[k]]
    BY <2>2
  <2>6. joined = [k \in 1 .. len |-> joined[k]]
    BY <2>3
  <2>7. QED
    BY <2>4, <2>5, <2>6
<1>15. \A r \in Addresses : r \notin p .. p + Len(joined) => new[r] = mem[r]
  <2> SUFFICES ASSUME NEW r \in Addresses, r \notin p .. p + len
               PROVE  new[r] = mem[r]
    BY <1>4
  <2>1. r \notin end .. end + l
    BY <1>2, <1>3, SizeIsNat DEF Addresses, end
  <2>2. QED
    BY <1>5, <2>1
<1>16. QED
  BY <1>14, <1>15 DEF new, joined, u, end

\* strcmp orders strings.
LEMMA StrcmpOrders ==
  ASSUME mem \in [Addresses -> 0 .. 127], NEW p \in Nat, NEW q \in Nat,
         Terminated(mem, p), Terminated(mem, q)
  PROVE  /\ strcmp(p, q) = 0 <=> Text(mem, p) = Text(mem, q)
         /\ strcmp(p, q) < 0 <=> Precedes(Text(mem, p), Text(mem, q))
<1> DEFINE t == Text(mem, p)
           u == Text(mem, q)
<1>1. PICK k \in Nat :
        /\ k <= Len(t) /\ k <= Len(u)
        /\ \A j \in 0 .. k - 1 : mem[p + j] = mem[q + j]
        /\ mem[p + k] # mem[q + k] \/ mem[p + k] = 0
        /\ strcmp(p, q) = mem[p + k] - mem[q + k]
  BY StrcmpIs
<1>2. /\ t \in Seq(0 .. 127) /\ Len(t) \in Nat /\ p + Len(t) < Size /\ mem[p + Len(t)] = 0
      /\ \A j \in 0 .. Len(t) - 1 : mem[p + j] # 0
      /\ \A j \in 1 .. Len(t) : t[j] = mem[p + j - 1]
  BY TextIs
<1>3. /\ u \in Seq(0 .. 127) /\ Len(u) \in Nat /\ q + Len(u) < Size /\ mem[q + Len(u)] = 0
      /\ \A j \in 0 .. Len(u) - 1 : mem[q + j] # 0
      /\ \A j \in 1 .. Len(u) : u[j] = mem[q + j - 1]
  BY TextIs
<1> HIDE DEF t, u
<1>4. \A j \in 1 .. k : t[j] = u[j]
  <2> SUFFICES ASSUME NEW j \in 1 .. k
               PROVE  t[j] = u[j]
    OBVIOUS
  <2>1. /\ j - 1 \in 0 .. k - 1 /\ j \in 1 .. Len(t) /\ j \in 1 .. Len(u)
        /\ p + (j - 1) = p + j - 1 /\ q + (j - 1) = q + j - 1
    BY <1>1, <1>2, <1>3
  <2>2. QED
    BY <1>1, <1>2, <1>3, <2>1
<1> DEFINE a == mem[p + k]
           b == mem[q + k]
<1>5. a \in 0 .. 127 /\ b \in 0 .. 127
  <2>1. p + k \in Addresses /\ q + k \in Addresses
    BY <1>1, <1>2, <1>3, SizeIsNat DEF Addresses
  <2>2. QED
    BY <2>1
<1>6. (k < Len(t) <=> a # 0) /\ (k < Len(u) <=> b # 0)
  <2>1. k < Len(t) => k \in 0 .. Len(t) - 1
    BY <1>2
  <2>2. k < Len(u) => k \in 0 .. Len(u) - 1
    BY <1>3
  <2>3. (~(k < Len(t)) => k = Len(t)) /\ (~(k < Len(u)) => k = Len(u))
    BY <1>1, <1>2, <1>3
  <2>4. QED
    BY <1>2, <1>3, <2>1, <2>2, <2>3
<1>7. (k < Len(t) => t[k + 1] = a) /\ (k < Len(u) => u[k + 1] = b)
  <2>1. p + (k + 1) - 1 = p + k /\ q + (k + 1) - 1 = q + k
    OBVIOUS
  <2>2. (k < Len(t) => k + 1 \in 1 .. Len(t)) /\ (k < Len(u) => k + 1 \in 1 .. Len(u))
    BY <1>2, <1>3
  <2>3. QED
    BY <1>2, <1>3, <2>1, <2>2
<1>8. /\ k = Len(t) /\ k = Len(u) => t = u /\ ~Precedes(t, u)
      /\ k = Len(t) /\ k < Len(u) => t # u /\ Precedes(t, u)
      /\ k < Len(t) /\ k = Len(u) => t # u /\ ~Precedes(t, u)
      /\ k < Len(t) /\ k < Len(u) /\ t[k + 1] # u[k + 1] =>
           t # u /\ (Precedes(t, u) <=> t[k + 1] < u[k + 1])
  BY <1>1, <1>2, <1>3, <1>4, Ordered
<1>9. strcmp(p, q) = a - b /\ (a # b \/ a = 0)
  BY <1>1
<1> HIDE DEF a, b
<1>10. (k = Len(t) <=> a = 0) /\ (k = Len(u) <=> b = 0)
  BY <1>1, <1>2, <1>3, <1>6
<1>11. (strcmp(p, q) = 0 <=> a = b) /\ (strcmp(p, q) < 0 <=> a < b)
  BY <1>5, <1>9
<1>12. (strcmp(p, q) = 0 <=> t = u) /\ (strcmp(p, q) < 0 <=> Precedes(t, u))
  <2>1. CASE a = 0 /\ b = 0
    BY <1>8, <1>10, <1>11, <2>1
  <2>2. CASE a = 0 /\ b # 0
    <3>1. a < b
      BY <1>5, <2>2
    <3>2. QED
      BY <1>6, <1>8, <1>10, <1>11, <2>2, <3>1
  <2>3. CASE a # 0 /\ b = 0
    <3>1. ~(a < b)
      BY <1>5, <2>3
    <3>2. QED
      BY <1>6, <1>8, <1>10, <1>11, <2>3, <3>1
  <2>4. CASE a # 0 /\ b # 0
    <3>1. t[k + 1] = a /\ u[k + 1] = b /\ a # b
      BY <1>6, <1>7, <1>9, <2>4
    <3>2. QED
      BY <1>6, <1>8, <1>11, <2>4, <3>1
  <2>5. QED
    BY <2>1, <2>2, <2>3, <2>4
<1>13. QED
  BY <1>12 DEF t, u

\* memcmp orders blocks of the same length.
Block(m, p, len) == [k \in 1 .. len |-> m[p + k - 1]]

LEMMA MemcmpOrders ==
  ASSUME mem \in [Addresses -> 0 .. 127], NEW p \in Nat, NEW q \in Nat, NEW len \in Nat,
         Fits(p, len), Fits(q, len)
  PROVE  /\ memcmp(p, q, len) = 0 <=> Block(mem, p, len) = Block(mem, q, len)
         /\ memcmp(p, q, len) < 0 <=> Precedes(Block(mem, p, len), Block(mem, q, len))
<1> DEFINE t == Block(mem, p, len)
           u == Block(mem, q, len)
<1>1. PICK k \in 0 .. len : StopsAt(p, q, len, k)
  BY MemcmpIs
<1>2. \A j \in 1 .. len : p + j - 1 \in Addresses /\ q + j - 1 \in Addresses
  BY SizeIsNat DEF Fits, Addresses
<1>3. t \in [1 .. len -> 0 .. 127] /\ u \in [1 .. len -> 0 .. 127]
  BY <1>2 DEF Block
<1>4. t \in Seq(0 .. 127) /\ Len(t) = len /\ u \in Seq(0 .. 127) /\ Len(u) = len
  <2> HIDE DEF t, u
  <2>1. QED
    BY <1>3, FunctionIsSequence
<1>5. \A j \in 1 .. len : t[j] = mem[p + j - 1] /\ u[j] = mem[q + j - 1]
  BY DEF Block
<1> HIDE DEF t, u
<1>6. k \in Nat /\ k <= len /\ \A j \in 1 .. k : t[j] = u[j]
  <2> SUFFICES ASSUME NEW j \in 1 .. k
               PROVE  t[j] = u[j]
    OBVIOUS
  <2>1. j - 1 \in 0 .. k - 1 /\ p + (j - 1) = p + j - 1 /\ q + (j - 1) = q + j - 1 /\ j \in 1 .. len
    OBVIOUS
  <2>2. mem[p + j - 1] = mem[q + j - 1]
    BY <1>1, <2>1 DEF StopsAt
  <2>3. QED
    BY <1>5, <2>1, <2>2
<1>7. /\ k = Len(t) /\ k = Len(u) => t = u /\ ~Precedes(t, u)
      /\ k < Len(t) /\ k < Len(u) /\ t[k + 1] # u[k + 1] =>
           t # u /\ (Precedes(t, u) <=> t[k + 1] < u[k + 1])
  <2>1. k <= Len(t) /\ k <= Len(u)
    BY <1>4, <1>6
  <2>2. QED
    BY <1>4, <1>6, <2>1, Ordered
<1>8. (memcmp(p, q, len) = 0 <=> t = u) /\ (memcmp(p, q, len) < 0 <=> Precedes(t, u))
  <2>1. CASE k = len
    BY <1>1, <1>4, <1>7, <2>1 DEF StopsAt
  <2>2. CASE k < len
    <3> DEFINE a == mem[p + k]
               b == mem[q + k]
    <3>1. k + 1 \in 1 .. len /\ p + (k + 1) - 1 = p + k /\ q + (k + 1) - 1 = q + k
      BY <2>2
    <3>2. t[k + 1] = a /\ u[k + 1] = b
      BY <1>5, <3>1
    <3>3. a \in 0 .. 127 /\ b \in 0 .. 127
      <4>1. p + k \in Addresses /\ q + k \in Addresses
        BY <1>2, <3>1
      <4>2. QED
        BY <4>1
    <3>4. a # b /\ memcmp(p, q, len) = a - b
      BY <1>1, <2>2 DEF StopsAt
    <3> HIDE DEF a, b
    <3>5. (memcmp(p, q, len) = 0 <=> a = b) /\ (memcmp(p, q, len) < 0 <=> a < b)
      BY <3>3, <3>4
    <3>6. QED
      BY <1>4, <1>7, <2>2, <3>2, <3>4, <3>5
  <2>3. QED
    BY <2>1, <2>2
<1>9. QED
  BY <1>8 DEF t, u

-----------------------------------------------------------------------------
(* The string functions.                                                   *)

\* A call of a string function is one its caller may make, on memory as it was.
StringIInv ==
  call.fn \notin {"memmove", "vsnprintf"} =>
    /\ call \in Calls /\ pc \in {"call", "done"}
    /\ pc = "call" => mem = call.mem
    /\ StringsRight

\* What such a call may rely on.
LEMMA CallIs ==
  ASSUME call \in Calls
  PROVE  /\ call.dest \in Nat /\ call.src \in Nat /\ call.n \in Nat
         /\ call.mem \in [Addresses -> 0 .. 127]
         /\ call.fn = "memcmp" => Fits(call.dest, call.n) /\ Fits(call.src, call.n)
         /\ call.fn \in {"strlen", "strchr", "strcmp", "strstr", "strcat"} =>
              Terminated(call.mem, call.dest)
         /\ call.fn \in {"strcmp", "strstr", "strcat", "strcpy"} => Terminated(call.mem, call.src)
         /\ call.fn = "strcat" => Fits(call.dest + Len(Text(call.mem, call.dest)),
                                       Len(Text(call.mem, call.src)) + 1)
         /\ call.fn = "strcpy" => Fits(call.dest, Len(Text(call.mem, call.src)) + 1)
<1>1. /\ {call.dest, call.src, call.n} \subseteq Nat
      /\ call.mem \in [Addresses -> 0 .. 127]
  BY CallsAssumption DEF Addresses
<1>2. \/ call.fn \in {"memmove", "memcmp"} /\ Fits(call.dest, call.n) /\ Fits(call.src, call.n)
      \/ call.fn = "memchr" /\ Fits(call.dest, call.n) /\ call.src \in 0 .. 127
      \/ call.fn = "strlen" /\ Terminated(call.mem, call.dest)
      \/ call.fn = "strchr" /\ Terminated(call.mem, call.dest) /\ call.n \in 0 .. 127
      \/ /\ call.fn \in {"strcmp", "strstr"}
         /\ Terminated(call.mem, call.dest) /\ Terminated(call.mem, call.src)
      \/ /\ call.fn = "strcat" /\ Terminated(call.mem, call.dest) /\ Terminated(call.mem, call.src)
         /\ Room(call.dest + Len(Text(call.mem, call.dest)), call.mem, call.src)
      \/ /\ call.fn = "strcpy" /\ Terminated(call.mem, call.src)
         /\ Room(call.dest, call.mem, call.src)
  BY CallsAssumption
<1>3. QED
  BY <1>1, <1>2 DEF Room

LEMMA StringsInit == Init => StringIInv
<1> SUFFICES ASSUME Init, call.fn \notin {"memmove", "vsnprintf"}
             PROVE  StringIInv
  BY DEF StringIInv
<1>1. StringInit
  BY PrintsAssumption DEF Init, PrintInit
<1>2. QED
  BY <1>1 DEF StringInit, StringIInv, StringsRight

\* A string function returns in the state it was called in, or with a copy.
LEMMA ReadRight ==
  ASSUME call \in Calls, mem = call.mem, call' = call, mem' = mem,
         \/ call.fn = "strlen" /\ ret' = strlen(call.dest)
         \/ call.fn = "strcmp" /\ ret' = strcmp(call.dest, call.src)
         \/ call.fn = "strchr" /\ ret' = strchr(call.dest, call.n)
         \/ call.fn = "strstr" /\ ret' = strstr(call.dest, call.src)
         \/ call.fn = "memcmp" /\ ret' = memcmp(call.dest, call.src, call.n)
         \/ call.fn = "memchr" /\ ret' = memchr(call.dest, call.src, call.n)
  PROVE  StringsRight'
<1> DEFINE p == call.dest
           q == call.src
           t == Text(call.mem, p)
           u == Text(call.mem, q)
<1>1. p \in Nat /\ q \in Nat /\ call.n \in Nat /\ mem \in [Addresses -> 0 .. 127]
  BY CallIs
<1>2. CASE call.fn = "strlen" /\ ret' = strlen(p)
  <2>1. ret' = Len(t)
    BY <1>1, <1>2, CallIs, StrlenIs
  <2>2. QED
    BY <1>2, <2>1 DEF StringsRight
<1>3. CASE call.fn = "strcmp" /\ ret' = strcmp(p, q)
  <2>1. (ret' = 0 <=> t = u) /\ (ret' < 0 <=> Precedes(t, u))
    BY <1>1, <1>3, CallIs, StrcmpOrders
  <2>2. QED
    BY <1>3, <2>1 DEF StringsRight, SameOrder
<1>4. CASE call.fn = "strchr" /\ ret' = strchr(p, call.n)
  <2>1. LeastIn({r \in p .. p + Len(t) : call.mem[r] = call.n}, ret')
    BY <1>1, <1>4, CallIs, StrchrIs
  <2>2. QED
    BY <1>4, <2>1 DEF StringsRight, Least, LeastIn
<1>5. CASE call.fn = "strstr" /\ ret' = strstr(p, q)
  <2>1. LeastIn({r \in p .. p + Len(t) - Len(u) : SubSeq(t, r - p + 1, r - p + Len(u)) = u}, ret')
    BY <1>1, <1>5, CallIs, StrstrIs
  <2>2. QED
    BY <1>5, <2>1 DEF StringsRight, Least, LeastIn
<1>6. CASE call.fn = "memcmp" /\ ret' = memcmp(p, q, call.n)
  <2>1. /\ ret' = 0 <=> Block(call.mem, p, call.n) = Block(call.mem, q, call.n)
        /\ ret' < 0 <=> Precedes(Block(call.mem, p, call.n), Block(call.mem, q, call.n))
    BY <1>1, <1>6, CallIs, MemcmpOrders
  <2>2. QED
    BY <1>6, <2>1 DEF StringsRight, SameOrder, Block
<1>7. CASE call.fn = "memchr" /\ ret' = memchr(p, q, call.n)
  <2>1. LeastIn({r \in p .. p + call.n - 1 : call.mem[r] = q}, ret')
    BY <1>1, <1>7, MemchrIs
  <2>2. QED
    BY <1>7, <2>1 DEF StringsRight, Least, LeastIn
<1>8. QED
  BY <1>2, <1>3, <1>4, <1>5, <1>6, <1>7

LEMMA WriteRight ==
  ASSUME call \in Calls, mem = call.mem, call' = call, ret' = call.dest,
         \/ call.fn = "strcat" /\ mem' = strcat(call.dest + strlen(call.dest), call.src)
         \/ call.fn = "strcpy" /\ mem' = strcat(call.dest, call.src)
  PROVE  StringsRight'
<1> DEFINE p == call.dest
           q == call.src
           t == IF call.fn = "strcat" THEN Text(call.mem, p) ELSE <<>>
           joined == t \o Text(call.mem, q)
<1>1. p \in Nat /\ q \in Nat /\ mem \in [Addresses -> 0 .. 127] /\ Terminated(mem, q)
  BY CallIs
<1>2. /\ t \in Seq(0 .. 127) /\ Fits(p + Len(t), Len(Text(mem, q)) + 1)
      /\ \A k \in 0 .. Len(t) - 1 : mem[p + k] = t[k + 1] /\ t[k + 1] # 0
      /\ mem' = strcat(p + Len(t), q)
  <2>1. CASE call.fn = "strcat"
    <3>1. Terminated(mem, p) /\ Fits(p + Len(t), Len(Text(mem, q)) + 1)
      BY <2>1, CallIs
    <3>2. /\ t \in Seq(0 .. 127) /\ Len(t) \in Nat
          /\ \A k \in 0 .. Len(t) - 1 : mem[p + k] # 0
          /\ \A k \in 1 .. Len(t) : t[k] = mem[p + k - 1]
      BY <1>1, <2>1, <3>1, TextIs
    <3>3. strlen(p) = Len(t)
      BY <1>1, <2>1, <3>1, StrlenIs
    <3>4. \A k \in 0 .. Len(t) - 1 : k + 1 \in 1 .. Len(t) /\ p + (k + 1) - 1 = p + k
      BY <1>1, <3>2
    <3> HIDE DEF t
    <3>5. \A k \in 0 .. Len(t) - 1 : mem[p + k] = t[k + 1] /\ t[k + 1] # 0
      BY <3>2, <3>4
    <3>6. QED
      BY <2>1, <3>1, <3>2, <3>3, <3>5
  <2>2. CASE call.fn = "strcpy"
    <3>1. t = <<>> /\ Len(t) = 0 /\ p + Len(t) = p
      BY <1>1, <2>2
    <3> HIDE DEF t
    <3>2. Fits(p, Len(Text(mem, q)) + 1) /\ mem' = strcat(p, q)
      BY <2>2, CallIs
    <3>3. t \in Seq(0 .. 127) /\ 0 .. Len(t) - 1 = {}
      BY <3>1
    <3>4. QED
      BY <3>1, <3>2, <3>3
  <2>3. QED
    BY <2>1, <2>2
<1>3. /\ Text(mem', p) = joined
      /\ \A r \in Addresses : r \notin p .. p + Len(joined) => mem'[r] = call.mem[r]
  <2> HIDE DEF t
  <2> DEFINE new == strcat(p + Len(t), q)
             cat == t \o Text(mem, q)
  <2>1. Text(new, p) = cat /\ \A r \in Addresses : r \notin p .. p + Len(cat) => new[r] = mem[r]
    BY <1>1, <1>2, CopyIs
  <2>2. mem' = new /\ cat = joined
    BY <1>2
  <2> HIDE DEF new, cat, joined
  <2>3. QED
    BY <2>1, <2>2
<1>4. CASE call.fn = "strcat"
  BY <1>3, <1>4 DEF StringsRight, Addresses
<1>5. CASE call.fn = "strcpy"
  <2>1. Text(call.mem, q) \in Seq(0 .. 127)
    BY <1>1, TextIs
  <2>2. joined = Text(call.mem, q)
    BY <1>5, <2>1
  <2> HIDE DEF joined
  <2>3. QED
    BY <1>3, <1>5, <2>2 DEF StringsRight, Addresses
<1>6. QED
  BY <1>4, <1>5

\* Each step keeps what is known of a string function.
LEMMA StringsStep == StringIInv /\ [Next]_vars => StringIInv'
<1> SUFFICES ASSUME StringIInv, [Next]_vars, call'.fn \notin {"memmove", "vsnprintf"}
             PROVE  StringIInv'
  BY DEF StringIInv
<1>1. call' = call
  BY DEF Next, StringNext, memmove, CopyForward, CopyBackward, Moved, Read, Write, Finished, vars,
         stringVars, PrintNext, literal, percent, percent_char, char_arg, end_of_fmt, zero_flag,
         width, long, number, too_long, pointer, string, other, finish, Convert, Goto
<1>2. /\ call.fn \notin {"memmove", "vsnprintf"}
      /\ call \in Calls /\ pc \in {"call", "done"} /\ (pc = "call" => mem = call.mem)
      /\ StringsRight
  BY <1>1 DEF StringIInv
<1>3. CASE UNCHANGED vars
  <2>1. pc' = pc /\ ret' = ret /\ mem' = mem
    BY <1>3 DEF vars, stringVars
  <2>2. StringsRight' <=> StringsRight
    BY <1>1, <2>1 DEF StringsRight, SameOrder, Least
  <2>3. QED
    BY <1>1, <1>2, <2>1, <2>2 DEF StringIInv
<1>4. ASSUME NEW fn, NEW value, Read(fn, value), StringsRight'
      PROVE  StringIInv'
  BY <1>1, <1>2, <1>4 DEF Read, StringIInv
<1>5. ASSUME NEW fn, NEW end, Write(fn, end), StringsRight'
      PROVE  StringIInv'
  BY <1>1, <1>2, <1>5 DEF Write, StringIInv
<1>6. CASE \/ Read("strlen", strlen(call.dest))
           \/ Read("strcmp", strcmp(call.dest, call.src))
           \/ Read("strchr", strchr(call.dest, call.n))
           \/ Read("strstr", strstr(call.dest, call.src))
           \/ Read("memcmp", memcmp(call.dest, call.src, call.n))
           \/ Read("memchr", memchr(call.dest, call.src, call.n))
  <2>1. StringsRight'
    BY <1>2, <1>6, ReadRight DEF Read
  <2>2. QED
    BY <1>4, <1>6, <2>1
<1>7. CASE \/ Write("strcat", call.dest + strlen(call.dest))
           \/ Write("strcpy", call.dest)
  <2>1. StringsRight'
    BY <1>2, <1>7, WriteRight DEF Write
  <2>2. QED
    BY <1>5, <1>7, <2>1
<1>8. CASE memmove \/ CopyForward \/ CopyBackward \/ Moved
  BY <1>2, <1>8 DEF memmove, CopyForward, CopyBackward, Moved
<1>9. CASE PrintNext
  BY <1>2, <1>9
  DEF PrintNext, literal, percent, percent_char, char_arg, end_of_fmt, zero_flag, width,
      long, number, too_long, pointer, string, other, finish
<1>10. QED
  BY <1>3, <1>6, <1>7, <1>8, <1>9 DEF Next, StringNext, Finished

\* For strings and blocks of any length, at any place in a memory of any size,
\* the string functions are what the C standard says of them.
THEOREM StringsAreRight == Spec => []StringsRight
<1>1. StringIInv => StringsRight
  BY DEF StringIInv, StringsRight
<1>2. QED
  BY <1>1, StringsInit, StringsStep, PTL DEF Spec
-----------------------------------------------------------------------------
(* What vsnprintf prints is made of characters.                            *)

\* What starts at 0 and goes on from each number up to l to the next, reaches l.
LEMMA Counting ==
  ASSUME NEW l \in Nat, NEW S, 0 \in S, \A i \in 1 .. l : i - 1 \in S => i \in S
  PROVE  0 .. l \subseteq S
<1> DEFINE Bad == {i \in 0 .. l : i \notin S}
<1>1. ASSUME Bad # {}
      PROVE  FALSE
  <2>1. Bad \subseteq Nat
    OBVIOUS
  <2>2. PICK i \in Bad : \A j \in Bad : i <= j
    <3> HIDE DEF Bad
    <3>1. QED
      BY <1>1, <2>1, LeastNumber
  <2>3. i # 0 /\ i \in 1 .. l /\ i - 1 \in 0 .. l
    OBVIOUS
  <2>4. i - 1 \in S
    BY <2>2, <2>3
  <2>5. QED
    BY <2>3, <2>4
<1>2. QED
  BY <1>1

\* A function defined by recursion on the numbers up to l.
Recurs(g, z, rec, l) == \A i \in 0 .. l : g[i] = IF i = 0 THEN z ELSE rec[i][g[i - 1]]

\* There is one.
LEMMA Recursion ==
  ASSUME NEW l \in Nat, NEW T, NEW z \in T, NEW rec \in [1 .. l -> [T -> T]]
  PROVE  \E g \in [0 .. l -> T] : Recurs(g, z, rec, l)
<1> DEFINE Good(m, g) == \A i \in 0 .. m : g[i] = IF i = 0 THEN z ELSE rec[i][g[i - 1]]
           S == {m \in 0 .. l : \E g \in [0 .. m -> T] : Good(m, g)}
<1>1. 0 \in S
  <2>1. [i \in 0 .. 0 |-> z] \in [0 .. 0 -> T] /\ Good(0, [i \in 0 .. 0 |-> z])
    OBVIOUS
  <2> HIDE DEF Good
  <2>2. \E g \in [0 .. 0 -> T] : Good(0, g)
    BY <2>1
  <2>3. QED
    BY <2>2
<1>2. ASSUME NEW m \in 1 .. l, m - 1 \in S
      PROVE  m \in S
  <2>1. PICK g \in [0 .. m - 1 -> T] : Good(m - 1, g)
    BY <1>2
  <2> DEFINE h == [i \in 0 .. m |-> IF i = m THEN rec[m][g[m - 1]] ELSE g[i]]
  <2>2. h \in [0 .. m -> T]
    OBVIOUS
  <2>3. ASSUME NEW i \in 0 .. m
        PROVE  h[i] = IF i = 0 THEN z ELSE rec[i][h[i - 1]]
    <3>1. CASE i = m
      BY <3>1
    <3>2. CASE i # m
      BY <2>1, <3>2
    <3>3. QED
      BY <3>1, <3>2
  <2>4. Good(m, h)
    BY <2>3
  <2> HIDE DEF Good, h
  <2>5. QED
    BY <2>2, <2>4
<1>3. 0 .. l \subseteq S
  <2> HIDE DEF S
  <2>1. QED
    BY <1>1, <1>2, Counting
<1>4. QED
  BY <1>3 DEF Recurs

\* Strings without their NUL.
Strings == Seq(Chars)

\* What vsnprintf may print itself.
LEMMA Known ==
  /\ {"NUL", " ", "0", "-", "%", "x"} \subseteq Chars
  /\ \A k \in 1 .. 16 : Digits[k] \in Chars
<1>1. {Digits[k] : k \in 1 .. 16} \subseteq Chars /\ {"NUL", " ", "-", "%", "x"} \subseteq Chars
  BY CharsAssumption
<1>2. Digits[1] = "0"
  BY DEF Digits
<1>3. \A k \in 1 .. 16 : Digits[k] \in Chars
  BY <1>1
<1>4. "0" \in Chars
  <2>1. 1 \in 1 .. 16
    OBVIOUS
  <2>2. QED
    BY <1>2, <1>3, <2>1
<1>5. QED
  BY <1>1, <1>3, <1>4

LEMMA OneCharacter ==
  ASSUME NEW c \in Chars
  PROVE  <<c>> \in Strings
BY DEF Strings

\* A part of a string is one, whatever it is a part of.
LEMMA FromIs ==
  ASSUME NEW str \in Strings, NEW k \in Nat \ {0}
  PROVE  From(str, k) \in Strings /\ At(str, k) \in Chars
<1>1. str \in [1 .. Len(str) -> Chars] /\ Len(str) \in Nat
  BY SequenceIsFunction DEF Strings
<1>2. From(str, k) \in Strings
  BY DEF From, Strings
<1>3. At(str, k) \in Chars
  <2>1. CASE k <= Len(str)
    <3>1. k \in 1 .. Len(str)
      BY <1>1, <2>1
    <3>2. QED
      BY <1>1, <2>1, <3>1 DEF At
  <2>2. CASE ~(k <= Len(str))
    BY <2>2, Known DEF At
  <2>3. QED
    BY <2>1, <2>2
<1>4. QED
  BY <1>2, <1>3

\* No padding is an empty string, and so is a negative one.
LEMMA RepeatIs ==
  ASSUME NEW c \in Chars, NEW num \in Int
  PROVE  Repeat(c, num) \in Strings
<1>1. CASE num >= 0
  <2>1. [k \in 1 .. num |-> c] \in [1 .. num -> Chars] /\ num \in Nat
    BY <1>1
  <2>2. QED
    BY <2>1, FunctionIsSequence DEF Repeat, Strings
<1>2. CASE num < 0
  <2>1. 1 .. num = 1 .. 0
    BY <1>2
  <2>2. [k \in 1 .. 0 |-> c] \in [1 .. 0 -> Chars] /\ 0 \in Nat
    OBVIOUS
  <2>3. [k \in 1 .. 0 |-> c] \in Strings
    BY <2>2, FunctionIsSequence DEF Strings
  <2>4. QED
    BY <2>1, <2>3 DEF Repeat
<1>3. QED
  BY <1>1, <1>2

LEMMA PaddedIs ==
  ASSUME NEW str \in Strings, props \in [pad : Chars, npad : Int]
  PROVE  Padded(str) \in Strings
<1>1. Len(str) \in Nat /\ props.pad \in Chars /\ props.npad \in Int
  BY DEF Strings
<1>2. Repeat(props.pad, IF props.npad > 0 THEN props.npad - Len(str) ELSE 0) \in Strings
  BY <1>1, RepeatIs
<1>3. Repeat(" ", -PadRight(props.npad, Len(str))) \in Strings
  <2>1. -PadRight(props.npad, Len(str)) \in Int
    BY <1>1 DEF PadRight
  <2>2. QED
    BY <2>1, RepeatIs, Known
<1>4. QED
  <2> DEFINE before == Repeat(props.pad, IF props.npad > 0 THEN props.npad - Len(str) ELSE 0)
             behind == Repeat(" ", -PadRight(props.npad, Len(str)))
  <2>1. before \in Seq(Chars) /\ str \in Seq(Chars) /\ behind \in Seq(Chars)
    BY <1>2, <1>3 DEF Strings
  <2>2. Padded(str) = before \o str \o behind
    BY DEF Padded
  <2> HIDE DEF before, behind
  <2>3. QED
    BY <2>1, <2>2 DEF Strings

\* The number that is left shrinks with each turn, so that there is a last digit.
LEMMA ReversedIs ==
  ASSUME NEW num \in Nat, NEW base \in {10, 16}
  PROVE  Reversed(num, base) \in Strings
<1> DEFINE Is(h) == h = [k \in 0 .. num |-> IF k = 0 THEN num ELSE h[k - 1] \div base]
           left == CHOOSE h : Is(h)
           len == CHOOSE q \in 0 .. num : left[q] = 0 /\ \A r \in 0 .. q - 1 : ~(left[r] = 0)
           rec == [k \in 1 .. num |-> [x \in Nat |-> x \div base]]
<1>1. Reversed(num, base) = [k \in 1 .. len |-> Digits[(left[k - 1] % base) + 1]]
  BY DEF Reversed, First
<1>2. \A x \in Nat : x \div base \in Nat /\ (x # 0 => x \div base <= x - 1) /\ (x = 0 => x \div base = 0)
  OBVIOUS
<1>3. rec \in [1 .. num -> [Nat -> Nat]]
  BY <1>2
<1>4. \A k \in 1 .. num : \A x \in Nat : rec[k][x] = x \div base
  OBVIOUS
<1> HIDE DEF rec
<1>5. PICK g \in [0 .. num -> Nat] : Recurs(g, num, rec, num)
  BY <1>3, Recursion
<1>6. Is(g)
  <2>1. \A k \in 0 .. num : g[k] = IF k = 0 THEN num ELSE g[k - 1] \div base
    <3> SUFFICES ASSUME NEW k \in 0 .. num
                 PROVE  g[k] = IF k = 0 THEN num ELSE g[k - 1] \div base
      OBVIOUS
    <3>1. k # 0 => k \in 1 .. num /\ k - 1 \in 0 .. num
      OBVIOUS
    <3>2. QED
      BY <1>4, <1>5, <3>1 DEF Recurs
  <2>2. g = [k \in 0 .. num |-> g[k]]
    OBVIOUS
  <2>3. QED
    BY <2>1, <2>2
<1>7. Is(left)
  <2> HIDE DEF Is
  <2>1. QED
    BY <1>6
<1>8. \A k \in 0 .. num : left[k] = IF k = 0 THEN num ELSE left[k - 1] \div base
  <2> HIDE DEF left
  <2>1. QED
    BY <1>7
<1> HIDE DEF Is, left
<1> DEFINE S == {k \in 0 .. num : left[k] \in Nat /\ left[k] <= num - k}
<1>9. 0 .. num \subseteq S
  <2>1. 0 \in S
    BY <1>8
  <2>2. ASSUME NEW k \in 1 .. num, k - 1 \in S
        PROVE  k \in S
    <3>1. left[k - 1] \in Nat /\ left[k - 1] <= num - (k - 1) /\ left[k] = left[k - 1] \div base
      BY <1>8, <2>2
    <3>2. left[k] \in Nat /\ (left[k - 1] # 0 => left[k] <= left[k - 1] - 1)
                          /\ (left[k - 1] = 0 => left[k] = 0)
      BY <1>2, <3>1
    <3>3. PICK x, y : x = left[k - 1] /\ y = left[k]
      OBVIOUS
    <3>4. /\ x \in Nat /\ x <= num - (k - 1) /\ y \in Nat
          /\ (x # 0 => y <= x - 1) /\ (x = 0 => y = 0)
      BY <3>1, <3>2, <3>3
    <3> HIDE DEF S
    <3>5. k \in 0 .. num /\ y <= num - k
      BY <3>4
    <3>6. QED
      BY <3>3, <3>4, <3>5 DEF S
  <2> HIDE DEF S
  <2>3. QED
    BY <2>1, <2>2, Counting
<1>10. \A k \in 0 .. num : left[k] \in Nat /\ left[k] <= num - k
  BY <1>9
<1>11. left[num] = 0
  BY <1>10
<1>12. \E q \in 0 .. num : left[q] = 0 /\ \A r \in 0 .. q - 1 : ~(left[r] = 0)
  <2> DEFINE Stops == {k \in 0 .. num : left[k] = 0}
  <2>1. num \in Stops /\ num \in 0 .. num /\ 0 \in Nat
    BY <1>11
  <2>2. PICK q \in 0 .. num : q \in Stops /\ \A r \in 0 .. q - 1 : r \notin Stops
    <3> HIDE DEF Stops
    <3>1. QED
      BY <2>1, FirstOf
  <2>3. \A r \in 0 .. q - 1 : r \in 0 .. num
    OBVIOUS
  <2>4. QED
    BY <2>2, <2>3
<1>13. len \in 0 .. num
  BY <1>12
<1> HIDE DEF len
<1>14. \A k \in 1 .. len : Digits[(left[k - 1] % base) + 1] \in Chars
  <2> SUFFICES ASSUME NEW k \in 1 .. len
               PROVE  Digits[(left[k - 1] % base) + 1] \in Chars
    OBVIOUS
  <2>1. left[k - 1] \in Nat
    BY <1>10, <1>13
  <2>2. \A x \in Nat : (x % base) + 1 \in 1 .. 16
    OBVIOUS
  <2>3. QED
    BY <2>1, <2>2, Known
<1>15. Reversed(num, base) \in [1 .. len -> Chars] /\ len \in Nat
  BY <1>1, <1>13, <1>14
<1>16. QED
  BY <1>15, FunctionIsSequence DEF Strings

LEMMA ReverseIs ==
  ASSUME NEW str \in Strings
  PROVE  Reverse(str) \in Strings
<1>1. str \in [1 .. Len(str) -> Chars] /\ Len(str) \in Nat
  BY SequenceIsFunction DEF Strings
<1>2. \A i \in 1 .. Len(str) : (Len(str) - i) + 1 \in 1 .. Len(str)
  BY <1>1
<1>3. Reverse(str) \in [1 .. Len(str) -> Chars]
  BY <1>1, <1>2 DEF Reverse
<1>4. QED
  BY <1>1, <1>3, FunctionIsSequence DEF Strings

LEMMA NumeralIs ==
  ASSUME NEW num, NEW base \in {10, 16}
  PROVE  /\ num \in Nat => Unsigned(num, base) \in Strings
         /\ num \in Int => Signed(num, base) \in Strings
<1>1. ASSUME num \in Nat
      PROVE  Unsigned(num, base) \in Strings
  <2>1. <<"0">> \in Strings
    BY Known, OneCharacter
  <2>2. QED
    BY <1>1, <2>1, ReversedIs, ReverseIs DEF Unsigned
<1>2. ASSUME num \in Int, num < 0
      PROVE  Signed(num, base) \in Strings
  <2>1. Reversed(-num, base) \in Strings
    BY <1>2, ReversedIs
  <2>2. Append(Reversed(-num, base), "-") \in Strings
    <3>1. "-" \in Chars
      BY Known
    <3> DEFINE str == Reversed(-num, base)
    <3>2. str \in Seq(Chars)
      BY <2>1 DEF Strings
    <3> HIDE DEF str
    <3>3. Append(str, "-") \in Seq(Chars)
      BY <3>1, <3>2
    <3>4. QED
      BY <3>3 DEF str, Strings
  <2>3. QED
    BY <1>2, <2>2, ReverseIs DEF Signed
<1>3. QED
  BY <1>1, <1>2 DEF Signed

\* The characters of str up to k - 1 are none that the loop stops at, and k is a
\* place in str or the one behind it.
StopsBehind(str, k, Set) ==
  /\ k \in Nat \ {0} /\ k <= Len(str) + 1
  /\ \A j \in 1 .. k - 1 : str[j] \in Set
  /\ k <= Len(str) => str[k] \notin Set

\* A loop over a string stops at the NUL, if not before.
LEMMA SelectIs ==
  ASSUME NEW str \in Strings, NEW Set, "NUL" \notin Set
  PROVE  StopsBehind(str, SelectInSeq(str \o <<"NUL">>, LAMBDA c : c \notin Set), Set)
<1> DEFINE all == str \o <<"NUL">>
           I == {i \in 1 .. Len(all) : all[i] \notin Set}
           k == CHOOSE x \in I : \A y \in I : x =< y
<1>1. /\ Len(str) \in Nat /\ Len(all) = Len(str) + 1
      /\ \A j \in 1 .. Len(str) : all[j] = str[j]
      /\ all[Len(str) + 1] = "NUL"
  <2>1. str \in Seq(Chars) /\ <<"NUL">> \in Seq(Chars) /\ Len(<<"NUL">>) = 1
    BY Known, OneCharacter DEF Strings
  <2>2. <<"NUL">>[1] = "NUL"
    OBVIOUS
  <2>3. QED
    BY <2>1, <2>2
<1> HIDE DEF all
<1>2. Len(str) + 1 \in I /\ I \subseteq Nat
  BY <1>1
<1>3. SelectInSeq(all, LAMBDA c : c \notin Set) = k
  BY <1>2 DEF SelectInSeq, Min
<1>4. \E x \in I : \A y \in I : x =< y
  <2> HIDE DEF I
  <2>1. QED
    BY <1>2, LeastNumber
<1>5. k \in I /\ \A y \in I : k =< y
  BY <1>4
<1> HIDE DEF k
<1>6. k \in Nat \ {0} /\ k <= Len(str) + 1
  BY <1>1, <1>5
<1>7. \A j \in 1 .. k - 1 : str[j] \in Set
  <2> SUFFICES ASSUME NEW j \in 1 .. k - 1
               PROVE  str[j] \in Set
    OBVIOUS
  <2>1. j \in 1 .. Len(all) /\ j \in 1 .. Len(str) /\ ~(k =< j)
    BY <1>1, <1>6
  <2>2. j \notin I
    BY <1>5, <2>1
  <2>3. QED
    BY <1>1, <2>1, <2>2
<1>8. k <= Len(str) => str[k] \notin Set
  BY <1>1, <1>5, <1>6
<1>9. QED
  BY <1>3, <1>6, <1>7, <1>8 DEF StopsBehind, all

\* A digit has a value.
LEMMA DigitIs ==
  ASSUME NEW c \in DecimalDigit
  PROVE  DigitValue(c) \in 0 .. 15
<1>1. PICK k \in 1 .. 10 : c = Digits[k]
  BY DEF DecimalDigit
<1>2. k - 1 \in 0 .. 15 /\ (k - 1) + 1 = k
  OBVIOUS
<1>3. \E j \in 0 .. 15 : Digits[j + 1] = c
  BY <1>1, <1>2
<1>4. QED
  BY <1>3 DEF DigitValue

LEMMA NoDigits == "NUL" \notin DecimalDigit
BY DEF DecimalDigit, Digits

\* atol's result is a number, whatever it is given.
LEMMA AtolIs ==
  ASSUME NEW str \in Strings
  PROVE  atol(str) \in Int
<1> DEFINE blank  == SelectInSeq(str \o <<"NUL">>, LAMBDA c : c \notin {" ", "\t"})
           signed == At(str, blank) \in {"-", "+"}
           start  == IF signed THEN blank + 1 ELSE blank
           rest   == From(str, start)
           len    == SelectInSeq(rest \o <<"NUL">>, LAMBDA c : c \notin DecimalDigit) - 1
           Is(h)  == h = [k \in 0 .. len |->
                            IF k = 0 THEN 0 ELSE h[k - 1] * 10 + DigitValue(rest[k])]
           acc    == CHOOSE h : Is(h)
           rec    == [k \in 1 .. len |-> [x \in Int |-> x * 10 + DigitValue(rest[k])]]
<1>1. atol(str) = IF At(str, blank) = "-" THEN -acc[len] ELSE acc[len]
  BY DEF atol
<1>2. blank \in Nat \ {0}
  <2>1. "NUL" \notin {" ", "\t"} /\ Len(str) \in Nat
    BY DEF Strings
  <2>2. StopsBehind(str, blank, {" ", "\t"})
    BY <2>1, SelectIs
  <2> HIDE DEF blank
  <2>3. QED
    BY <2>1, <2>2 DEF StopsBehind
<1> HIDE DEF blank
<1>3. rest \in Strings
  <2>1. start \in Nat \ {0}
    BY <1>2
  <2> HIDE DEF start
  <2>2. QED
    BY <2>1, FromIs
<1> HIDE DEF rest
<1>4. len \in Nat /\ \A k \in 1 .. len : DigitValue(rest[k]) \in 0 .. 15
  <2>1. StopsBehind(rest, len + 1, DecimalDigit)
    <3> DEFINE sel == SelectInSeq(rest \o <<"NUL">>, LAMBDA c : c \notin DecimalDigit)
    <3>1. StopsBehind(rest, sel, DecimalDigit)
      BY <1>3, NoDigits, SelectIs
    <3>2. len = sel - 1
      OBVIOUS
    <3> HIDE DEF sel, len
    <3>3. sel \in Int
      BY <3>1 DEF StopsBehind
    <3>4. len + 1 = sel
      BY <3>2, <3>3
    <3>5. QED
      BY <3>1, <3>4
  <2>2. Len(rest) \in Nat
    BY <1>3 DEF Strings
  <2>3. len \in Nat
    <3> DEFINE sel == SelectInSeq(rest \o <<"NUL">>, LAMBDA c : c \notin DecimalDigit)
    <3>1. StopsBehind(rest, sel, DecimalDigit)
      BY <1>3, NoDigits, SelectIs
    <3> HIDE DEF sel
    <3>2. sel - 1 \in Nat
      BY <3>1 DEF StopsBehind
    <3>3. QED
      BY <3>2 DEF sel
  <2> HIDE DEF len
  <2>4. len \in Nat /\ \A k \in 1 .. len : k \in 1 .. (len + 1) - 1
    BY <2>1, <2>2, <2>3 DEF StopsBehind
  <2>5. QED
    BY <2>1, <2>4, DigitIs DEF StopsBehind
<1> HIDE DEF len
<1>5. rec \in [1 .. len -> [Int -> Int]]
  <2>1. \A k \in 1 .. len : \A x \in Int : x * 10 + DigitValue(rest[k]) \in Int
    BY <1>4
  <2>2. QED
    BY <2>1
<1>6. \A k \in 1 .. len : \A x \in Int : rec[k][x] = x * 10 + DigitValue(rest[k])
  OBVIOUS
<1> HIDE DEF rec
<1>7. PICK g \in [0 .. len -> Int] : Recurs(g, 0, rec, len)
  <2>1. 0 \in Int
    OBVIOUS
  <2>2. QED
    BY <1>4, <1>5, <2>1, Recursion
<1>8. Is(g)
  <2>1. \A k \in 0 .. len : g[k] = IF k = 0 THEN 0 ELSE g[k - 1] * 10 + DigitValue(rest[k])
    <3> SUFFICES ASSUME NEW k \in 0 .. len
                 PROVE  g[k] = IF k = 0 THEN 0 ELSE g[k - 1] * 10 + DigitValue(rest[k])
      OBVIOUS
    <3>1. k # 0 => k \in 1 .. len /\ k - 1 \in 0 .. len
      BY <1>4
    <3>2. k # 0 => g[k - 1] \in Int /\ g[k] = rec[k][g[k - 1]]
      BY <1>7, <3>1 DEF Recurs
    <3>3. QED
      BY <1>6, <1>7, <3>1, <3>2 DEF Recurs
  <2>2. g = [k \in 0 .. len |-> g[k]]
    OBVIOUS
  <2>3. QED
    BY <2>1, <2>2
<1>9. Is(acc)
  <2> HIDE DEF Is
  <2>1. QED
    BY <1>8
<1>10. \A k \in 0 .. len : acc[k] = IF k = 0 THEN 0 ELSE acc[k - 1] * 10 + DigitValue(rest[k])
  <2> HIDE DEF acc
  <2>1. QED
    BY <1>9
<1> HIDE DEF Is, acc
<1> DEFINE S == {k \in 0 .. len : acc[k] \in Int}
<1>11. 0 .. len \subseteq S
  <2>1. 0 \in S
    BY <1>4, <1>10
  <2>2. ASSUME NEW k \in 1 .. len, k - 1 \in S
        PROVE  k \in S
    <3>1. k \in 0 .. len /\ k # 0 /\ acc[k - 1] \in Int
      BY <1>4, <2>2
    <3>2. DigitValue(rest[k]) \in 0 .. 15
      BY <1>4
    <3>3. acc[k] = acc[k - 1] * 10 + DigitValue(rest[k])
      BY <1>10, <3>1
    <3>4. \A v \in 0 .. 15 : acc[k - 1] * 10 + v \in Int
      BY <3>1
    <3>5. QED
      BY <3>1, <3>2, <3>3, <3>4
  <2> HIDE DEF S
  <2>3. QED
    BY <1>4, <2>1, <2>2, Counting
<1>12. acc[len] \in Int
  BY <1>4, <1>11
<1>13. QED
  BY <1>1, <1>12

\* A width takes some characters.
LEMMA WidthLenIs ==
  ASSUME NEW str \in Strings
  PROVE  WidthLen(str) \in Nat
<1> DEFINE start == IF At(str, 1) = "-" THEN 2 ELSE 1
           rest == From(str, start)
           sel == SelectInSeq(rest \o <<"NUL">>, LAMBDA c : c \notin DecimalDigit)
<1>1. WidthLen(str) = start - 2 + sel
  BY DEF WidthLen
<1>2. rest \in Strings
  BY FromIs
<1> HIDE DEF rest
<1>3. StopsBehind(rest, sel, DecimalDigit)
  BY <1>2, NoDigits, SelectIs
<1> HIDE DEF sel
<1>4. sel \in Nat \ {0}
  BY <1>2, <1>3 DEF StopsBehind, Strings
<1>5. QED
  BY <1>1, <1>4

\* Strings put together are a string.
LEMMA FlattenIs ==
  ASSUME NEW l \in Nat, NEW t \in [1 .. l -> Strings]
  PROVE  FlattenSeq(t) \in Strings
<1>1. Len(t) = l
  BY FunctionIsSequence
<1>2. CASE l = 0
  <2>1. t \in [1 .. 0 -> Chars] /\ 0 \in Nat
    BY <1>2
  <2>2. t \in Strings
    BY <2>1, FunctionIsSequence DEF Strings
  <2>3. QED
    BY <1>1, <1>2, <2>2 DEF FlattenSeq
<1>3. CASE l # 0
  <2> DEFINE Is(h) == h = [i \in 1 .. l |-> IF i = 1 THEN t[i] ELSE h[i - 1] \o t[i]]
             all == CHOOSE h : Is(h)
             rec == [k \in 1 .. l |-> [x \in Strings |-> IF k = 1 THEN t[k] ELSE x \o t[k]]]
  <2>1. FlattenSeq(t) = all[l]
    BY <1>1, <1>3 DEF FlattenSeq
  <2>2. \A k \in 1 .. l : \A x \in Strings : x \o t[k] \in Strings
    <3> SUFFICES ASSUME NEW k \in 1 .. l, NEW x \in Strings
                 PROVE  x \o t[k] \in Strings
      OBVIOUS
    <3>1. x \in Seq(Chars) /\ t[k] \in Seq(Chars)
      BY DEF Strings
    <3>2. QED
      BY <3>1 DEF Strings
  <2>3. rec \in [1 .. l -> [Strings -> Strings]]
    BY <2>2
  <2>4. \A k \in 1 .. l : \A x \in Strings : rec[k][x] = IF k = 1 THEN t[k] ELSE x \o t[k]
    OBVIOUS
  <2>5. 1 \in 1 .. l /\ t[1] \in Strings
    BY <1>3
  <2> HIDE DEF rec
  <2>6. PICK g \in [0 .. l -> Strings] : Recurs(g, t[1], rec, l)
    BY <2>3, <2>5, Recursion
  <2> DEFINE h == [i \in 1 .. l |-> g[i]]
  <2>7. ASSUME NEW i \in 1 .. l
        PROVE  h[i] = IF i = 1 THEN t[i] ELSE h[i - 1] \o t[i]
    <3>1. i \in 0 .. l /\ i # 0 /\ i - 1 \in 0 .. l /\ (i # 1 => i - 1 \in 1 .. l)
      OBVIOUS
    <3>2. g[i - 1] \in Strings /\ g[i] = rec[i][g[i - 1]]
      BY <2>6, <3>1 DEF Recurs
    <3>3. g[i] = IF i = 1 THEN t[i] ELSE g[i - 1] \o t[i]
      BY <2>4, <3>2
    <3>4. QED
      BY <3>1, <3>3
  <2>8. Is(h)
    <3>1. h = [i \in 1 .. l |-> h[i]]
      OBVIOUS
    <3> HIDE DEF h
    <3>2. QED
      BY <2>7, <3>1
  <2>9. Is(all)
    <3> HIDE DEF Is, h
    <3>1. QED
      BY <2>8
  <2>10. \A i \in 1 .. l : all[i] = IF i = 1 THEN t[i] ELSE all[i - 1] \o t[i]
    <3> HIDE DEF all
    <3>1. QED
      BY <2>9
  <2> HIDE DEF all, Is
  <2> DEFINE S == {i \in 0 .. l : i # 0 => all[i] \in Strings}
  <2>11. 0 .. l \subseteq S
    <3>1. 0 \in S
      OBVIOUS
    <3>2. ASSUME NEW i \in 1 .. l, i - 1 \in S
          PROVE  i \in S
      <4>1. CASE i = 1
        BY <2>5, <2>10, <4>1
      <4>2. CASE i # 1
        <5>1. i - 1 # 0 /\ i \in 0 .. l
          BY <4>2
        <5>2. all[i - 1] \in Strings
          BY <3>2, <5>1
        <5>3. all[i] = all[i - 1] \o t[i]
          BY <2>10, <4>2
        <5>4. all[i] \in Strings
          BY <2>2, <5>2, <5>3
        <5>5. QED
          BY <5>1, <5>4
      <4>3. QED
        BY <4>1, <4>2
    <3> HIDE DEF S
    <3>3. QED
      BY <3>1, <3>2, Counting
  <2>12. all[l] \in Strings
    BY <1>3, <2>11
  <2>13. QED
    BY <2>1, <2>12
<1>4. QED
  BY <1>2, <1>3

-----------------------------------------------------------------------------
(* The buffer of vsnprintf.                                                *)

\* What is stored and what is left make up the buffer but for the NUL; while there
\* is room, all that is counted is stored.
Stream ==
  /\ call.size \in Nat \ {0}
  /\ buffer \in Strings /\ remain \in Nat /\ added \in Nat
  /\ Len(buffer) + remain = call.size - 1
  /\ Len(buffer) <= added
  /\ remain > 0 => added = Len(buffer)

\* The NUL is stored behind it, in the place kept for it.
Closed ==
  /\ call.size \in Nat \ {0} /\ added \in Nat
  /\ Len(buffer) = IF added < call.size THEN added ELSE call.size
  /\ buffer[Len(buffer)] = "NUL"

\* The format and the directive that is read consist of characters.
Reading ==
  /\ fmt \in Strings /\ f \in Chars
  /\ props \in [pad : Chars, npad : Int]

PrintIInv ==
  call.fn = "vsnprintf" =>
    /\ pc \in {"loop", "morefmt", "panic", "done"}
    /\ IF pc = "done" THEN Closed ELSE Stream /\ Reading

LEMMA DefaultProps == [pad |-> " ", npad |-> 0] \in [pad : Chars, npad : Int]
<1>1. " " \in Chars
  BY Known
<1>2. \A blank \in Chars : [pad |-> blank, npad |-> 0] \in [pad : Chars, npad : Int]
  OBVIOUS
<1>3. QED
  BY <1>1, <1>2, Zenon

LEMMA PrintStarts == Init => PrintIInv
<1> SUFFICES ASSUME Init, call.fn = "vsnprintf"
             PROVE  PrintIInv
  BY DEF PrintIInv
<1>1. ~StringInit
  BY CallsAssumption DEF StringInit
<1>2. /\ call \in Prints /\ remain = call.size - 1 /\ pc = "loop"
      /\ fmt = FlattenSeq([k \in DOMAIN call.directives |-> call.directives[k].text])
      /\ f = "NUL" /\ buffer = <<>> /\ added = 0
      /\ props = [pad |-> " ", npad |-> 0]
  BY <1>1 DEF Init, PrintInit
<1>3. PICK l : l = Len(call.directives)
  OBVIOUS
<1>4. /\ call.size \in Nat \ {0} /\ l \in Nat /\ DOMAIN call.directives = 1 .. l
      /\ \A k \in 1 .. l : call.directives[k].text \in Strings
  BY <1>2, <1>3, PrintsAssumption DEF Strings
<1>5. fmt \in Strings
  <2> DEFINE t == [k \in 1 .. l |-> call.directives[k].text]
  <2>1. t \in [1 .. l -> Strings]
    BY <1>4
  <2>2. fmt = FlattenSeq(t)
    BY <1>2, <1>4
  <2> HIDE DEF t
  <2>3. QED
    BY <1>4, <2>1, <2>2, FlattenIs
<1>6. Reading
  <2>1. f \in Chars
    BY <1>2, Known
  <2>2. QED
    BY <1>2, <1>5, <2>1, DefaultProps DEF Reading
<1>7. Stream
  <2>1. buffer \in Strings /\ Len(buffer) = 0
    <3>1. <<>> \in Seq(Chars) /\ Len(<<>>) = 0
      OBVIOUS
    <3>2. QED
      BY <1>2, <3>1 DEF Strings
  <2>2. call.size - 1 \in Nat
    BY <1>4
  <2>3. remain = call.size - 1 /\ added = 0
    BY <1>2
  <2>4. Len(buffer) + remain = call.size - 1 /\ Len(buffer) <= added /\ added = Len(buffer)
    BY <2>1, <2>2, <2>3
  <2>5. QED
    BY <1>4, <2>1, <2>2, <2>3, <2>4 DEF Stream
<1>8. QED
  BY <1>2, <1>6, <1>7 DEF PrintIInv

\* Whatever is printed, the stream stays as it should.
LEMMA StreamKept ==
  ASSUME Stream, NEW str \in Strings, AddChars(str), call' = call
  PROVE  Stream'
<1> DEFINE stored == IF Len(str) < remain THEN Len(str) ELSE remain
           part == SubSeq(str, 1, stored)
<1>1. Len(str) \in Nat /\ Len(buffer) \in Nat /\ remain \in Nat /\ added \in Nat /\ call.size \in Nat
  BY DEF Stream, Strings
<1>2. stored \in Nat /\ stored <= Len(str) /\ stored <= remain
  BY <1>1
<1>3. part \in Strings /\ Len(part) = stored
  <2> HIDE DEF stored
  <2>1. str \in Seq(Chars)
    BY DEF Strings
  <2>2. part \in Seq(Chars) /\ Len(part) = stored
    BY <1>1, <1>2, <2>1
  <2>3. QED
    BY <2>2 DEF Strings
<1>4. /\ buffer' = buffer \o part
      /\ remain' = IF Len(str) < remain THEN remain - Len(str) ELSE 0
      /\ added' = added + Len(str)
  BY DEF AddChars
<1>5. remain' = remain - stored
  BY <1>1, <1>4
<1> HIDE DEF part
<1>6. buffer' \in Strings /\ Len(buffer') = Len(buffer) + stored
  <2>1. buffer \in Seq(Chars) /\ part \in Seq(Chars)
    BY <1>3 DEF Stream, Strings
  <2>2. buffer' \in Seq(Chars) /\ Len(buffer') = Len(buffer) + Len(part)
    BY <1>4, <2>1
  <2>3. QED
    BY <1>3, <2>2 DEF Strings
<1>7. remain' > 0 => stored = Len(str) /\ remain > 0
  BY <1>1, <1>4
<1>8. /\ Len(buffer) + remain = call.size - 1 /\ Len(buffer) <= added
      /\ (remain > 0 => added = Len(buffer)) /\ call.size \in Nat \ {0}
  BY DEF Stream
<1> HIDE DEF stored
<1>9. /\ remain' \in Nat /\ added' \in Nat
      /\ Len(buffer') + remain' = call.size - 1
      /\ Len(buffer') <= added'
      /\ remain' > 0 => added' = Len(buffer')
  <2>1. remain' \in Nat
    BY <1>1, <1>2, <1>5
  <2>2. added' \in Nat
    BY <1>1, <1>4
  <2>3. Len(buffer') + remain' = call.size - 1
    BY <1>1, <1>2, <1>5, <1>6, <1>8
  <2>4. Len(buffer') <= added'
    BY <1>1, <1>2, <1>4, <1>6, <1>8
  <2>5. ASSUME remain' > 0 PROVE added' = Len(buffer')
    BY <1>1, <1>4, <1>6, <1>7, <1>8, <2>5
  <2>6. QED
    BY <2>1, <2>2, <2>3, <2>4, <2>5
<1>10. QED
  BY <1>6, <1>8, <1>9 DEF Stream

\* Each step of vsnprintf keeps it.
LEMMA PrintStep == PrintIInv /\ [Next]_vars => PrintIInv'
<1> SUFFICES ASSUME PrintIInv, [Next]_vars, call'.fn = "vsnprintf"
             PROVE  PrintIInv'
  BY DEF PrintIInv
<1>1. call' = call
  BY DEF Next, StringNext, memmove, CopyForward, CopyBackward, Moved, Read, Write, Finished, vars,
         stringVars, PrintNext, literal, percent, percent_char, char_arg, end_of_fmt, zero_flag,
         width, long, number, too_long, pointer, string, other, finish, Convert, Goto
<1>2. /\ pc \in {"loop", "morefmt", "panic", "done"}
      /\ IF pc = "done" THEN Closed ELSE Stream /\ Reading
      /\ call.fn = "vsnprintf"
  BY <1>1 DEF PrintIInv
<1>3. CASE UNCHANGED vars
  BY <1>1, <1>2, <1>3 DEF vars, stringVars, printfVars, PrintIInv, Stream, Closed, Reading
<1>4. CASE StringNext
  BY <1>2, <1>4 DEF StringNext, memmove, CopyForward, CopyBackward, Moved, Read, Write
<1>5. ASSUME NEW str \in Strings, NEW taken, pc = "morefmt", Convert(str, taken)
      PROVE  PrintIInv'
  <2>1. Stream /\ Reading
    BY <1>2, <1>5
  <2>2. Stream'
    BY <1>1, <1>5, <2>1, StreamKept DEF Convert
  <2>3. pc' = "loop" /\ Reading'
    BY <1>5, <2>1 DEF Convert, Goto, Reading
  <2>4. QED
    BY <2>2, <2>3 DEF PrintIInv
<1>6. CASE literal
  <2>1. Stream /\ Reading /\ fmt # <<>>
    BY <1>2, <1>6 DEF literal
  <2>2. /\ AddChars(<<Head(fmt)>>) /\ fmt' = Tail(fmt) /\ pc' = "loop"
        /\ f' = f /\ props' = props
    BY <1>6 DEF literal, stringVars
  <2>3. Head(fmt) \in Chars /\ Tail(fmt) \in Strings
    BY <2>1 DEF Reading, Strings
  <2>4. Stream'
    BY <1>1, <2>1, <2>2, <2>3, OneCharacter, StreamKept
  <2>5. QED
    BY <2>1, <2>2, <2>3, <2>4 DEF PrintIInv, Reading
<1>7. CASE percent
  <2>1. Stream /\ Reading
    BY <1>2, <1>7 DEF percent
  <2>2. /\ f' = At(fmt, 2) /\ fmt' = From(fmt, 3) /\ props' = [pad |-> " ", npad |-> 0]
        /\ pc' = "morefmt" /\ buffer' = buffer /\ remain' = remain /\ added' = added
    BY <1>7 DEF percent, Goto
  <2>3. Stream'
    BY <1>1, <2>1, <2>2 DEF Stream
  <2>4. At(fmt, 2) \in Chars /\ From(fmt, 3) \in Strings
    BY <2>1, FromIs DEF Reading
  <2>5. Reading'
    BY <2>2, <2>4, DefaultProps DEF Reading
  <2>6. QED
    BY <2>2, <2>3, <2>5 DEF PrintIInv
<1>8. CASE percent_char \/ char_arg \/ end_of_fmt \/ other
  <2>1. pc = "morefmt" /\ f \in Chars
    BY <1>2, <1>8 DEF percent_char, char_arg, end_of_fmt, other, Reading
  <2>2. CASE percent_char
    BY <1>5, <2>1, <2>2, Known, OneCharacter DEF percent_char
  <2>3. CASE char_arg
    BY <1>5, <2>1, <2>3, OneCharacter DEF char_arg, Passed
  <2>4. CASE end_of_fmt
    <3>1. <<>> \in Strings
      BY DEF Strings
    <3>2. QED
      BY <1>5, <2>1, <2>4, <3>1 DEF end_of_fmt
  <2>5. CASE other
    BY <1>5, <2>1, <2>5, OneCharacter DEF other
  <2>6. QED
    BY <1>8, <2>2, <2>3, <2>4, <2>5
<1>9. CASE zero_flag
  <2>1. Stream /\ Reading /\ fmt # <<>>
    BY <1>2, <1>9 DEF zero_flag
  <2>2. /\ AddChars(<<f>>) /\ fmt' = Tail(fmt) /\ props' = [props EXCEPT !.pad = "0"]
        /\ pc' = "loop" /\ f' = f
    BY <1>9 DEF zero_flag, Goto
  <2>3. Stream'
    BY <1>1, <2>1, <2>2, OneCharacter, StreamKept DEF Reading
  <2>4. Tail(fmt) \in Strings
    BY <2>1 DEF Reading, Strings
  <2>5. Reading'
    BY <2>1, <2>2, <2>4, Known DEF Reading
  <2>6. QED
    BY <2>2, <2>3, <2>5 DEF PrintIInv
<1>10. CASE width
  <2> DEFINE str == <<f>> \o fmt
  <2>1. Stream /\ Reading
    BY <1>2, <1>10 DEF width
  <2>2. /\ f' = At(str, WidthLen(str) + 1) /\ fmt' = From(str, WidthLen(str) + 2)
        /\ props' = [props EXCEPT !.npad = atol(str)]
        /\ pc' = "morefmt" /\ buffer' = buffer /\ remain' = remain /\ added' = added
    BY <1>10 DEF width, stringVars
  <2>3. str \in Strings
    BY <2>1 DEF Reading, Strings
  <2> HIDE DEF str
  <2>4. WidthLen(str) + 1 \in Nat \ {0} /\ WidthLen(str) + 2 \in Nat \ {0} /\ atol(str) \in Int
    BY <2>3, WidthLenIs, AtolIs
  <2>5. f' \in Chars /\ fmt' \in Strings
    BY <2>2, <2>3, <2>4, FromIs
  <2>6. Reading'
    BY <2>1, <2>2, <2>4, <2>5 DEF Reading
  <2>7. Stream'
    BY <1>1, <2>1, <2>2 DEF Stream
  <2>8. QED
    BY <2>2, <2>6, <2>7 DEF PrintIInv
<1>11. CASE long
  <2>1. Stream /\ Reading
    BY <1>2, <1>11 DEF long
  <2>2. /\ f' = At(fmt, 1) /\ fmt' = From(fmt, 2) /\ props' = props
        /\ pc' = "morefmt" /\ buffer' = buffer /\ remain' = remain /\ added' = added
    BY <1>11 DEF long, stringVars
  <2>3. Stream'
    BY <1>1, <2>1, <2>2 DEF Stream
  <2>4. At(fmt, 1) \in Chars /\ From(fmt, 2) \in Strings
    BY <2>1, FromIs DEF Reading
  <2>5. QED
    BY <2>1, <2>2, <2>3, <2>4 DEF PrintIInv, Reading
<1>12. CASE number \/ pointer \/ string
  <2>1. pc = "morefmt" /\ props \in [pad : Chars, npad : Int]
    BY <1>2, <1>12 DEF number, pointer, string, Reading
  <2>2. CASE number
    <3> DEFINE str == IF f = "d" THEN Signed(Head(va), 10) ELSE Unsigned(Head(va), 16)
    <3>1. Head(va) \in (IF f = "d" THEN Int ELSE Nat) /\ Convert(Padded(str), 1)
      BY <2>2 DEF number, Passed
    <3>2. str \in Strings
      BY <3>1, NumeralIs
    <3> HIDE DEF str
    <3>3. QED
      BY <1>5, <2>1, <3>1, <3>2, PaddedIs
  <2>3. CASE pointer
    <3> DEFINE ox == <<"0", "x">>
               str == Unsigned(Head(va), 16)
    <3>1. Head(va) \in Nat /\ Convert(Padded(ox) \o Padded(str), 1)
      BY <2>3 DEF pointer, Passed
    <3>2. ox \in Strings
      <4>1. "0" \in Chars /\ "x" \in Chars
        BY Known
      <4>2. \A a, b \in Chars : <<a, b>> \in Seq(Chars)
        OBVIOUS
      <4>3. QED
        BY <4>1, <4>2 DEF Strings
    <3>3. str \in Strings
      BY <3>1, NumeralIs
    <3> HIDE DEF str, ox
    <3>4. Padded(ox) \in Seq(Chars) /\ Padded(str) \in Seq(Chars)
      BY <2>1, <3>2, <3>3, PaddedIs DEF Strings
    <3>5. Padded(ox) \o Padded(str) \in Strings
      BY <3>4 DEF Strings
    <3>6. QED
      BY <1>5, <2>1, <3>1, <3>5
  <2>4. CASE string
    BY <1>5, <2>1, <2>4, PaddedIs DEF string, Passed, Strings
  <2>5. QED
    BY <1>12, <2>2, <2>3, <2>4
<1>13. CASE too_long
  BY <1>1, <1>2, <1>13 DEF too_long, Goto, printfVars, PrintIInv, Stream, Reading
<1>14. CASE finish
  <2>1. Stream
    BY <1>2, <1>14 DEF finish
  <2>2. buffer' = Append(buffer, "NUL") /\ added' = added + 1 /\ pc' = "done"
    BY <1>14 DEF finish, Goto
  <2>3. Len(buffer) \in Nat /\ Len(buffer') = Len(buffer) + 1 /\ buffer'[Len(buffer) + 1] = "NUL"
    BY <2>1, <2>2 DEF Stream, Strings
  <2>4. Len(buffer') = IF added' < call.size THEN added' ELSE call.size
    BY <2>1, <2>2, <2>3 DEF Stream
  <2>5. Closed'
    BY <1>1, <2>1, <2>2, <2>3, <2>4 DEF Closed, Stream
  <2>6. QED
    BY <2>2, <2>5 DEF PrintIInv
<1>15. QED
  BY <1>3, <1>4, <1>6, <1>7, <1>8, <1>9, <1>10, <1>11, <1>12, <1>13, <1>14
  DEF Next, PrintNext, Finished

\* For every format and every argument its conversions take, vsnprintf stores no more
\* than the buffer holds, ends it with a NUL, and counts what it had to leave out.
THEOREM VsnprintfStaysInBuffer == Spec => []StaysInBuffer
<1>1. PrintIInv => StaysInBuffer
  <2> SUFFICES ASSUME PrintIInv, call.fn = "vsnprintf"
               PROVE  StaysInBuffer
    BY DEF StaysInBuffer
  <2>1. CASE pc = "done"
    BY <2>1 DEF PrintIInv, Closed, StaysInBuffer
  <2>2. CASE pc # "done"
    <3>1. Len(buffer) \in Nat
      BY <2>2 DEF PrintIInv, Stream, Strings
    <3>2. QED
      BY <2>2, <3>1 DEF PrintIInv, Stream, StaysInBuffer
  <2>3. QED
    BY <2>1, <2>2
<1>2. QED
  BY <1>1, PrintStarts, PrintStep, PTL DEF Spec
=============================================================================
