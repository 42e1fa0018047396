-------------------------------- MODULE CLib --------------------------------
(***************************************************************************)
(* The string functions of string.c, called on a memory of bytes.  memmove *)
(* takes a step per byte, since source and destination may overlap; the    *)
(* others only read, or write where they do not read.  A pointer is an     *)
(* address; NULL is not one.  (csum8 is in AcpiLoader and Smbios, atol in  *)
(* Printf; memcpy and memset are compiler built-ins.)  Printf adds the     *)
(* rest of the library, and with it the specification.                     *)
(***************************************************************************)
EXTENDS Integers, Sequences

CONSTANTS
  Size,      \* bytes of memory
  Calls,     \* calls: [fn, dest, src, n, mem]; dest and src are the first two
             \* pointers, n the length, or the character, where there is one
  NULL

\* The string at p: the characters before the first terminator.
Text(m, p) ==
  LET e == CHOOSE e \in p .. Size - 1 : m[e] = 0 /\ \A q \in p .. e - 1 : m[q] # 0
  IN  [k \in 1 .. e - p |-> m[p + k - 1]]

\* The caller's part: blocks are in memory, strings are terminated, characters
\* are ASCII, and strcat and strcpy have room for the copy apart from the source.
Fits(p, n) == p + n <= Size
Terminated(m, p) == \E e \in p .. Size - 1 : m[e] = 0
Room(end, m, q) ==
  LET len == Len(Text(m, q))
  IN  Fits(end, len + 1) /\ (end + len < q \/ q + len < end)

ASSUME CallsAssumption ==
  /\ Size \in Nat \ {0} /\ NULL \notin 0 .. Size
  /\ \A c \in Calls :
       /\ {c.dest, c.src, c.n} \subseteq Nat
       /\ c.mem \in [0 .. Size - 1 -> 0 .. 127]
       /\ \/ c.fn \in {"memmove", "memcmp"} /\ Fits(c.dest, c.n) /\ Fits(c.src, c.n)
          \/ c.fn = "memchr" /\ Fits(c.dest, c.n) /\ c.src \in 0 .. 127
          \/ c.fn = "strlen" /\ Terminated(c.mem, c.dest)
          \/ c.fn = "strchr" /\ Terminated(c.mem, c.dest) /\ c.n \in 0 .. 127
          \/ /\ c.fn \in {"strcmp", "strstr"}
             /\ Terminated(c.mem, c.dest) /\ Terminated(c.mem, c.src)
          \/ /\ c.fn = "strcat" /\ Terminated(c.mem, c.dest) /\ Terminated(c.mem, c.src)
             /\ Room(c.dest + Len(Text(c.mem, c.dest)), c.mem, c.src)
          \/ /\ c.fn = "strcpy" /\ Terminated(c.mem, c.src)
             /\ Room(c.dest, c.mem, c.src)

VARIABLES
  mem,   \* the memory
  call,  \* the call that is running
  d, s,  \* memmove's pointers
  n,     \* bytes it has left
  pc,    \* "call", "forward", "backward" or "done", or as in Printf
  ret    \* the result

stringVars == <<mem, call, d, s, n, pc, ret>>

\* Where a loop over memory stops: the first address from p on with Stop.
First(p, end, Stop(_)) ==
  CHOOSE q \in p .. end : Stop(q) /\ \A r \in p .. q - 1 : ~Stop(r)

\* while (*buf++): bytes before the terminator.
strlen(p) == First(p, Size, LAMBDA q : mem[q] = 0) - p

\* The loop of memcmp; the result is that of the last comparison.
memcmp(p, q, len) ==
  LET k == First(0, len, LAMBDA j : j = len \/ mem[p + j] # mem[q + j])
  IN  IF k = len THEN 0 ELSE mem[p + k] - mem[q + k]

\* strcmp goes on while the characters are equal and not the terminator.
strcmp(p, q) ==
  LET k == First(0, Size, LAMBDA j : mem[p + j] # mem[q + j] \/ mem[p + j] = 0)
  IN  mem[p + k] - mem[q + k]

\* strchr finds the terminator too, if that is what it looks for.
strchr(p, c) ==
  LET q == First(p, Size, LAMBDA r : mem[r] = c \/ mem[r] = 0)
  IN  IF mem[q] = c THEN q ELSE NULL

memchr(p, c, len) ==
  LET q == First(p, p + len, LAMBDA r : r = p + len \/ mem[r] = c)
  IN  IF q = p + len THEN NULL ELSE q

\* Fault: a match at the very end is not looked at.
MayMatchStrict(l1, l2) == l1 > l2

\* strstr goes on while what is left of s1 is as long as s2.
MayMatch(l1, l2) == l1 >= l2

strstr(p, q) ==
  LET l1 == strlen(p)
      l2 == strlen(q)
      k  == First(0, l1, LAMBDA j : ~MayMatch(l1 - j, l2) \/ memcmp(p + j, q, l2) = 0)
  IN  IF l2 = 0 THEN p ELSE IF MayMatch(l1 - k, l2) THEN p + k ELSE NULL

\* strcat copies the terminator with the rest; strcpy is strcat to a string it
\* has emptied.
strcat(end, q) ==
  [a \in DOMAIN mem |-> IF a \in end .. end + strlen(q) THEN mem[q + a - end] ELSE mem[a]]

-----------------------------------------------------------------------------

\* Calls that leave memory alone.
Read(fn, value) ==
  /\ pc = "call" /\ call.fn = fn
  /\ ret' = value
  /\ pc' = "done"
  /\ UNCHANGED <<mem, call, d, s, n>>

\* Calls that write a string at dest, from end on.
Write(fn, end) ==
  /\ pc = "call" /\ call.fn = fn
  /\ mem' = strcat(end, call.src)
  /\ ret' = call.dest
  /\ pc' = "done"
  /\ UNCHANGED <<call, d, s, n>>

\* Fault: always from the front.
ForwardAlways(dest, src) == TRUE

\* Which end memmove starts at.
Forward(dest, src) == dest <= src

memmove ==
  /\ pc = "call" /\ call.fn = "memmove"
  /\ IF Forward(call.dest, call.src)
     THEN pc' = "forward" /\ d' = call.dest /\ s' = call.src
     ELSE pc' = "backward" /\ d' = call.dest + call.n /\ s' = call.src + call.n
  /\ n' = call.n
  /\ UNCHANGED <<mem, call, ret>>

\* A turn of its loops, and their end.
CopyForward ==
  /\ pc = "forward" /\ n > 0
  /\ mem' = [mem EXCEPT ![d] = mem[s]]
  /\ d' = d + 1 /\ s' = s + 1 /\ n' = n - 1
  /\ UNCHANGED <<call, pc, ret>>

CopyBackward ==
  /\ pc = "backward" /\ n > 0
  /\ mem' = [mem EXCEPT ![d - 1] = mem[s - 1]]
  /\ d' = d - 1 /\ s' = s - 1 /\ n' = n - 1
  /\ UNCHANGED <<call, pc, ret>>

Moved ==
  /\ pc \in {"forward", "backward"} /\ n = 0
  /\ ret' = call.dest
  /\ pc' = "done"
  /\ UNCHANGED <<mem, call, d, s, n>>

StringInit ==
  /\ call \in Calls
  /\ mem = call.mem
  /\ d = 0 /\ s = 0 /\ n = 0 /\ pc = "call" /\ ret = NULL

StringNext ==
  \/ memmove \/ CopyForward \/ CopyBackward \/ Moved
  \/ Read("strlen", strlen(call.dest))
  \/ Read("strcmp", strcmp(call.dest, call.src))
  \/ Read("strchr", strchr(call.dest, call.n))
  \/ Read("strstr", strstr(call.dest, call.src))
  \/ Read("memcmp", memcmp(call.dest, call.src, call.n))
  \/ Read("memchr", memchr(call.dest, call.src, call.n))
  \/ Write("strcat", call.dest + strlen(call.dest))
  \/ Write("strcpy", call.dest)

-----------------------------------------------------------------------------

\* However source and destination overlap, memmove leaves in the destination
\* what the source held at the call, and changes nothing else.
MemmoveRight ==
  pc = "done" /\ call.fn = "memmove" =>
    /\ ret = call.dest
    /\ mem = [a \in 0 .. Size - 1 |->
                IF a \in call.dest .. call.dest + call.n - 1
                THEN call.mem[call.src + (a - call.dest)] ELSE call.mem[a]]

Precedes(t, u) ==
  \E k \in 0 .. Len(t) :
    /\ k < Len(u) /\ SubSeq(t, 1, k) = SubSeq(u, 1, k)
    /\ k = Len(t) \/ t[k + 1] < u[k + 1]

\* Ordered as t and u are.
SameOrder(t, u) == (ret = 0 <=> t = u) /\ (ret < 0 <=> Precedes(t, u))

\* The result is the least address found, NULL if there is none.
Least(found) ==
  IF found = {} THEN ret = NULL ELSE ret \in found /\ \A q \in found : ret <= q

\* The string functions are what the C standard says of them in terms of whole
\* strings, at their limits as well: empty strings, a match at the end, no match.
StringsRight ==
  pc = "done" /\ call.fn \notin {"memmove", "vsnprintf"} =>
    LET m  == call.mem
        p  == call.dest
        q  == call.src
        t  == Text(m, p)
        u  == Text(m, q)
        block(r) == [k \in 1 .. call.n |-> m[r + k - 1]]
    IN  CASE call.fn = "strlen" -> ret = Len(t)
          [] call.fn = "strcmp" -> SameOrder(t, u)
          [] call.fn = "memcmp" -> SameOrder(block(p), block(q))
          [] call.fn = "strchr" -> Least({r \in p .. p + Len(t) : m[r] = call.n})
          [] call.fn = "memchr" -> Least({r \in p .. p + call.n - 1 : m[r] = q})
          [] call.fn = "strstr" ->
               Least({r \in p .. p + Len(t) - Len(u) : SubSeq(t, r - p + 1, r - p + Len(u)) = u})
          [] call.fn \in {"strcat", "strcpy"} ->
               LET joined == IF call.fn = "strcat" THEN t \o u ELSE u
               IN  /\ ret = p /\ Text(mem, p) = joined
                   /\ \A r \in 0 .. Size - 1 : r \notin p .. p + Len(joined) => mem[r] = m[r]
=============================================================================
