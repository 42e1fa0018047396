------------------------------- MODULE MCCLib -------------------------------
(***************************************************************************)
(* The C library.  In 9 bytes of memory: memmove of every length between   *)
(* any two places; comparisons and searches over every pair of places in a *)
(* string of up to 3 characters from two, with another behind it; copies   *)
(* of every such string to the end of memory.  Formats of up to two        *)
(* directives of every kind, widths below, at and above the length of what *)
(* is printed, in buffers that hold none, some or all of it; three         *)
(* directives with numbers in them.                                        *)
(***************************************************************************)
EXTENDS Printf

Call(fn, dest, src, len, m) == [fn |-> fn, dest |-> dest, src |-> src, n |-> len, mem |-> m]

\* Two strings, the second in its last bytes.
Contents == {[a \in 0 .. 8 |-> CASE a < 3 -> w[a] [] a = 4 -> 1 [] a \in 6 .. 7 -> 2 [] OTHER -> 0] :
               w \in [0 .. 2 -> 0 .. 2]}
Distinct == [a \in 0 .. 8 |-> a]

MCCalls ==
  {c \in {Call("memmove", d0, s0, l, Distinct) : d0, s0, l \in 0 .. 9} :
     Fits(c.dest, c.n) /\ Fits(c.src, c.n)}
    \cup {Call(fn, p, q, 0, m) : fn \in {"strlen", "strcmp", "strstr"}, p, q \in 0 .. 5, m \in Contents}
    \cup {Call("memcmp", p, q, l, m) : p, q \in 0 .. 5, l \in 0 .. 3, m \in Contents}
    \cup {Call(fn, p, c, c, m) : fn \in {"strchr", "memchr"}, p \in 0 .. 5, c \in 0 .. 3, m \in Contents}
    \cup {Call("memchr", p, c, l, m) : p \in 0 .. 5, c \in 0 .. 3, l \in 0 .. 3, m \in Contents}
    \cup {Call(fn, 4, q, 0, m) : fn \in {"strcat", "strcpy"}, q \in 0 .. 3, m \in Contents}

\* Those of the formats and what they print; q and z are no conversions.
MCChars == {Digits[k] : k \in 1 .. 16} \cup {"NUL", " ", "\t", "-", "+", "%", "l", "p", "s", "x", "q", "z"}

Dir(text, conv, w, args) == [text |-> text, conv |-> conv, width |-> w, args |-> args]

Widths == {<<<<>>, 0>>, <<<<"2">>, 2>>, <<<<"3">>, 3>>, <<<<"1", "0">>, 10>>,
           <<<<"-", "2">>, -2>>, <<<<"-", "5">>, -5>>, <<<<"-">>, 0>>}

Numbers == {Dir(<<"%">> \o w[1] \o <<"d">>, "d", w[2], <<k>>) : w \in Widths, k \in {0, -17, 120}}
Others ==
  {Dir(<<"%">> \o w[1] \o <<"x">>, "x", w[2], <<k>>) : w \in Widths, k \in {0, 2748}}
    \cup {Dir(<<"%">> \o w[1] \o <<"s">>, "s", w[2], <<t>>) : w \in Widths, t \in {<<>>, <<"a", "b", "c">>}}
    \cup {Dir(<<"%", "l", c>>, c, 0, <<95>>) : c \in {"d", "x"}}
    \cup {Dir(<<"%", "5", "l", "d">>, "d", 5, <<95>>),
          Dir(<<"%", "l", "l", "d">>, "long long", 0, <<95>>),
          Dir(<<"%", "c">>, "c", 0, <<"%">>), Dir(<<"%", "%">>, "%", 0, <<>>),
          Dir(<<"%", "p">>, "p", 0, <<655360>>), Dir(<<"%", "z">>, "z", 0, <<>>),
          Dir(<<"%", "0", "5", "d">>, "0", 0, <<>>),
          Dir(<<"q">>, "q", 0, <<>>)}
End == Dir(<<"%">>, "end", 0, <<>>)

PrintCall(size, dirs) == [fn |-> "vsnprintf", size |-> size, directives |-> dirs]

MCPrints ==
  {PrintCall(z, <<x, y>>) : z \in {1, 2, 5, 40}, x \in Numbers \cup Others, y \in Numbers \cup Others \cup {End}}
    \cup {PrintCall(z, <<x, y, x>>) : z \in {5, 40}, x \in Numbers, y \in Others}
=============================================================================
