------------------------------- MODULE Printf -------------------------------
(***************************************************************************)
(* vsnprintf (printf.c): one step per directive of the format, through the *)
(* loop, the morefmt label and the pstream that counts every character but *)
(* stores only those there is room for.  A string is a sequence of         *)
(* characters without its NUL; reading a format at or past its end reads   *)
(* NUL.                                                                    *)
(***************************************************************************)
EXTENDS CLib, SequencesExt

CONSTANTS
  Chars,   \* the characters there are
  Prints   \* calls: [fn, size, directives]; the directives make up the format

Digits == <<"0", "1", "2", "3", "4", "5", "6", "7", "8", "9", "a", "b", "c", "d", "e", "f">>
DecimalDigit == {Digits[k] : k \in 1 .. 10}
DigitValue(c) == CHOOSE k \in 0 .. 15 : Digits[k + 1] = c

\* Those that vsnprintf knows.
ASSUME CharsAssumption ==
  {Digits[k] : k \in 1 .. 16} \cup {"NUL", " ", "-", "%", "x"} \subseteq Chars

\* A directive is [text, conv, width, args]: the characters of the format, what a
\* reader takes them for, and the arguments the caller passes for it: a number, a
\* character or a string.
ASSUME PrintsAssumption ==
  \A c \in Prints :
    /\ c.fn = "vsnprintf" /\ c.size \in Nat \ {0}
    /\ Len(c.directives) \in Nat /\ DOMAIN c.directives = 1 .. Len(c.directives)
    /\ \A k \in DOMAIN c.directives : c.directives[k].text \in Seq(Chars)

VARIABLES
  fmt,     \* characters of the format that are left
  va,      \* arguments that are left
  f,       \* the character under the cursor of morefmt
  props,   \* [pad, npad]
  nlong,
  buffer,  \* the characters stored
  remain,
  added

\* pc is "loop", "morefmt", "done" or "panic" in a call of vsnprintf.
printfVars == <<fmt, va, f, props, nlong, buffer, remain, added>>
vars == <<stringVars, printfVars>>

At(str, k) == IF k <= Len(str) THEN str[k] ELSE "NUL"
From(str, k) == SubSeq(str, k, Len(str))
Repeat(c, num) == [k \in 1 .. num |-> c]

\* Fault: the place of the NUL is used.
AddCharsAndOne(str) ==
  /\ buffer' = buffer \o SubSeq(str, 1, IF Len(str) <= remain THEN Len(str) ELSE remain + 1)
  /\ remain' = IF Len(str) <= remain THEN remain - Len(str) ELSE -1
  /\ added' = added + Len(str)

\* addchar for each character of str: those that fit are stored, all are counted.
AddChars(str) ==
  /\ buffer' = buffer \o SubSeq(str, 1, IF Len(str) < remain THEN Len(str) ELSE remain)
  /\ remain' = IF Len(str) < remain THEN remain - Len(str) ELSE 0
  /\ added' = added + Len(str)

\* Fault: what the first loop left of a positive width pads on the right.
PadRightRest(npad, len) == IF npad > 0 THEN npad - len ELSE npad + len

\* npad after the string is out: negative, and so padding on the right, only if
\* it was from the start.
PadRight(npad, len) ==
  LET rest == IF npad > len THEN 0 ELSE IF npad > 0 THEN npad - len ELSE npad
  IN  IF rest < 0 THEN rest + len ELSE 0

\* print_str.
Padded(str) ==
  Repeat(props.pad, IF props.npad > 0 THEN props.npad - Len(str) ELSE 0)
    \o str \o Repeat(" ", -PadRight(props.npad, Len(str)))

\* The loop over the digits of print_int and print_unsigned, last one first: what
\* is left of the number after each turn, until nothing is.
Reversed(num, base) ==
  LET left[k \in 0 .. num] == IF k = 0 THEN num ELSE left[k - 1] \div base
      len == First(0, num, LAMBDA k : left[k] = 0)
  IN  [k \in 1 .. len |-> Digits[(left[k - 1] % base) + 1]]

Unsigned(num, base) == IF num = 0 THEN <<"0">> ELSE Reverse(Reversed(num, base))

\* print_int, for any n whose negation is a long.
Signed(num, base) ==
  IF num < 0 THEN Reverse(Append(Reversed(-num, base), "-")) ELSE Unsigned(num, base)

\* atol of string.c.
atol(str) ==
  LET blank  == SelectInSeq(str \o <<"NUL">>, LAMBDA c : c \notin {" ", "\t"})
      signed == At(str, blank) \in {"-", "+"}
      start  == IF signed THEN blank + 1 ELSE blank
      len    == SelectInSeq(From(str, start) \o <<"NUL">>, LAMBDA c : c \notin DecimalDigit) - 1
      acc[k \in 0 .. len] ==
        IF k = 0 THEN 0 ELSE acc[k - 1] * 10 + DigitValue(From(str, start)[k])
  IN  IF At(str, blank) = "-" THEN -acc[len] ELSE acc[len]

\* fmtnum: how many characters the width takes.
WidthLen(str) ==
  LET start == IF At(str, 1) = "-" THEN 2 ELSE 1
  IN  start - 2 + SelectInSeq(From(str, start) \o <<"NUL">>, LAMBDA c : c \notin DecimalDigit)

-----------------------------------------------------------------------------

\* The next step of vsnprintf, which leaves the variables of CLib alone.
Goto(l) == pc' = l /\ UNCHANGED <<mem, call, d, s, n, ret>>

\* while (*fmt): the head of the loop, with an ordinary character.
literal ==
  /\ pc = "loop" /\ fmt # <<>> /\ Head(fmt) # "%"
  /\ AddChars(<<Head(fmt)>>)
  /\ fmt' = Tail(fmt)
  /\ UNCHANGED <<stringVars, va, f, props, nlong>>

percent ==
  /\ pc = "loop" /\ fmt # <<>> /\ Head(fmt) = "%"
  /\ f' = At(fmt, 2) /\ fmt' = From(fmt, 3)
  /\ props' = [pad |-> " ", npad |-> 0] /\ nlong' = 0
  /\ Goto("morefmt")
  /\ UNCHANGED <<va, buffer, remain, added>>

\* The caller passes what a conversion takes.
Passed(type) == va # <<>> /\ Head(va) \in type

\* A conversion that ends the directive: what it prints, and how many arguments
\* it takes.
Convert(str, args) ==
  /\ AddChars(str)
  /\ va' = From(va, args + 1)
  /\ Goto("loop")
  /\ UNCHANGED <<fmt, f, props, nlong>>

percent_char == pc = "morefmt" /\ f = "%" /\ Convert(<<"%">>, 0)
char_arg     == pc = "morefmt" /\ f = "c" /\ Passed(Chars) /\ Convert(<<Head(va)>>, 1)

\* The format ends behind a %: the cursor steps back to the NUL.
end_of_fmt == pc = "morefmt" /\ f = "NUL" /\ Convert(<<>>, 0)

\* The zero flag: the cursor moves, and f, which does not, is none of the
\* characters tested from there on.  It is printed.  The caller's format has a
\* character behind the flag: the cursor would pass its NUL.
zero_flag ==
  /\ pc = "morefmt" /\ f = "0" /\ fmt # <<>>
  /\ AddChars(<<f>>)
  /\ fmt' = Tail(fmt)
  /\ props' = [props EXCEPT !.pad = "0"]
  /\ Goto("loop")
  /\ UNCHANGED <<va, f, nlong>>

width ==
  /\ pc = "morefmt" /\ f \in (DecimalDigit \ {"0"}) \cup {"-"}
  /\ LET str == <<f>> \o fmt
     IN  /\ props' = [props EXCEPT !.npad = atol(str)]
         /\ f' = At(str, WidthLen(str) + 1) /\ fmt' = From(str, WidthLen(str) + 2)
  /\ UNCHANGED <<stringVars, va, nlong, buffer, remain, added>>

long ==
  /\ pc = "morefmt" /\ f = "l"
  /\ nlong' = nlong + 1
  /\ f' = At(fmt, 1) /\ fmt' = From(fmt, 2)
  /\ UNCHANGED <<stringVars, va, props, buffer, remain, added>>

number ==
  /\ pc = "morefmt" /\ f \in {"d", "x"} /\ nlong <= 1
  /\ Passed(IF f = "d" THEN Int ELSE Nat)
  /\ Convert(Padded(IF f = "d" THEN Signed(Head(va), 10) ELSE Unsigned(Head(va), 16)), 1)

too_long ==
  /\ pc = "morefmt" /\ f \in {"d", "x"} /\ nlong > 1
  /\ Goto("panic")
  /\ UNCHANGED printfVars

pointer ==
  /\ pc = "morefmt" /\ f = "p" /\ Passed(Nat)
  /\ Convert(Padded(<<"0", "x">>) \o Padded(Unsigned(Head(va), 16)), 1)

string == pc = "morefmt" /\ f = "s" /\ Passed(Seq(Chars)) /\ Convert(Padded(Head(va)), 1)

other ==
  /\ pc = "morefmt"
  /\ f \notin DecimalDigit \cup {"%", "c", "NUL", "-", "l", "d", "x", "p", "s"}
  /\ Convert(<<f>>, 0)

\* The terminator, which is counted.
finish ==
  /\ pc = "loop" /\ fmt = <<>>
  /\ buffer' = Append(buffer, "NUL")
  /\ added' = added + 1
  /\ Goto("done")
  /\ UNCHANGED <<fmt, va, f, props, nlong, remain>>

-----------------------------------------------------------------------------

PrintInit ==
  /\ call \in Prints
  /\ mem = [a \in 0 .. Size - 1 |-> 0] /\ d = 0 /\ s = 0 /\ n = 0 /\ ret = NULL
  /\ fmt = FlattenSeq([k \in DOMAIN call.directives |-> call.directives[k].text])
  /\ va = FlattenSeq([k \in DOMAIN call.directives |-> call.directives[k].args])
  /\ remain = call.size - 1
  /\ pc = "loop"

PrintNext ==
  \/ literal \/ percent \/ percent_char \/ char_arg \/ end_of_fmt \/ zero_flag \/ width
  \/ long \/ number \/ too_long \/ pointer \/ string \/ other \/ finish

\* A call of one function of the library.
Init ==
  /\ f = "NUL" /\ props = [pad |-> " ", npad |-> 0] /\ nlong = 0 /\ buffer = <<>> /\ added = 0
  /\ \/ PrintInit
     \/ StringInit /\ fmt = <<>> /\ va = <<>> /\ remain = 0

Finished == pc \in {"done", "panic"} /\ UNCHANGED vars

Next == (StringNext /\ UNCHANGED printfVars) \/ PrintNext \/ Finished

Spec == Init /\ [][Next]_vars

-----------------------------------------------------------------------------

\* vsnprintf never stores more than the buffer holds, the NUL included, and its
\* result tells the caller whether anything was cut: what is counted is stored, or
\* the buffer is full.
StaysInBuffer ==
  call.fn = "vsnprintf" =>
    /\ Len(buffer) <= call.size
    /\ pc = "done" =>
         /\ Len(buffer) = IF added < call.size THEN added ELSE call.size
         /\ buffer[Len(buffer)] = "NUL"

\* The digits of n by their places.
Numeral(num, base) ==
  LET len == CHOOSE l \in 1 .. 8 : num < base ^ l /\ (l = 1 \/ num >= base ^ (l - 1))
  IN  [k \in 1 .. len |-> Digits[((num \div base ^ (len - k)) % base) + 1]]

\* What a directive prints, before padding and with it.  The 0 flag is none that
\* vsnprintf knows: it prints a 0 and goes on two characters later.
TextOf(dir) ==
  LET arg == Head(dir.args)
  IN  CASE dir.conv = "d" -> IF arg < 0 THEN <<"-">> \o Numeral(-arg, 10) ELSE Numeral(arg, 10)
        [] dir.conv = "x" -> Numeral(arg, 16)
        [] dir.conv = "p" -> <<"0", "x">> \o Numeral(arg, 16)
        [] dir.conv = "c" -> <<arg>>
        [] dir.conv = "s" -> arg
        [] dir.conv = "end" -> <<>>
        [] dir.conv = "0" -> <<"0">> \o From(dir.text, 4)
        [] OTHER -> <<dir.conv>>

Printed(dir) ==
  LET t   == TextOf(dir)
      pad == Repeat(" ", (IF dir.width < 0 THEN -dir.width ELSE dir.width) - Len(t))
  IN  IF dir.width < 0 THEN t \o pad ELSE pad \o t

\* vsnprintf stores what the directives print, one after the other, as far as it
\* fits, and a NUL; the result counts what did not fit, too.  It panics at a long
\* long and nowhere else.
OutputRight ==
  call.fn = "vsnprintf" =>
    LET dirs  == call.directives
        whole == FlattenSeq([k \in DOMAIN dirs |-> Printed(dirs[k])])
    IN  /\ pc = "done" =>
             /\ buffer = SubSeq(whole, 1, Len(buffer) - 1) \o <<"NUL">>
             /\ Len(buffer) = call.size \/ Len(buffer) = Len(whole) + 1
             /\ added = Len(whole) + 1
        /\ pc \in {"done", "panic"} =>
             (pc = "panic" <=> \E k \in DOMAIN dirs : dirs[k].conv = "long long")
=============================================================================
