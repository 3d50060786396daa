------------------------------- MODULE Printf -------------------------------
(***************************************************************************)
(* Formatted output, printf.c as it is built (no floating point).          *)
(* _printf_engine reads its format one character per step and puts what    *)
(* it formats to its destination, the buffer of vsnprintf or the console.  *)
(* The format is any sequence of characters, its arguments any values of   *)
(* the types it asks for.  Characters are one-letter strings.              *)
(***************************************************************************)
EXTENDS Integers, Sequences, FiniteSetsExt

CONSTANTS
    Plain,        \* characters that mean nothing to the engine
    Digits,       \* digits formats use, as numbers
    Sizes,        \* lengths given to vsnprintf, or Console for _printf
    Console,
    Strings,      \* arguments of %s, the text "<null>" of a null pointer too
    Values,       \* the integers arguments are made from
    TypeBits,     \* widths of char, short, int (long and size_t are as wide)
                  \* and long long
    MaxRead,      \* bound: characters of the format
    MaxWidth      \* bound: field widths

ASSUME PrintfAssumption ==
    /\ Digits \subseteq 0..9
    /\ Console \notin Nat /\ Sizes \subseteq Nat \cup {Console}
    /\ \A s \in Strings : s \in Seq(Plain)
    /\ Values \subseteq Int /\ TypeBits \in [{"char", "short", "int", "longlong"} -> Nat \ {0}]
    /\ \A t \in DOMAIN TypeBits : TypeBits[t] <= TypeBits["longlong"]
    /\ MaxRead \in Nat /\ MaxWidth \in Nat

NUL == "NUL"
FlagOf == [c \in {"-", "+", " ", "#"} |->
              CASE c = "-" -> "left" [] c = "+" -> "showsign"
                [] c = " " -> "blankpos" [] OTHER -> "alt"]
LengthOf == [c \in {"l", "h", "z", "j", "t"} |->
              CASE c = "l" -> "long" [] c = "h" -> "half" [] c = "z" -> "sizet"
                [] c = "j" -> "intmax" [] OTHER -> "ptrdiff"]
NoField == [conv |-> "none"]

VARIABLES
    size,      \* len of vsnprintf, or Console
    mode,      \* "text", "format", "done"
    nread,     \* characters of the format read
    flags,     \* flags and format_num of the field being read
    width,
    stored,    \* characters in the buffer, from its start
    written,   \* chars_written, in the end the value returned
    nul,       \* where vsnprintf puts the terminator
    emitted,   \* ghost: characters given to the destination, NULs not counted
               \* for the console
    part,      \* ghost: the part of a C conversion specification being read
    field      \* ghost: the field just put, if any

vars == <<size, mode, nread, flags, width, stored, written, nul, emitted, part, field>>

Init ==
    /\ size \in Sizes /\ mode = "text" /\ nread = 0
    /\ flags = {} /\ width = 0
    /\ stored = <<>> /\ written = 0 /\ nul = -1
    /\ emitted = 0 /\ part = "none" /\ field = NoField

-----------------------------------------------------------------------------
(* The destinations *)

\* What reaches the destination: console_write ends at a NUL.
Reaches(str) == IF size = Console /\ NUL \in {str[k] : k \in DOMAIN str}
                THEN <<>> ELSE str

\* Mutant: what did not fit is not counted.
Took_Stored(str) == IF size = Console THEN Len(str) ELSE Min({Len(str), size - Len(stored)})

\* What _vsnprintf_output and console_write return of it.
Took(str) == Len(str)

\* Mutant: one character too many fits.
Fits_OneMore(str) == Min({Len(str), size + 1 - Len(stored)})

\* args->pos < args->len
Fits(str) == Min({Len(str), size - Len(stored)})

Put(str) ==
    LET s == Reaches(str)
    IN  /\ stored' = IF size = Console THEN stored ELSE stored \o SubSeq(s, 1, Fits(s))
        /\ written' = written + Took(s)
        /\ emitted' = emitted + Len(s)

PutNothing == UNCHANGED <<stored, written, emitted>>

\* Mutant: the terminator is always behind the text.
Terminator_Behind == written

Terminator == IF Len(stored) >= size THEN size - 1 ELSE written

-----------------------------------------------------------------------------
(* Numbers *)

HexTable     == <<"0", "1", "2", "3", "4", "5", "6", "7", "8", "9", "a", "b", "c", "d", "e", "f">>
HexTableCaps == <<"0", "1", "2", "3", "4", "5", "6", "7", "8", "9", "A", "B", "C", "D", "E", "F">>

\* The type va_arg is given, the first of the length flags that is set.
Type(fl) ==
    CASE "longlong" \in fl -> "longlong"
      [] "longlong" \notin fl /\ "long" \in fl -> "int"
      [] fl \cap {"longlong", "long"} = {} /\ "halfhalf" \in fl -> "char"
      [] fl \cap {"longlong", "long", "halfhalf"} = {} /\ "half" \in fl -> "short"
      [] fl \cap {"longlong", "long", "halfhalf", "half", "sizet"} = {}
         /\ "intmax" \in fl -> "longlong"
      [] OTHER -> "int"

\* b^k, as a recursion, which can be reasoned about.
Power(b, k) ==
    LET of[j \in 0..k] == IF j = 0 THEN 1 ELSE b * of[j - 1]
    IN  of[k]

Unsigned(v, bits) == v % Power(2, bits)
Signed(v, bits) == ((v + Power(2, bits - 1)) % Power(2, bits)) - Power(2, bits - 1)
Arg(v, fl, signed) == IF signed THEN Signed(v, TypeBits[Type(fl)])
                                ELSE Unsigned(v, TypeBits[Type(fl)])

\* The loops of longlong_to_string and longlong_to_hexstring fill num_buffer
\* from its end: one digit, and one more for each power of the base up to n.
Places(n, base) == 1 + Cardinality({j \in 1..(TypeBits["longlong"] \div 3) : Power(base, j) <= n})

\* Mutant: the loop stops before the digit that is the base itself.
ToDigits_OneShort(n, base, table) ==
    LET p == Places(IF n = base THEN n - 1 ELSE n, base)
    IN  [k \in 1..p |-> table[((n \div Power(base, p - k)) % base) + 1]]

ToDigits(n, base, table) ==
    LET p == Places(n, base)
    IN  [k \in 1..p |-> table[((n \div Power(base, p - k)) % base) + 1]]

SignChar(fl, negative) ==
    CASE negative -> <<"-">>
      [] ~negative /\ "showsign" \in fl -> <<"+">>
      [] ~negative /\ "showsign" \notin fl /\ "blankpos" \in fl -> <<" ">>
      [] OTHER -> <<>>

-----------------------------------------------------------------------------
(* Fields *)

Pad(c, k) == [j \in 1..Max({k, 0}) |-> c]

\* Mutant: the sign does not count for the width.
DigitsWidth_All(sign, w) == w

\* The width left for the digits when a sign is printed.
DigitsWidth(sign, w) == IF sign # <<>> /\ w > 0 THEN w - 1 ELSE w

\* _output_string
Justified(s, sign, fl, w) ==
    LET fill == DigitsWidth(sign, w) - Len(s)
    IN  IF "left" \in fl THEN s \o Pad(" ", w - Len(s))
        ELSE IF "leadzero" \in fl THEN sign \o Pad("0", fill) \o s
        ELSE Pad(" ", fill) \o sign \o s

Prefix(fl) == IF "alt" \notin fl THEN <<>>
              ELSE IF "caps" \in fl THEN <<"0", "X">> ELSE <<"0", "x">>

Magnitude(n) == IF n < 0 THEN -n ELSE n
Decimal(n, fl, w) == Justified(ToDigits(Magnitude(n), 10, HexTable),
                               SignChar(fl, n < 0), fl, w)
Hex(n, fl, w) ==
    Prefix(fl) \o Justified(ToDigits(n, 16, IF "caps" \in fl THEN HexTableCaps ELSE HexTable),
                            <<>>, fl, w)

HexFlags(c, fl) == fl \cup (IF c = "X" THEN {"caps"} ELSE {})
                      \cup (IF c = "p" THEN {"long", "alt"} ELSE {})

-----------------------------------------------------------------------------
(* The engine *)

\* c is the next character of the format, NUL its end.
Reads(m) == mode = m /\ nread' = nread + 1 /\ UNCHANGED <<size, nul>>
InFormat(c) == Reads("format") /\ nread < MaxRead

\* Ordinary characters.  The engine puts a run of them with one call, which
\* comes to the same as a call for each.
ReadText(c) ==
    /\ Reads("text") /\ nread < MaxRead /\ c # "%"
    /\ Put(<<c>>) /\ field' = NoField
    /\ UNCHANGED <<mode, flags, width, part>>

ReadPercent ==
    /\ Reads("text") /\ nread < MaxRead
    /\ mode' = "format" /\ flags' = {} /\ width' = 0
    /\ part' = "flags" /\ field' = NoField /\ PutNothing

\* Also within a field: what has been read of it is dropped.
ReadEnd ==
    /\ mode \in {"text", "format"} /\ mode' = "done"
    /\ nul' = IF size = Console THEN nul ELSE Terminator
    /\ field' = NoField /\ PutNothing
    /\ UNCHANGED <<size, nread, flags, width, part>>

\* Where C wants a digit, a flag or a length modifier.
Part(kind) ==
    CASE kind = "flag"   -> IF part = "flags" THEN part ELSE "illegal"
      [] kind = "digit"  -> IF part \in {"flags", "width"} THEN "width" ELSE "illegal"
      [] kind = "length" -> IF part \in {"flags", "width", "length"} THEN "length" ELSE "illegal"

ReadDigit(d) ==
    /\ InFormat(d) /\ width * 10 + d <= MaxWidth
    /\ flags' = IF d = 0 /\ width = 0 THEN flags \cup {"leadzero"} ELSE flags
    /\ width' = width * 10 + d
    /\ part' = IF d = 0 /\ width = 0 THEN Part("flag") ELSE Part("digit")
    /\ PutNothing /\ UNCHANGED <<mode, field>>

\* The precision that should follow is read as more digits of the width.
ReadDot ==
    /\ InFormat(".") /\ part' = "illegal"
    /\ PutNothing /\ UNCHANGED <<mode, flags, width, field>>

ReadFlag(c) ==
    /\ InFormat(c) /\ flags' = flags \cup {FlagOf[c]} /\ part' = Part("flag")
    /\ PutNothing /\ UNCHANGED <<mode, width, field>>

ReadLength(c) ==
    /\ InFormat(c) /\ part' = Part("length")
    /\ flags' = flags \cup {LengthOf[c]}
          \cup (IF c = "l" /\ "long" \in flags THEN {"longlong"} ELSE {})
          \cup (IF c = "h" /\ "half" \in flags THEN {"halfhalf"} ELSE {})
    /\ PutNothing /\ UNCHANGED <<mode, width, field>>

\* A field ends and its text is put; arg is what the field shows.
EndField(c, arg, text) ==
    /\ mode' = "text" /\ flags' = {} /\ width' = 0 /\ part' = "none"
    /\ Put(text)
    /\ field' = [conv |-> c, arg |-> arg, flags |-> flags, width |-> width,
                 legal |-> part # "illegal", text |-> text]

ReadChar == InFormat("c") /\ \E ch \in Plain \cup {NUL} : EndField("c", ch, <<ch>>)

ReadString ==
    /\ InFormat("s")
    /\ \E s \in Strings :
          EndField("s", s, Justified(s, <<>>, flags \ {"leadzero"}, width))

ReadDecimal(c) ==
    /\ InFormat(c)
    /\ \E v \in Values : LET n == Arg(v, flags, c = "d")
                         IN  EndField(c, n, Decimal(n, flags, width))

ReadHex(c) ==
    /\ InFormat(c)
    /\ \E v \in Values : LET fl == HexFlags(c, flags) n == Arg(v, fl, FALSE)
                         IN  EndField(c, n, Hex(n, fl, width))

\* %n writes through its pointer and puts nothing.
ReadN == InFormat("n") /\ EndField("n", written, <<>>)

ReadPercentAgain == InFormat("%") /\ EndField("%", 0, <<"%">>)
ReadUnknown(c) == InFormat(c) /\ EndField("unknown", 0, <<"%", c>>)

Engine ==
    \/ ReadPercent \/ ReadEnd \/ ReadDot \/ ReadChar \/ ReadString \/ ReadN
    \/ ReadPercentAgain
    \/ \E c \in Plain : ReadText(c) \/ ReadUnknown(c)
    \/ \E d \in Digits : ReadDigit(d)
    \/ \E c \in DOMAIN FlagOf : ReadFlag(c)
    \/ \E c \in DOMAIN LengthOf : ReadLength(c)
    \/ \E c \in {"d", "u"} : ReadDecimal(c)
    \/ \E c \in {"x", "X", "p"} : ReadHex(c)

Finished == mode = "done" /\ UNCHANGED vars

Next == Engine \/ Finished

Spec == Init /\ [][Next]_vars

-----------------------------------------------------------------------------
(* Properties *)

TypeOK ==
    /\ size \in Sizes /\ mode \in {"text", "format", "done"}
    /\ nread \in 0..MaxRead + 1 /\ width \in 0..MaxWidth
    /\ flags \subseteq {"leadzero", "longlong", "halfhalf", "caps"}
          \cup {FlagOf[c] : c \in DOMAIN FlagOf} \cup {LengthOf[c] : c \in DOMAIN LengthOf}
    /\ written \in Nat /\ emitted \in Nat

\* vsnprintf stores no character behind a buffer of any length, and terminates
\* a buffer whose length is not 0 inside of it, right behind characters that
\* were formatted.  Of the terminator at length 0, which printf.c:96 writes in
\* front of the buffer, this says nothing.
Terminated ==
    size # Console =>
        /\ Len(stored) <= size
        /\ mode = "done" /\ size > 0 => nul \in 0..(size - 1) /\ nul <= Len(stored)

\* A caller learns from the value returned whether the text was cut, and how
\* long a buffer it takes: the value is less than the length exactly when
\* every character formatted is in front of the terminator.
TruncationReported ==
    mode = "done" /\ size # Console =>
        /\ written = emitted
        /\ written < size <=> nul = emitted

-----------------------------------------------------------------------------
(* What C says of a field *)

\* The digits of n, the last one first off.
Numeral(n, base, table) ==
    LET of[m \in Nat] == IF m < base THEN <<table[m + 1]>>
                         ELSE Append(of[m \div base], table[(m % base) + 1])
    IN  of[n]

LengthFlags == {LengthOf[c] : c \in DOMAIN LengthOf} \cup {"longlong", "halfhalf"}

\* The specification is one C defines; what %p prints it does not.
DefinedByC(f) ==
    /\ f.conv \in {"c", "s", "d", "u", "x", "X"} /\ f.legal
    /\ f.flags \cap LengthFlags \in
          {{}, {"long"}, {"long", "longlong"}, {"half"}, {"half", "halfhalf"},
           {"sizet"}, {"intmax"}, {"ptrdiff"}}
    /\ f.conv \in {"c", "s"} => f.flags \subseteq {"left"}
    /\ "alt" \in f.flags => f.conv \in {"x", "X"}

CSign(f) ==
    IF f.conv # "d" THEN <<>>
    ELSE IF f.arg < 0 THEN <<"-">>
    ELSE IF "showsign" \in f.flags THEN <<"+">>
    ELSE IF "blankpos" \in f.flags THEN <<" ">> ELSE <<>>

CPrefix(f) == IF "alt" \in f.flags /\ f.arg # 0 THEN <<"0", f.conv>> ELSE <<>>

CDigits(f) ==
    IF f.conv = "c" THEN <<f.arg>> ELSE IF f.conv = "s" THEN f.arg
    ELSE Numeral(Magnitude(f.arg), IF f.conv \in {"x", "X"} THEN 16 ELSE 10,
                 IF f.conv = "X" THEN HexTableCaps ELSE HexTable)

\* Sign and prefix are part of the field; zeros go behind them, spaces before.
CText(f) ==
    LET front == CSign(f) \o CPrefix(f)
        k == f.width - Len(front) - Len(CDigits(f))
    IN  IF "left" \in f.flags THEN front \o CDigits(f) \o Pad(" ", k)
        ELSE IF "leadzero" \in f.flags THEN front \o Pad("0", k) \o CDigits(f)
        ELSE Pad(" ", k) \o front \o CDigits(f)

\* Where the engine is known to differ: it prints no sign on the left
\* (printf.c:596), one for unsigned numbers, a prefix that is outside the
\* width and printed of 0 too, and pays no attention to the width of a %c.
HiddenInSpaces(f) ==
    SignChar(f.flags, FALSE) = <<" ">> /\ "leadzero" \notin f.flags /\ f.width > Len(CDigits(f))

Differs(f) ==
    \/ "left" \in f.flags /\ CSign(f) # <<>>
    \/ f.conv = "u" /\ "left" \notin f.flags /\ SignChar(f.flags, FALSE) # <<>> /\ ~HiddenInSpaces(f)
    \/ "alt" \in f.flags /\ (f.arg = 0 \/ f.width > Len(CDigits(f)))
    \/ f.conv = "c" /\ f.width > 1

\* Every field C defines is put as C says, but for the four kinds of Differs,
\* of which every one is put differently: signs, zeros, spaces and widths
\* come out right in every other combination of flags, width, type and value.
MatchesC ==
    field # NoField /\ DefinedByC(field) =>
        (field.text = CText(field) <=> ~Differs(field))
=============================================================================
