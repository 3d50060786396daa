---------------------------- MODULE PrintfProofs ----------------------------
(***************************************************************************)
(* Proofs that vsnprintf keeps to its buffer and accounts for what it      *)
(* drops, and that it puts each field as C says but where it is known to   *)
(* differ: for every length, every format, every argument and every width  *)
(* of the types.                                                           *)
(***************************************************************************)
EXTENDS Printf, FiniteSetTheorems, SequenceTheorems, WellFoundedInduction, TLAPS

\* A text, of whatever characters.
IsText(s) == \E S : s \in Seq(S)

\* The length of a text is a number.
LEMMA TextLength ==
    ASSUME NEW s, IsText(s)
    PROVE  Len(s) \in Nat
  <1>1. PICK S : s \in Seq(S)
    BY DEF IsText
  <1> QED BY <1>1, LenProperties

\* Two texts are one.
LEMMA TextConcat ==
    ASSUME NEW s, NEW t, IsText(s), IsText(t)
    PROVE  IsText(s \o t) /\ Len(s \o t) = Len(s) + Len(t)
  <1>1. PICK S : s \in Seq(S)
    BY DEF IsText
  <1>2. PICK T : t \in Seq(T)
    BY DEF IsText
  <1>3. s \in Seq(S \cup T) /\ t \in Seq(S \cup T)
    BY <1>1, <1>2, SeqMonotonic
  <1> QED BY <1>3, ConcatProperties DEF IsText

\* The first n characters of a text.
LEMMA TextFront ==
    ASSUME NEW s, IsText(s), NEW n \in Nat, n <= Len(s)
    PROVE  IsText(SubSeq(s, 1, n)) /\ Len(SubSeq(s, 1, n)) = n
  <1>1. PICK S : s \in Seq(S)
    BY DEF IsText
  <1>2. \A i \in 1..n : s[i] \in S
    BY <1>1, LenProperties, TextLength
  <1>3. /\ SubSeq(s, 1, n) \in Seq(S)
        /\ Len(SubSeq(s, 1, n)) = IF 1 <= n THEN n - 1 + 1 ELSE 0
    BY <1>2, SubSeqProperties
  <1> DEFINE front == SubSeq(s, 1, n)
  <1>4. front \in Seq(S) /\ Len(front) = IF 1 <= n THEN n - 1 + 1 ELSE 0
    BY <1>3
  <1> HIDE DEF front
  <1>5. IsText(front)
    BY <1>4 DEF IsText
  <1>6. Len(front) = n
    BY <1>4
  <1> QED BY <1>5, <1>6 DEF front

\* Texts of no, one and two characters.
LEMMA ShortTexts ==
    ASSUME NEW c, NEW d
    PROVE  /\ IsText(<<>>) /\ IsText(<<c>>) /\ IsText(<<c, d>>)
           /\ Len(<<>>) = 0
  <1>1. \A S, s : s \in Seq(S) => IsText(s)
    BY DEF IsText
  <1>2. <<>> \in Seq({c}) /\ <<c>> \in Seq({c}) /\ <<c, d>> \in Seq({c, d})
    OBVIOUS
  <1>3. IsText(<<>>)
    BY <1>1, <1>2
  <1>4. IsText(<<c>>)
    BY <1>1, <1>2
  <1>5. IsText(<<c, d>>)
    BY <1>1, <1>2
  <1> QED BY <1>3, <1>4, <1>5

\* What a loop that fills a field of n characters leaves.
LEMMA FilledText ==
    ASSUME NEW n \in Nat, NEW f, f = [k \in 1..n |-> f[k]]
    PROVE  IsText(f)
  <1>1. f \in [1..n -> {f[k] : k \in 1..n}]
    BY SMT
  <1>2. f \in Seq({f[k] : k \in 1..n})
    BY <1>1
  <1> QED BY <1>2 DEF IsText

\* Min and Max as the comparisons they stand for.
LEMMA MinOfTwo ==
    ASSUME NEW a \in Int, NEW b \in Int
    PROVE  Min({a, b}) = IF a <= b THEN a ELSE b
  BY DEF Min

\* The larger of two.
LEMMA MaxOfTwo ==
    ASSUME NEW a \in Int, NEW b \in Int
    PROVE  Max({a, b}) = IF a >= b THEN a ELSE b
  BY DEF Max

-----------------------------------------------------------------------------
(* What a field puts is a text *)

\* Padding, of any length.
LEMMA PadText ==
    ASSUME NEW c, NEW k \in Int
    PROVE  IsText(Pad(c, k))
  <1>1. Max({k, 0}) \in Nat
    BY MaxOfTwo
  <1>2. Pad(c, k) = [j \in 1..Max({k, 0}) |-> Pad(c, k)[j]]
    BY DEF Pad
  <1> HIDE DEF Pad
  <1> QED BY <1>1, <1>2, FilledText

\* However large a number, it has a number of digits.
LEMMA DigitsText ==
    ASSUME NEW n, NEW base, NEW table
    PROVE  IsText(ToDigits(n, base, table))
  <1> DEFINE p == Places(n, base)
             f == ToDigits(n, base, table)
             top == TypeBits["longlong"] \div 3
  <1>1. p \in Nat
    <2>1. top \in Int
      BY PrintfAssumption
    <2> HIDE DEF top
    <2>2. IsFiniteSet(1..top)
      BY <2>1, FS_Interval
    <2>3. IsFiniteSet({j \in 1..top : Power(base, j) <= n})
      BY <2>2, FS_Subset
    <2>4. Cardinality({j \in 1..top : Power(base, j) <= n}) \in Nat
      BY <2>3, FS_CardinalityType
    <2> QED BY <2>4 DEF Places, top
  <1> HIDE DEF p
  <1>2. f = [k \in 1..p |-> table[((n \div Power(base, p - k)) % base) + 1]]
    BY DEF ToDigits, p
  <1>3. f = [k \in 1..p |-> f[k]]
    BY <1>2
  <1> HIDE DEF f
  <1> QED BY <1>1, <1>3, FilledText DEF f

\* The shared output code of _printf_engine.
LEMMA JustifiedText ==
    ASSUME NEW s, NEW sign, IsText(s), IsText(sign), NEW fl, NEW w \in Nat
    PROVE  IsText(Justified(s, sign, fl, w))
  <1>1. Len(s) \in Nat /\ DigitsWidth(sign, w) \in Int
    BY TextLength DEF DigitsWidth
  <1> DEFINE fill == DigitsWidth(sign, w) - Len(s)
             right == w - Len(s)
  <1>2. fill \in Int /\ right \in Int
    BY <1>1
  <1> HIDE DEF fill, right
  <1>3. IsText(Pad(" ", fill)) /\ IsText(Pad("0", fill)) /\ IsText(Pad(" ", right))
    BY <1>2, PadText
  <1>4. /\ IsText(s \o Pad(" ", right))
        /\ IsText(sign \o Pad("0", fill) \o s)
        /\ IsText(Pad(" ", fill) \o sign \o s)
    BY <1>3, TextConcat
  <1> QED BY <1>4 DEF Justified, fill, right

\* A sign, or none.
LEMMA SignText ==
    ASSUME NEW fl, NEW negative
    PROVE  IsText(SignChar(fl, negative))
  <1>1. IsText(<<"-">>) /\ IsText(<<"+">>) /\ IsText(<<" ">>) /\ IsText(<<>>)
    BY ShortTexts
  <1>2. CASE negative
    BY <1>1, <1>2 DEF SignChar
  <1>3. CASE ~negative /\ "showsign" \in fl
    BY <1>1, <1>3 DEF SignChar
  <1>4. CASE ~negative /\ "showsign" \notin fl /\ "blankpos" \in fl
    BY <1>1, <1>4 DEF SignChar
  <1>5. CASE ~negative /\ "showsign" \notin fl /\ "blankpos" \notin fl
    BY <1>1, <1>5 DEF SignChar
  <1> QED BY <1>2, <1>3, <1>4, <1>5

\* The text of %d, %i and %u.
LEMMA DecimalText ==
    ASSUME NEW n, NEW fl, NEW w \in Nat
    PROVE  IsText(Decimal(n, fl, w))
  <1>1. IsText(ToDigits(Magnitude(n), 10, HexTable)) /\ IsText(SignChar(fl, n < 0))
    BY DigitsText, SignText
  <1> QED BY <1>1, JustifiedText DEF Decimal

\* The text of %x, %X and %p.
LEMMA HexText ==
    ASSUME NEW n, NEW fl, NEW w \in Nat
    PROVE  IsText(Hex(n, fl, w))
  <1>1. IsText(Prefix(fl))
    BY ShortTexts DEF Prefix
  <1> QED BY <1>1, ShortTexts, DigitsText, JustifiedText, TextConcat DEF Hex

-----------------------------------------------------------------------------
(* The invariant *)

Room == IF written < size THEN written ELSE size

\* Of the characters formatted the first ones are in the buffer, as many as it
\* has room for, and all of them are counted (printf.c:64-84).
Accounted ==
    /\ written \in Nat /\ emitted = written
    /\ IsText(stored)
    /\ size # Console => Len(stored) = Room

\* Once vsnprintf has returned, the terminator is where lines 94-98 put it.
Ended ==
    mode = "done" /\ size # Console =>
        nul = IF written < size THEN written ELSE size - 1

PInv == TypeOK /\ Accounted /\ Ended

\* The room a text of k characters takes behind w of them.
LEMMA RoomTaken ==
    ASSUME NEW w \in Nat, NEW k \in Nat, NEW room \in Nat,
           NEW used, used = IF w < room THEN w ELSE room,
           NEW more, more = IF k <= room - used THEN k ELSE room - used
    PROVE  used + more = IF w + k < room THEN w + k ELSE room
  OBVIOUS

\* What the output callbacks do with a text.
LEMMA PutAccounts ==
    ASSUME PInv, NEW str, IsText(str), Put(str), size' = size
    PROVE  Accounted'
  <1> DEFINE s == Reaches(str)
  <1>1. IsText(s)
    BY ShortTexts DEF Reaches
  <1>2. Len(s) \in Nat
    BY <1>1, TextLength
  <1> HIDE DEF s
  <1>3. /\ stored' = IF size = Console THEN stored ELSE stored \o SubSeq(s, 1, Fits(s))
        /\ written' = written + Len(s) /\ emitted' = emitted + Len(s)
    BY DEF Put, Took, s
  <1>4. written' \in Nat /\ emitted' = written'
    BY <1>2, <1>3 DEF PInv, Accounted
  <1>5. CASE size = Console
    BY <1>3, <1>4, <1>5 DEF PInv, Accounted
  <1>6. CASE size # Console
    <2>1. size \in Nat
      BY <1>6, PrintfAssumption DEF PInv, TypeOK
    <2>2. Len(stored) = Room /\ Len(stored) \in Nat /\ Len(stored) <= size
      BY <1>6, <2>1 DEF PInv, Accounted, Room
    <2>3. /\ Fits(s) = IF Len(s) <= size - Len(stored) THEN Len(s) ELSE size - Len(stored)
          /\ Fits(s) \in Nat /\ Fits(s) <= Len(s)
      BY <1>2, <2>1, <2>2, MinOfTwo DEF Fits
    <2>4. /\ IsText(SubSeq(s, 1, Fits(s))) /\ Len(SubSeq(s, 1, Fits(s))) = Fits(s)
      BY <1>1, <2>3, TextFront
    <2>5. IsText(stored') /\ Len(stored') = Len(stored) + Fits(s)
      BY <1>3, <1>6, <2>4, TextConcat DEF PInv, Accounted
    <2>6. Len(stored') = Room'
      <3>1. written \in Nat /\ written' = written + Len(s)
        BY <1>3 DEF PInv, Accounted
      <3>2. /\ Len(stored) = IF written < size THEN written ELSE size
            /\ Len(stored') = Len(stored) + Fits(s)
        BY <2>2, <2>5 DEF Room
      <3>3. Len(stored') = IF written' < size THEN written' ELSE size
        <4> DEFINE used == Len(stored)
                   more == Fits(s)
                   k == Len(s)
                   after == Len(stored')
        <4>1. /\ k \in Nat /\ written \in Nat /\ size \in Nat
              /\ used = IF written < size THEN written ELSE size
              /\ more = IF k <= size - used THEN k ELSE size - used
              /\ after = used + more
              /\ written' = written + k
          BY <1>2, <2>1, <2>3, <3>1, <3>2
        <4> HIDE DEF used, more, k, after
        <4>2. after = IF written' < size THEN written' ELSE size
          BY <4>1, RoomTaken
        <4> QED BY <4>2 DEF after
      <3> QED BY <3>3 DEF Room
    <2> QED BY <1>4, <2>5, <2>6 DEF Accounted
  <1> QED BY <1>5, <1>6

\* A step that puts nothing.
LEMMA NothingAccounts ==
    ASSUME PInv, PutNothing, size' = size
    PROVE  Accounted'
  BY DEF PInv, Accounted, PutNothing, Room

\* The end of a field.
LEMMA FieldStep ==
    ASSUME PInv, mode = "format", nread < MaxRead, Reads("format"),
           NEW c, NEW arg, NEW text, IsText(text), EndField(c, arg, text)
    PROVE  PInv'
  <1>1. Accounted'
    BY PutAccounts DEF EndField, Reads
  <1>2. TypeOK'
    <2>1. written' \in Nat /\ emitted' \in Nat
      BY <1>1 DEF Accounted
    <2> QED BY <2>1, PrintfAssumption DEF PInv, TypeOK, EndField, Reads
  <1>3. Ended'
    BY DEF EndField, Ended
  <1> QED BY <1>1, <1>2, <1>3 DEF PInv

\* A character of a format that is not its last.
LEMMA FormatStep ==
    ASSUME PInv,
           \/ ReadPercent \/ ReadDot
           \/ \E d \in Digits : ReadDigit(d)
           \/ \E c \in DOMAIN FlagOf : ReadFlag(c)
           \/ \E c \in DOMAIN LengthOf : ReadLength(c)
    PROVE  PInv'
  <1>1. /\ PutNothing /\ size' = size /\ mode' = "format"
        /\ nread' = nread + 1 /\ nread < MaxRead
    BY DEF ReadPercent, ReadDot, ReadDigit, ReadFlag, ReadLength, InFormat, Reads
  <1>2. Accounted'
    BY <1>1, NothingAccounts
  <1>3. width' \in 0..MaxWidth
    BY PrintfAssumption DEF PInv, TypeOK, ReadPercent, ReadDot, ReadDigit, ReadFlag, ReadLength
  <1>4. flags' \subseteq {"leadzero", "longlong", "halfhalf", "caps"}
          \cup {FlagOf[c] : c \in DOMAIN FlagOf} \cup {LengthOf[c] : c \in DOMAIN LengthOf}
    BY DEF PInv, TypeOK, ReadPercent, ReadDot, ReadDigit, ReadFlag, ReadLength
  <1>5. TypeOK'
    BY <1>1, <1>2, <1>3, <1>4, PrintfAssumption DEF PInv, TypeOK, Accounted
  <1> QED BY <1>1, <1>2, <1>5 DEF PInv, Ended

\* A character outside of a format.
LEMMA TextStep ==
    ASSUME PInv, NEW c, ReadText(c)
    PROVE  PInv'
  <1>1. /\ Put(<<c>>) /\ size' = size /\ mode' = mode /\ mode = "text"
        /\ nread' = nread + 1 /\ nread < MaxRead
        /\ flags' = flags /\ width' = width
    BY DEF ReadText, Reads
  <1>2. Accounted'
    BY <1>1, ShortTexts, PutAccounts
  <1>3. TypeOK'
    BY <1>1, <1>2, PrintfAssumption DEF PInv, TypeOK, Accounted
  <1> QED BY <1>1, <1>2, <1>3 DEF PInv, Ended

\* The end of the format, where vsnprintf terminates its buffer.
LEMMA EndStep ==
    ASSUME PInv, ReadEnd
    PROVE  PInv'
  <1>1. Accounted'
    BY NothingAccounts DEF ReadEnd
  <1>2. TypeOK'
    BY <1>1 DEF PInv, TypeOK, ReadEnd, PutNothing
  <1>3. Ended'
    <2> SUFFICES ASSUME size # Console
                 PROVE  nul' = IF written < size THEN written ELSE size - 1
      BY DEF ReadEnd, PutNothing, Ended
    <2>1. nul' = IF Len(stored) >= size THEN size - 1 ELSE written
      BY DEF ReadEnd, Terminator
    <2>2. size \in Nat /\ written \in Nat /\ Len(stored) = Room
      BY PrintfAssumption DEF PInv, TypeOK, Accounted
    <2> QED BY <2>1, <2>2 DEF Room
  <1> QED BY <1>1, <1>2, <1>3 DEF PInv

\* The width of a field is a number.
LEMMA FieldWidth ==
    ASSUME PInv
    PROVE  width \in Nat
  BY PrintfAssumption DEF PInv, TypeOK

\* Each conversion puts a text.
LEMMA ConversionStep ==
    ASSUME PInv,
           \/ ReadChar \/ ReadString \/ ReadN \/ ReadPercentAgain
           \/ \E c \in Plain : ReadUnknown(c)
           \/ \E c \in {"d", "u"} : ReadDecimal(c)
           \/ \E c \in {"x", "X", "p"} : ReadHex(c)
    PROVE  PInv'
  <1>1. CASE ReadChar
    BY <1>1, ShortTexts, FieldStep DEF ReadChar, InFormat, Reads
  <1>2. CASE ReadString
    <2>1. \A s \in Strings : IsText(s)
      BY PrintfAssumption DEF IsText
    <2>2. width \in Nat /\ IsText(<<>>)
      BY FieldWidth, ShortTexts
    <2>3. \A s \in Strings : IsText(Justified(s, <<>>, flags \ {"leadzero"}, width))
      BY <2>1, <2>2, JustifiedText
    <2> QED BY <1>2, <2>3, FieldStep DEF ReadString, InFormat, Reads
  <1>3. CASE ReadN
    BY <1>3, ShortTexts, FieldStep DEF ReadN, InFormat, Reads
  <1>4. CASE ReadPercentAgain
    BY <1>4, ShortTexts, FieldStep DEF ReadPercentAgain, InFormat, Reads
  <1>5. CASE \E c \in Plain : ReadUnknown(c)
    BY <1>5, ShortTexts, FieldStep DEF ReadUnknown, InFormat, Reads
  <1>6. ASSUME NEW c, ReadDecimal(c) PROVE PInv'
    <2>1. PICK v \in Values : EndField(c, Arg(v, flags, c = "d"),
                                       Decimal(Arg(v, flags, c = "d"), flags, width))
      BY <1>6 DEF ReadDecimal
    <2>2. IsText(Decimal(Arg(v, flags, c = "d"), flags, width))
      BY FieldWidth, DecimalText
    <2> QED BY <1>6, <2>1, <2>2, FieldStep DEF ReadDecimal, InFormat, Reads
  <1>7. ASSUME NEW c, ReadHex(c) PROVE PInv'
    <2>1. PICK v \in Values :
              EndField(c, Arg(v, HexFlags(c, flags), FALSE),
                       Hex(Arg(v, HexFlags(c, flags), FALSE), HexFlags(c, flags), width))
      BY <1>7 DEF ReadHex
    <2>2. IsText(Hex(Arg(v, HexFlags(c, flags), FALSE), HexFlags(c, flags), width))
      BY FieldWidth, HexText
    <2> QED BY <1>7, <2>1, <2>2, FieldStep DEF ReadHex, InFormat, Reads
  <1> QED BY <1>1, <1>2, <1>3, <1>4, <1>5, <1>6, <1>7

\* Before the first character of the format.
LEMMA InitiallyAccounted ==
    ASSUME Init
    PROVE  PInv
  <1>1. IsText(stored) /\ Len(stored) = 0
    BY ShortTexts DEF Init
  <1>2. Accounted
    BY <1>1, PrintfAssumption DEF Init, Accounted, Room
  <1> QED BY <1>2, PrintfAssumption DEF Init, PInv, TypeOK, Ended

\* And after each.
LEMMA StepAccounted ==
    ASSUME PInv, [Next]_vars
    PROVE  PInv'
  <1>1. CASE Engine
    BY <1>1, FormatStep, TextStep, EndStep, ConversionStep DEF Engine
  <1>2. CASE UNCHANGED vars
    BY <1>2 DEF vars, PInv, TypeOK, Accounted, Ended, Room
  <1> QED BY <1>1, <1>2 DEF Next, Finished

\* Every reachable state satisfies the invariant.
THEOREM PrintfInvariance == Spec => []PInv
  <1>1. Init => PInv
    BY InitiallyAccounted
  <1>2. PInv /\ [Next]_vars => PInv'
    BY StepAccounted
  <1> QED BY <1>1, <1>2, PTL DEF Spec

\* vsnprintf stores no character behind a buffer of any length, and terminates
\* a buffer whose length is not 0 inside of it.  Length 0 is left out of the
\* second half: there the terminator goes in front of the buffer.
THEOREM BufferKept == Spec => []Terminated
  <1>1. PInv => Terminated
    <2> SUFFICES ASSUME PInv, size # Console PROVE
            /\ Len(stored) <= size
            /\ mode = "done" /\ size > 0 => nul \in 0..(size - 1) /\ nul <= Len(stored)
      BY DEF Terminated
    <2>1. size \in Nat /\ written \in Nat /\ Len(stored) = Room
      BY PrintfAssumption DEF PInv, TypeOK, Accounted
    <2> QED BY <2>1 DEF PInv, Ended, Room
  <1> QED BY <1>1, PrintfInvariance, PTL

\* The value vsnprintf returns is less than the length it was given exactly
\* when nothing was cut, for every format and every length.
THEOREM CutsReported == Spec => []TruncationReported
  <1>1. PInv => TruncationReported
    <2> SUFFICES ASSUME PInv, size # Console, mode = "done"
                 PROVE  written = emitted /\ (written < size <=> nul = emitted)
      BY DEF TruncationReported
    <2>1. size \in Nat /\ written \in Nat
      BY PrintfAssumption DEF PInv, TypeOK, Accounted
    <2> QED BY <2>1 DEF PInv, Accounted, Ended
  <1> QED BY <1>1, PrintfInvariance, PTL
-----------------------------------------------------------------------------
(* Powers *)

\* A set of numbers that has the first, and with each the next, has them all.
LEMMA CountedUpTo ==
    ASSUME NEW n \in Nat, NEW T, 0 \in T, \A k \in 1..n : k - 1 \in T => k \in T
    PROVE  0..n \subseteq T
  <1> DEFINE Missing == {k \in Nat : k \in 0..n /\ k \notin T}
  <1>1. ASSUME Missing # {} PROVE FALSE
    <2>1. Missing \subseteq Nat
      OBVIOUS
    <2> HIDE DEF Missing
    <2>2. PICK m \in Missing : \A k \in Missing : ~(<<k, m>> \in OpToRel(<, Nat))
      BY <1>1, <2>1, WFMin, NatLessThanWellFounded, Zenon
    <2>3. \A k \in Missing : ~(k < m)
      BY <2>1, <2>2 DEF OpToRel
    <2>4. m \in 0..n /\ m \notin T /\ m # 0
      BY <2>2 DEF Missing
    <2>5. m \in 1..n /\ m - 1 \in 0..n /\ m - 1 \in Nat /\ m - 1 < m
      BY <2>4
    <2>6. m - 1 \in T
      BY <2>3, <2>5 DEF Missing
    <2> QED BY <2>4, <2>5, <2>6
  <1>2. \A k \in 0..n : k \in Nat
    OBVIOUS
  <1> QED BY <1>1, <1>2

\* The turns of a power, of which there is one sequence.
PowerTurns(b, k, f) == f = [j \in 0..k |-> IF j = 0 THEN 1 ELSE b * f[j - 1]]

\* Each turn of that recursion multiplies once more.
LEMMA PowerTurn ==
    ASSUME NEW b \in Nat, NEW k \in Nat, NEW f, PowerTurns(b, k, f)
    PROVE  f[0] = 1 /\ \A j \in 1..k : f[j] = b * f[j - 1]
  <1>1. \A j \in 0..k : f[j] = IF j = 0 THEN 1 ELSE b * f[j - 1]
    BY Zenon DEF PowerTurns
  <1>2. 0 \in 0..k /\ \A j \in 1..k : j \in 0..k /\ j # 0
    OBVIOUS
  <1> QED BY <1>1, <1>2, Zenon

\* There is a function the recursion asks for, up to any power.
LEMMA PowerTurnsExist ==
    ASSUME NEW b \in Nat, NEW k \in Nat
    PROVE  \E f : PowerTurns(b, k, f)
  <1> DEFINE Some == {m \in 0..k : \E f : PowerTurns(b, m, f)}
  <1>1. 0 \in Some
    <2>1. PICK f : f = [j \in 0..0 |-> 1]
      OBVIOUS
    <2>2. \A j \in 0..0 : j = 0
      OBVIOUS
    <2>3. f = [j \in 0..0 |-> IF j = 0 THEN 1 ELSE b * f[j - 1]]
      BY <2>1, <2>2, Zenon
    <2>4. PowerTurns(b, 0, f)
      BY <2>3 DEF PowerTurns
    <2> QED BY <2>4
  <1>2. ASSUME NEW m \in 1..k, m - 1 \in Some PROVE m \in Some
    <2>1. PICK f : PowerTurns(b, m - 1, f)
      BY <1>2
    <2> DEFINE g == [j \in 0..m |-> IF j = 0 THEN 1 ELSE b * f[j - 1]]
    <2>2. \A j \in 0..(m - 1) : g[j] = f[j]
      <3>1. \A j \in 0..(m - 1) : j \in 0..m
        OBVIOUS
      <3> QED BY <2>1, <3>1, Zenon DEF PowerTurns
    <2>3. \A j \in 0..m : j # 0 => j - 1 \in 0..(m - 1)
      OBVIOUS
    <2>4. \A j \in 0..m : j # 0 => g[j - 1] = f[j - 1]
      BY <2>2, <2>3
    <2>5. PowerTurns(b, m, g)
      BY <2>4, Zenon DEF PowerTurns
    <2> HIDE DEF g
    <2> QED BY <2>5
  <1> HIDE DEF Some
  <1>3. k \in Some
    <2>1. 0..k \subseteq Some
      BY <1>1, <1>2, CountedUpTo
    <2> QED BY <2>1
  <1> QED BY <1>3 DEF Some

\* Power reads it, whatever power the recursion was started for.
LEMMA PowerIsTurn ==
    ASSUME NEW b \in Nat, NEW k \in Nat, NEW f, PowerTurns(b, k, f)
    PROVE  \A j \in 0..k : Power(b, j) = f[j]
  <1> SUFFICES ASSUME NEW j \in 0..k PROVE Power(b, j) = f[j]
    OBVIOUS
  <1>1. j \in Nat
    OBVIOUS
  <1>2. PICK g : g = CHOOSE h : PowerTurns(b, j, h)
    OBVIOUS
  <1>3. PowerTurns(b, j, g)
    BY <1>1, <1>2, PowerTurnsExist, Zenon
  <1>4. Power(b, j) = g[j]
    BY <1>2, Zenon DEF Power, PowerTurns
  <1>5. f[0] = 1 /\ \A m \in 1..k : f[m] = b * f[m - 1]
    BY PowerTurn
  <1>6. g[0] = 1 /\ \A m \in 1..j : g[m] = b * g[m - 1]
    BY <1>1, <1>3, PowerTurn
  <1> DEFINE Same == {m \in 0..j : f[m] = g[m]}
  <1>7. 0 \in Same
    BY <1>5, <1>6
  <1>8. ASSUME NEW m \in 1..j, m - 1 \in Same PROVE m \in Same
    <2>1. m \in 1..k /\ f[m - 1] = g[m - 1]
      BY <1>8
    <2>2. f[m] = g[m]
      BY <1>5, <1>6, <2>1
    <2> QED BY <2>2
  <1> HIDE DEF Same
  <1>9. j \in Same
    <2>1. 0..j \subseteq Same
      BY <1>1, <1>7, <1>8, CountedUpTo
    <2> QED BY <2>1
  <1> QED BY <1>4, <1>9 DEF Same

\* What the recursion says.
LEMMA PowerIs ==
    ASSUME NEW b \in Nat
    PROVE  Power(b, 0) = 1 /\ \A k \in Nat : Power(b, k + 1) = b * Power(b, k)
  <1>1. ASSUME NEW k \in Nat
        PROVE  Power(b, 0) = 1 /\ Power(b, k + 1) = b * Power(b, k)
    <2>1. k + 1 \in Nat /\ k + 1 \in 1..(k + 1) /\ (k + 1) - 1 = k
          /\ 0 \in 0..(k + 1) /\ k \in 0..(k + 1) /\ k + 1 \in 0..(k + 1)
      OBVIOUS
    <2>2. PICK f : PowerTurns(b, k + 1, f)
      BY <2>1, PowerTurnsExist
    <2>3. f[0] = 1 /\ f[k + 1] = b * f[k]
      <3>1. f[0] = 1 /\ \A j \in 1..(k + 1) : f[j] = b * f[j - 1]
        BY <2>1, <2>2, PowerTurn
      <3> QED BY <2>1, <3>1
    <2>4. \A j \in 0..(k + 1) : Power(b, j) = f[j]
      BY <2>1, <2>2, PowerIsTurn
    <2> QED BY <2>1, <2>3, <2>4, Zenon
  <1>2. 0 \in Nat
    OBVIOUS
  <1> QED BY <1>1, <1>2

\* Powers are positive numbers.
LEMMA PowerPositive ==
    ASSUME NEW b \in Nat \ {0}
    PROVE  \A k \in Nat : Power(b, k) \in Nat \ {0}
  <1> SUFFICES ASSUME NEW k \in Nat PROVE Power(b, k) \in Nat \ {0}
    OBVIOUS
  <1> DEFINE T == {m \in 0..k : Power(b, m) \in Nat \ {0}}
  <1>1. 0 \in T
    BY PowerIs
  <1>2. ASSUME NEW m \in 1..k, m - 1 \in T PROVE m \in T
    <2>1. PICK p \in Nat \ {0} : p = Power(b, m - 1)
      BY <1>2
    <2>2. Power(b, m) = b * p
      <3>1. m - 1 \in Nat /\ (m - 1) + 1 = m
        OBVIOUS
      <3> QED BY <2>1, <3>1, PowerIs
    <2>3. b * p \in Nat \ {0}
      OBVIOUS
    <2> QED BY <2>2, <2>3
  <1> HIDE DEF T
  <1>3. k \in T
    <2>1. 0..k \subseteq T
      BY <1>1, <1>2, CountedUpTo
    <2> QED BY <2>1
  <1> QED BY <1>3 DEF T

\* A product with a larger number is larger.
LEMMA TimesMonotonic ==
    ASSUME NEW a \in Int, NEW b \in Int, NEW w \in Nat, a <= b
    PROVE  a * w <= b * w
  <1>1. PICK d \in Nat : b = a + d
    <2>1. b - a \in Nat /\ b = a + (b - a)
      OBVIOUS
    <2> QED BY <2>1
  <1>2. d * w >= 0
    OBVIOUS
  <1>3. b * w = a * w + d * w
    BY <1>1
  <1> QED BY <1>2, <1>3

\* With the exponent a power of two or more grows.
LEMMA PowerGrows ==
    ASSUME NEW b \in Nat, b >= 2, NEW j \in Nat, NEW k \in Nat, j < k
    PROVE  Power(b, j) < Power(b, k)
  <1>1. \A m \in Nat : Power(b, m) \in Nat \ {0}
    BY PowerPositive
  <1> DEFINE T == {m \in 0..k : m > j => Power(b, j) < Power(b, m)}
  <1>2. 0 \in T
    OBVIOUS
  <1>3. ASSUME NEW m \in 1..k, m - 1 \in T PROVE m \in T
    <2>1. PICK p \in Nat \ {0} : p = Power(b, m - 1)
      BY <1>1
    <2>2. Power(b, m) = b * p
      <3>1. m - 1 \in Nat /\ (m - 1) + 1 = m
        OBVIOUS
      <3> QED BY <2>1, <3>1, PowerIs
    <2>3. 2 * p <= b * p
      BY TimesMonotonic
    <2>4. PICK r \in Nat : r = b * p
      OBVIOUS
    <2>5. p < r
      BY <2>3, <2>4
    <2>6. CASE m > j
      <3>1. CASE m - 1 = j
        BY <2>1, <2>2, <2>4, <2>5, <3>1
      <3>2. CASE m - 1 > j
        <4>1. Power(b, j) < p
          BY <1>3, <2>1, <3>2
        <4>2. Power(b, j) \in Nat
          BY <1>1
        <4> QED BY <2>2, <2>4, <2>5, <4>1, <4>2
      <3> QED BY <2>6, <3>1, <3>2
    <2> QED BY <2>6
  <1> HIDE DEF T
  <1>4. k \in T
    <2>1. 0..k \subseteq T
      BY <1>2, <1>3, CountedUpTo
    <2> QED BY <2>1
  <1> QED BY <1>4 DEF T

\* Above every number there is a power, no further than itself.
LEMMA PowerPasses ==
    ASSUME NEW b \in Nat, b >= 2, NEW n \in Nat
    PROVE  n < Power(b, n)
  <1>1. \A m \in Nat : Power(b, m) \in Nat \ {0}
    BY PowerPositive
  <1> DEFINE T == {m \in 0..n : m < Power(b, m)}
  <1>2. 0 \in T
    BY PowerIs
  <1>3. ASSUME NEW m \in 1..n, m - 1 \in T PROVE m \in T
    <2>1. m - 1 < Power(b, m - 1) /\ m - 1 \in Nat /\ m \in Nat /\ m - 1 < m
      BY <1>3
    <2>2. Power(b, m - 1) < Power(b, m)
      BY <2>1, PowerGrows
    <2>3. Power(b, m - 1) \in Nat /\ Power(b, m) \in Nat
      BY <1>1, <2>1
    <2> QED BY <2>1, <2>2, <2>3
  <1> HIDE DEF T
  <1>4. n \in T
    <2>1. 0..n \subseteq T
      BY <1>2, <1>3, CountedUpTo
    <2> QED BY <2>1
  <1> QED BY <1>4 DEF T

\* A power of 8 or more is at least that of 2 to three times the exponent.
LEMMA EightIsThree ==
    ASSUME NEW b \in Nat, b >= 8, NEW k \in Nat
    PROVE  Power(2, 3 * k) <= Power(b, k)
  <1>1. /\ \A m \in Nat : Power(b, m) \in Nat \ {0}
        /\ \A m \in Nat : Power(2, m) \in Nat \ {0}
    BY PowerPositive
  <1> DEFINE T == {m \in 0..k : Power(2, 3 * m) <= Power(b, m)}
  <1>2. 0 \in T
    <2>1. 3 * 0 = 0
      OBVIOUS
    <2> QED BY <2>1, PowerIs
  <1>3. ASSUME NEW m \in 1..k, m - 1 \in T PROVE m \in T
    <2>1. PICK e \in Nat : e = 3 * (m - 1)
      OBVIOUS
    <2>2. e + 1 \in Nat /\ e + 2 \in Nat /\ (e + 1) + 1 = e + 2 /\ (e + 2) + 1 = 3 * m
          /\ m - 1 \in Nat /\ (m - 1) + 1 = m
      BY <2>1
    <2>3. PICK p \in Nat, q \in Nat : p = Power(2, e) /\ q = Power(b, m - 1)
      BY <1>1, <2>2
    <2>4. p <= q
      BY <1>3, <2>1, <2>3
    <2>5. Power(2, e + 1) = 2 * p
      BY <2>3, PowerIs
    <2>6. Power(2, e + 2) = 2 * (2 * p)
      BY <2>2, <2>5, PowerIs
    <2>7. Power(2, 3 * m) = 2 * (2 * (2 * p))
      <3>1. Power(2, (e + 2) + 1) = 2 * Power(2, e + 2)
        BY <2>2, PowerIs
      <3> QED BY <2>2, <2>6, <3>1, Zenon
    <2>8. Power(b, m) = b * q
      BY <2>2, <2>3, PowerIs
    <2>9. 8 * q <= b * q
      BY TimesMonotonic
    <2>10. PICK r \in Nat : r = b * q
      OBVIOUS
    <2>11. 2 * (2 * (2 * p)) <= r
      BY <2>4, <2>9, <2>10
    <2> QED BY <2>7, <2>8, <2>10, <2>11
  <1> HIDE DEF T
  <1>4. k \in T
    <2>1. 0..k \subseteq T
      BY <1>2, <1>3, CountedUpTo
    <2> QED BY <2>1
  <1> QED BY <1>4 DEF T

-----------------------------------------------------------------------------
(* Quotients *)

\* Quotient and remainder.
LEMMA Division ==
    ASSUME NEW n \in Nat, NEW d \in Nat \ {0}
    PROVE  /\ n \div d \in Nat /\ n % d \in 0..(d - 1)
           /\ (n % d) + d * (n \div d) = n
  OBVIOUS

\* There is one quotient.
LEMMA QuotientIs ==
    ASSUME NEW n \in Nat, NEW d \in Nat \ {0}, NEW q \in Nat, NEW r \in 0..(d - 1), r + d * q = n
    PROVE  n \div d = q /\ n % d = r
  <1>1. PICK t \in Nat, m \in 0..(d - 1) : t = n \div d /\ m = n % d /\ m + d * t = n
    BY Division
  <1>2. ASSUME t < q PROVE FALSE
    <2>1. (t + 1) * d <= q * d
      BY <1>2, TimesMonotonic
    <2>2. (t + 1) * d = d * t + d /\ q * d = d * q
      OBVIOUS
    <2>3. PICK x \in Nat, y \in Nat : x = d * t /\ y = d * q
      OBVIOUS
    <2> QED BY <1>1, <2>1, <2>2, <2>3
  <1>3. ASSUME q < t PROVE FALSE
    <2>1. (q + 1) * d <= t * d
      BY <1>3, TimesMonotonic
    <2>2. (q + 1) * d = d * q + d /\ t * d = d * t
      OBVIOUS
    <2>3. PICK x \in Nat, y \in Nat : x = d * t /\ y = d * q
      OBVIOUS
    <2> QED BY <1>1, <2>1, <2>2, <2>3
  <1>4. t = q
    BY <1>2, <1>3
  <1>5. PICK y \in Nat : y = d * q
    OBVIOUS
  <1>6. m + y = n /\ r + y = n
    BY <1>1, <1>4, <1>5
  <1>7. m = r
    BY <1>6
  <1> QED BY <1>1, <1>4, <1>7

\* A quotient of a quotient.
LEMMA QuotientTwice ==
    ASSUME NEW n \in Nat, NEW b \in Nat \ {0}, NEW d \in Nat \ {0}
    PROVE  (n \div b) \div d = n \div (b * d)
  <1>1. PICK q \in Nat, r \in 0..(b - 1) : q = n \div b /\ r + b * q = n
    BY Division
  <1>2. PICK t \in Nat, m \in 0..(d - 1) : t = q \div d /\ m + d * t = q
    BY Division
  <1>3. PICK e \in Nat \ {0} : e = b * d
    OBVIOUS
  <1>4. b * q = b * m + e * t
    <2>1. b * (m + d * t) = b * m + b * (d * t)
      OBVIOUS
    <2>2. b * (d * t) = (b * d) * t
      OBVIOUS
    <2> QED BY <1>2, <1>3, <2>1, <2>2
  <1>5. r + b * m \in 0..(e - 1)
    <2>1. (m + 1) * b <= d * b
      BY TimesMonotonic
    <2>2. (m + 1) * b = b * m + b /\ d * b = b * d
      OBVIOUS
    <2>3. PICK x \in Nat : x = b * m
      OBVIOUS
    <2> QED BY <1>3, <2>1, <2>2, <2>3
  <1>6. PICK s \in 0..(e - 1) : s = r + b * m
    BY <1>5
  <1>7. s + e * t = n
    <2>1. PICK x \in Nat, y \in Nat, z \in Nat : x = b * m /\ y = e * t /\ z = b * q
      OBVIOUS
    <2> QED BY <1>1, <1>4, <1>6, <2>1
  <1>8. n \div e = t
    BY <1>6, <1>7, QuotientIs
  <1> QED BY <1>1, <1>2, <1>3, <1>8

\* A quotient and a power.
LEMMA QuotientBelow ==
    ASSUME NEW n \in Nat, NEW b \in Nat \ {0}, NEW x \in Nat
    PROVE  n < b * x <=> n \div b < x
  <1>1. PICK q \in Nat, r \in 0..(b - 1) : q = n \div b /\ r + b * q = n
    BY Division
  <1>2. PICK y \in Nat, z \in Nat : y = b * x /\ z = b * q
    OBVIOUS
  <1>3. ASSUME q < x PROVE n < y
    <2>1. (q + 1) * b <= x * b
      BY <1>3, TimesMonotonic
    <2>2. (q + 1) * b = b * q + b /\ x * b = b * x
      OBVIOUS
    <2> QED BY <1>1, <1>2, <2>1, <2>2
  <1>4. ASSUME x <= q PROVE y <= n
    <2>1. x * b <= q * b
      BY <1>4, TimesMonotonic
    <2>2. x * b = b * x /\ q * b = b * q
      OBVIOUS
    <2> QED BY <1>1, <1>2, <2>1, <2>2
  <1> QED BY <1>1, <1>2, <1>3, <1>4

-----------------------------------------------------------------------------
(* Digits *)

\* n has p digits.
HasDigits(n, b, p) ==
    p \in Nat \ {0} /\ n < Power(b, p) /\ (p = 1 \/ Power(b, p - 1) <= n)

\* Every number has a number of digits.
LEMMA SomeDigits ==
    ASSUME NEW n \in Nat, NEW b \in Nat, b >= 2
    PROVE  \E p : HasDigits(n, b, p)
  <1> DEFINE Enough == {p \in Nat \ {0} : n < Power(b, p)}
  <1>1. \A k \in Nat : Power(b, k) \in Nat \ {0}
    BY PowerPositive
  <1>2. n + 1 \in Enough
    <2>1. n + 1 < Power(b, n + 1)
      BY PowerPasses
    <2>2. Power(b, n + 1) \in Nat
      BY <1>1
    <2>3. n < Power(b, n + 1)
      BY <2>1, <2>2
    <2> QED BY <2>3
  <1>3. Enough \subseteq Nat /\ Enough # {}
    BY <1>2
  <1>4. PICK p \in Enough : \A k \in Enough : ~(<<k, p>> \in OpToRel(<, Nat))
    <2> HIDE DEF Enough
    <2> QED BY <1>3, WFMin, NatLessThanWellFounded, Zenon
  <1>5. \A k \in Enough : ~(k < p)
    <2> HIDE DEF Enough
    <2> QED BY <1>3, <1>4 DEF OpToRel
  <1>6. p \in Nat \ {0} /\ n < Power(b, p)
    OBVIOUS
  <1>7. ASSUME p # 1 PROVE Power(b, p - 1) <= n
    <2>1. p - 1 \in Nat \ {0} /\ p - 1 < p
      BY <1>6, <1>7
    <2>2. ~(n < Power(b, p - 1))
      BY <1>5, <2>1
    <2>3. Power(b, p - 1) \in Nat
      BY <1>1, <2>1
    <2> QED BY <2>2, <2>3
  <1> QED BY <1>6, <1>7 DEF HasDigits

\* A power not above n has an exponent less than the digits of n.
LEMMA DigitsBound ==
    ASSUME NEW n \in Nat, NEW b \in Nat, b >= 2, NEW p, HasDigits(n, b, p), NEW j \in Nat \ {0}
    PROVE  Power(b, j) <= n <=> j < p
  <1>1. p \in Nat \ {0} /\ n < Power(b, p) /\ (p # 1 => p - 1 \in Nat /\ Power(b, p - 1) <= n)
    BY DEF HasDigits
  <1>2. \A k \in Nat : Power(b, k) \in Nat
    BY PowerPositive
  <1>3. ASSUME j < p PROVE Power(b, j) <= n
    <2>1. p # 1 /\ p - 1 \in Nat
      BY <1>1, <1>3
    <2>2. CASE j = p - 1
      BY <1>1, <2>1, <2>2
    <2>3. CASE j < p - 1
      <3>1. Power(b, j) < Power(b, p - 1)
        BY <2>1, <2>3, PowerGrows
      <3> QED BY <1>1, <1>2, <2>1, <3>1
    <2> QED BY <1>1, <1>3, <2>2, <2>3
  <1>4. ASSUME p <= j PROVE n < Power(b, j)
    <2>1. CASE p = j
      BY <1>1, <2>1
    <2>2. CASE p < j
      <3>1. Power(b, p) < Power(b, j)
        BY <1>1, <2>2, PowerGrows
      <3> QED BY <1>1, <1>2, <3>1
    <2> QED BY <1>1, <1>4, <2>1, <2>2
  <1>5. Power(b, j) \in Nat
    BY <1>2
  <1> QED BY <1>1, <1>3, <1>4, <1>5

\* The number of digits is one number.
LEMMA DigitsUnique ==
    ASSUME NEW n \in Nat, NEW b \in Nat, b >= 2, NEW p, HasDigits(n, b, p),
           NEW q, HasDigits(n, b, q)
    PROVE  p = q
  <1>1. p \in Nat \ {0} /\ q \in Nat \ {0}
    BY DEF HasDigits
  <1>2. (Power(b, p) <= n <=> p < q) /\ (Power(b, q) <= n <=> q < p)
        /\ (Power(b, p) <= n <=> p < p) /\ (Power(b, q) <= n <=> q < q)
    BY <1>1, DigitsBound
  <1> QED BY <1>1, <1>2

\* A number of one digit, and the first digits of one of more.
LEMMA DigitsOfQuotient ==
    ASSUME NEW n \in Nat, NEW b \in Nat, b >= 2, NEW p, HasDigits(n, b, p)
    PROVE  /\ n < b <=> p = 1
           /\ n >= b => HasDigits(n \div b, b, p - 1)
  <1>1. p \in Nat \ {0} /\ n < Power(b, p)
    BY DEF HasDigits
  <1>2. Power(b, 1) = b
    <2>1. Power(b, 0 + 1) = b * Power(b, 0) /\ Power(b, 0) = 1 /\ 0 + 1 = 1 /\ b * 1 = b
      BY PowerIs
    <2> QED BY <2>1, Zenon
  <1>3. Power(b, 1) <= n <=> 1 < p
    BY DigitsBound
  <1>4. n < b <=> p = 1
    BY <1>1, <1>2, <1>3
  <1>5. ASSUME n >= b PROVE HasDigits(n \div b, b, p - 1)
    <2>1. p - 1 \in Nat \ {0} /\ (p - 1) + 1 = p
      BY <1>1, <1>4, <1>5
    <2>2. PICK x \in Nat : x = Power(b, p - 1)
      BY <2>1, PowerPositive
    <2>3. Power(b, p) = b * x
      BY <2>1, <2>2, PowerIs
    <2>4. n \div b < x
      BY <1>1, <2>3, QuotientBelow
    <2>5. ASSUME p - 1 # 1 PROVE Power(b, (p - 1) - 1) <= n \div b
      <3>1. (p - 1) - 1 \in Nat /\ ((p - 1) - 1) + 1 = p - 1
        BY <2>1, <2>5
      <3>2. PICK y \in Nat : y = Power(b, (p - 1) - 1)
        BY <3>1, PowerPositive
      <3>3. x = b * y
        BY <2>2, <3>1, <3>2, PowerIs
      <3>4. x <= n
        BY <2>1, <2>2, <2>5 DEF HasDigits
      <3>5. ~(n < b * y)
        BY <3>3, <3>4
      <3>6. ~(n \div b < y)
        BY <3>5, QuotientBelow
      <3>7. n \div b \in Nat
        BY Division
      <3> QED BY <3>2, <3>6, <3>7
    <2> QED BY <2>1, <2>2, <2>4, <2>5 DEF HasDigits
  <1> QED BY <1>4, <1>5

\* Every value of the widest type has as many digits as Places counts.
LEMMA PlacesIs ==
    ASSUME NEW b \in Nat, b >= 8, NEW n \in Nat, n < Power(2, TypeBits["longlong"])
    PROVE  HasDigits(n, b, Places(n, b))
  <1>1. PICK L \in Nat \ {0} : L = TypeBits["longlong"]
    BY PrintfAssumption
  <1>2. PICK top \in Nat : top = L \div 3 /\ \A j \in Nat : 3 * j < L => j <= top
    OBVIOUS
  <1>3. PICK p : HasDigits(n, b, p)
    BY SomeDigits
  <1>4. p \in Nat \ {0}
    BY <1>3 DEF HasDigits
  <1>5. \A j \in Nat \ {0} : Power(b, j) <= n <=> j < p
    BY <1>3, DigitsBound
  <1>6. ASSUME NEW j \in Nat \ {0}, j < p PROVE j <= top
    <2>1. Power(2, 3 * j) <= Power(b, j)
      BY EightIsThree
    <2>2. PICK e \in Nat : e = 3 * j
      OBVIOUS
    <2>3. Power(2, e) \in Nat /\ Power(b, j) \in Nat /\ Power(2, L) \in Nat
      <3>1. 2 \in Nat \ {0} /\ b \in Nat \ {0}
        OBVIOUS
      <3>2. /\ \A k \in Nat : Power(2, k) \in Nat \ {0}
            /\ \A k \in Nat : Power(b, k) \in Nat \ {0}
        BY <3>1, PowerPositive, Zenon
      <3> QED BY <3>2
    <2>4. Power(b, j) <= n
      BY <1>5, <1>6
    <2>5. Power(2, e) < Power(2, L)
      BY <1>1, <2>1, <2>2, <2>3, <2>4
    <2>6. e < L
      <3>1. SUFFICES ASSUME L <= e PROVE FALSE
        OBVIOUS
      <3>2. CASE L = e
        BY <2>3, <2>5, <3>2
      <3>3. CASE L < e
        <4>1. Power(2, L) < Power(2, e)
          BY <3>3, PowerGrows
        <4> QED BY <2>3, <2>5, <4>1
      <3> QED BY <3>1, <3>2, <3>3
    <2> QED BY <1>2, <2>2, <2>6
  <1>7. {j \in 1..top : Power(b, j) <= n} = 1..(p - 1)
    BY <1>4, <1>5, <1>6
  <1>8. Cardinality(1..(p - 1)) = p - 1
    <2>1. PICK m \in Nat : m = p - 1
      BY <1>4
    <2>2. 1 \in Int /\ m \in Int
      OBVIOUS
    <2>3. Cardinality(1..m) = IF 1 > m THEN 0 ELSE m - 1 + 1
      BY <2>2, FS_Interval, Zenon
    <2> QED BY <2>1, <2>3
  <1>9. Places(n, b) = 1 + Cardinality(1..(p - 1))
    BY <1>1, <1>2, <1>7 DEF Places
  <1>10. Places(n, b) = p
    BY <1>4, <1>8, <1>9
  <1> QED BY <1>3, <1>10

\* The digits of n by the power they stand for.
Spelled(n, b, table, p) == [k \in 1..p |-> table[((n \div Power(b, p - k)) % b) + 1]]

Characters(b, table) == {table[d] : d \in 1..b}

IsSpelled(s, n, b, table, p) ==
    /\ s \in Seq(Characters(b, table)) /\ Len(s) = p
    /\ \A k \in 1..p : s[k] = table[((n \div Power(b, p - k)) % b) + 1]

\* The loop that fills num_buffer leaves characters of its table.
LEMMA SpelledText ==
    ASSUME NEW n \in Nat, NEW b \in Nat, b >= 2, NEW table, NEW p \in Nat
    PROVE  IsSpelled(Spelled(n, b, table, p), n, b, table, p)
  <1> DEFINE S == Characters(b, table)
  <1>1. PICK s : s = Spelled(n, b, table, p)
    OBVIOUS
  <1>2. /\ DOMAIN s = 1..p /\ s = [k \in 1..p |-> s[k]]
        /\ \A k \in 1..p : s[k] = table[((n \div Power(b, p - k)) % b) + 1]
    BY <1>1, Zenon DEF Spelled
  <1>3. ASSUME NEW k \in 1..p PROVE s[k] \in S
    <2>1. p - k \in Nat
      OBVIOUS
    <2>2. PICK x \in Nat \ {0} : x = Power(b, p - k)
      BY <2>1, PowerPositive
    <2>3. PICK y \in Nat : y = n \div x
      BY Division
    <2>4. PICK d \in 0..(b - 1) : d = y % b
      BY Division
    <2>5. d + 1 \in 1..b
      OBVIOUS
    <2>6. s[k] = table[d + 1]
      BY <1>2, <2>2, <2>3, <2>4
    <2> QED BY <2>5, <2>6 DEF Characters
  <1> HIDE DEF S
  <1>4. s \in Seq(S)
    BY <1>2, <1>3
  <1>5. Len(s) = p
    BY <1>2, <1>4, LenProperties
  <1> QED BY <1>1, <1>2, <1>4, <1>5 DEF S, IsSpelled

\* One digit.
LEMMA SpelledOne ==
    ASSUME NEW n \in Nat, NEW b \in Nat, b >= 2, n < b, NEW table
    PROVE  Spelled(n, b, table, 1) = <<table[n + 1]>>
  <1>1. PICK s, t : s = Spelled(n, b, table, 1) /\ t = <<table[n + 1]>>
    OBVIOUS
  <1> DEFINE S == Characters(b, table)
  <1>2. s \in Seq(S) /\ Len(s) = 1 /\ s[1] = table[((n \div Power(b, 1 - 1)) % b) + 1]
    <2>1. 1 \in Nat /\ 1 \in 1..1
      OBVIOUS
    <2>2. /\ s \in Seq(S) /\ Len(s) = 1
          /\ \A k \in 1..1 : s[k] = table[((n \div Power(b, 1 - k)) % b) + 1]
      <3>1. IsSpelled(s, n, b, table, 1)
        BY <1>1, <2>1, SpelledText, Zenon
      <3> QED BY <3>1 DEF IsSpelled
    <2> QED BY <2>1, <2>2, Zenon
  <1>3. (n \div Power(b, 1 - 1)) % b = n
    <2>1. 1 - 1 = 0 /\ Power(b, 0) = 1
      BY PowerIs
    <2>2. n \div 1 = n /\ n % b = n
      OBVIOUS
    <2> QED BY <2>1, <2>2
  <1>4. table[n + 1] \in S
    BY DEF Characters
  <1> HIDE DEF S
  <1>5. t \in Seq(S) /\ Len(t) = 1 /\ t[1] = table[n + 1]
    BY <1>1, <1>4
  <1>6. \A k \in 1..1 : s[k] = t[k]
    BY <1>2, <1>3, <1>5
  <1>7. s = t
    BY <1>2, <1>5, <1>6, SeqEqual
  <1> QED BY <1>1, <1>7

\* The last digit, and those before it.
LEMMA SpelledMore ==
    ASSUME NEW n \in Nat, NEW b \in Nat, b >= 2, NEW table, NEW p \in Nat, p >= 1
    PROVE  Spelled(n, b, table, p + 1)
               = Append(Spelled(n \div b, b, table, p), table[(n % b) + 1])
  <1> DEFINE S == Characters(b, table)
  <1>1. PICK q \in Nat, d \in 0..(b - 1) : q = n \div b /\ d = n % b
    <2>1. b \in Nat \ {0}
      OBVIOUS
    <2> QED BY <2>1, Division
  <1>2. PICK s, t, x, u : /\ s = Spelled(n, b, table, p + 1) /\ t = Spelled(q, b, table, p)
                          /\ x = table[d + 1] /\ u = Append(t, x)
    OBVIOUS
  <1>3. p + 1 \in Nat
    OBVIOUS
  <1>4. /\ s \in Seq(S) /\ Len(s) = p + 1
        /\ \A k \in 1..(p + 1) : s[k] = table[((n \div Power(b, (p + 1) - k)) % b) + 1]
    <2>1. IsSpelled(s, n, b, table, p + 1)
      BY <1>2, <1>3, SpelledText, Zenon
    <2> QED BY <2>1 DEF IsSpelled
  <1>5. /\ t \in Seq(S) /\ Len(t) = p
        /\ \A k \in 1..p : t[k] = table[((q \div Power(b, p - k)) % b) + 1]
    <2>1. IsSpelled(t, q, b, table, p)
      BY <1>2, SpelledText, Zenon
    <2> QED BY <2>1 DEF IsSpelled
  <1>6. x \in S
    BY <1>2 DEF Characters
  <1> HIDE DEF S
  <1>7. /\ u \in Seq(S) /\ Len(u) = p + 1 /\ u[p + 1] = x
        /\ \A k \in 1..p : u[k] = t[k]
    BY <1>2, <1>5, <1>6, AppendProperties
  <1>8. ASSUME NEW k \in 1..(p + 1) PROVE s[k] = u[k]
    <2>1. CASE k = p + 1
      <3>1. (p + 1) - k = 0 /\ Power(b, 0) = 1
        BY <2>1, PowerIs
      <3>2. n \div 1 = n
        OBVIOUS
      <3>3. s[k] = table[(n % b) + 1]
        BY <1>4, <3>1, <3>2
      <3> QED BY <1>1, <1>2, <1>7, <2>1, <3>3
    <2>2. CASE k # p + 1
      <3>1. k \in 1..p /\ p - k \in Nat /\ (p + 1) - k = (p - k) + 1
        BY <2>2
      <3>2. PICK y \in Nat \ {0} : y = Power(b, p - k)
        BY <3>1, PowerPositive
      <3>3. Power(b, (p + 1) - k) = b * y
        BY <3>1, <3>2, PowerIs
      <3>4. n \div (b * y) = q \div y
        <4>1. b \in Nat \ {0}
          OBVIOUS
        <4>2. (n \div b) \div y = n \div (b * y)
          BY <4>1, QuotientTwice
        <4> QED BY <1>1, <4>2
      <3>5. s[k] = table[((n \div (b * y)) % b) + 1]
        BY <1>4, <3>3
      <3>6. t[k] = table[((q \div y) % b) + 1]
        BY <1>5, <3>1, <3>2
      <3> QED BY <1>7, <3>1, <3>4, <3>5, <3>6, Zenon
    <2> QED BY <2>1, <2>2
  <1>9. s = u
    BY <1>4, <1>7, <1>8, SeqEqual
  <1> QED BY <1>1, <1>2, <1>9

\* What the recursion of Numeral asks for.
NumeralTurns(b, table, f) ==
    f = [m \in Nat |-> IF m < b THEN <<table[m + 1]>>
                       ELSE Append(f[m \div b], table[(m % b) + 1])]

\* The digits are one solution.
LEMMA SpelledIsNumeral ==
    ASSUME NEW b \in Nat, b >= 2, NEW table
    PROVE  \E f : NumeralTurns(b, table, f)
  <1> DEFINE P(m) == CHOOSE p : HasDigits(m, b, p)
  <1>1. \A m \in Nat : HasDigits(m, b, P(m))
    <2> SUFFICES ASSUME NEW m \in Nat PROVE HasDigits(m, b, P(m))
      OBVIOUS
    <2> QED BY SomeDigits, Zenon
  <1> HIDE DEF P
  <1>2. PICK f : f = [m \in Nat |-> Spelled(m, b, table, P(m))]
    OBVIOUS
  <1>3. \A m \in Nat : f[m] = Spelled(m, b, table, P(m))
    BY <1>2
  <1>4. ASSUME NEW m \in Nat, m < b PROVE f[m] = <<table[m + 1]>>
    <2>1. P(m) = 1
      BY <1>1, <1>4, DigitsOfQuotient
    <2> QED BY <1>3, <1>4, <2>1, SpelledOne
  <1>5. ASSUME NEW m \in Nat, ~(m < b)
        PROVE  f[m] = Append(f[m \div b], table[(m % b) + 1])
    <2>1. PICK q \in Nat : q = m \div b
      BY Division
    <2>2. HasDigits(q, b, P(m) - 1) /\ P(m) # 1
      BY <1>1, <1>5, <2>1, DigitsOfQuotient
    <2>3. P(q) = P(m) - 1
      BY <1>1, <2>2, DigitsUnique
    <2>4. P(q) \in Nat /\ P(q) >= 1 /\ P(m) = P(q) + 1
      BY <1>1, <2>2, <2>3 DEF HasDigits
    <2>5. Spelled(m, b, table, P(q) + 1)
              = Append(Spelled(m \div b, b, table, P(q)), table[(m % b) + 1])
      BY <2>4, SpelledMore
    <2> QED BY <1>3, <2>1, <2>4, <2>5
  <1>6. f = [m \in Nat |-> IF m < b THEN <<table[m + 1]>>
                           ELSE Append(f[m \div b], table[(m % b) + 1])]
    BY <1>2, <1>4, <1>5, Zenon
  <1> QED BY <1>6 DEF NumeralTurns

\* And the only one.
LEMMA NumeralIs ==
    ASSUME NEW n \in Nat, NEW b \in Nat, b >= 2, NEW table, NEW p, HasDigits(n, b, p)
    PROVE  Numeral(n, b, table) = Spelled(n, b, table, p)
  <1>1. PICK f : f = CHOOSE g : NumeralTurns(b, table, g)
    OBVIOUS
  <1>2. NumeralTurns(b, table, f)
    BY <1>1, SpelledIsNumeral, Zenon
  <1>3. Numeral(n, b, table) = f[n]
    BY <1>1, Zenon DEF Numeral, NumeralTurns
  <1>4. \A m \in Nat : f[m] = IF m < b THEN <<table[m + 1]>>
                              ELSE Append(f[m \div b], table[(m % b) + 1])
    BY <1>2, Zenon DEF NumeralTurns
  <1> DEFINE Wrong == {m \in Nat : \E k : HasDigits(m, b, k) /\ f[m] # Spelled(m, b, table, k)}
  <1>5. ASSUME Wrong # {} PROVE FALSE
    <2>1. Wrong \subseteq Nat
      OBVIOUS
    <2>2. PICK m \in Wrong : \A k \in Wrong : ~(<<k, m>> \in OpToRel(<, Nat))
      <3> HIDE DEF Wrong
      <3> QED BY <1>5, <2>1, WFMin, NatLessThanWellFounded, Zenon
    <2>3. \A k \in Wrong : ~(k < m)
      <3> HIDE DEF Wrong
      <3> QED BY <2>1, <2>2 DEF OpToRel
    <2>4. PICK k : HasDigits(m, b, k) /\ f[m] # Spelled(m, b, table, k)
      OBVIOUS
    <2>5. m \in Nat
      OBVIOUS
    <2>6. CASE m < b
      <3>1. k = 1
        BY <2>4, <2>5, <2>6, DigitsOfQuotient
      <3>2. Spelled(m, b, table, 1) = <<table[m + 1]>>
        BY <2>5, <2>6, SpelledOne
      <3> QED BY <1>4, <2>4, <2>5, <2>6, <3>1, <3>2
    <2>7. CASE ~(m < b)
      <3>1. PICK q \in Nat : q = m \div b
        <4>1. b \in Nat \ {0}
          OBVIOUS
        <4>2. m \div b \in Nat
          BY <2>5, <4>1, Division
        <4> QED BY <4>2
      <3>2. q < m
        <4>1. PICK r \in 0..(b - 1) : r + b * q = m
          <5>1. b \in Nat \ {0}
            OBVIOUS
          <5>2. m % b \in 0..(b - 1) /\ (m % b) + b * (m \div b) = m
            BY <2>5, <5>1, Division
          <5> QED BY <3>1, <5>2
        <4>2. 2 * q <= b * q
          BY TimesMonotonic
        <4>3. PICK y \in Nat : y = b * q
          OBVIOUS
        <4> QED BY <2>5, <2>7, <4>1, <4>2, <4>3
      <3>3. HasDigits(q, b, k - 1) /\ k # 1
        BY <2>4, <2>5, <2>7, <3>1, DigitsOfQuotient
      <3>4. k - 1 \in Nat /\ k - 1 >= 1 /\ (k - 1) + 1 = k
        BY <2>4, <3>3 DEF HasDigits
      <3>5. f[q] = Spelled(q, b, table, k - 1)
        BY <2>3, <3>2, <3>3
      <3>6. Spelled(m, b, table, (k - 1) + 1)
                = Append(Spelled(m \div b, b, table, k - 1), table[(m % b) + 1])
        BY <2>5, <3>4, SpelledMore
      <3>7. f[m] = Append(f[m \div b], table[(m % b) + 1])
        BY <1>4, <2>5, <2>7
      <3> QED BY <2>4, <3>1, <3>4, <3>5, <3>6, <3>7
    <2> QED BY <2>6, <2>7
  <1>6. f[n] = Spelled(n, b, table, p)
    BY <1>5
  <1> QED BY <1>3, <1>6

\* The loops put the digits of a number, whatever value of whatever type it is.
LEMMA ToDigitsIs ==
    ASSUME NEW b \in Nat, b >= 8, NEW n \in Nat, n < Power(2, TypeBits["longlong"]), NEW table
    PROVE  /\ ToDigits(n, b, table) = Numeral(n, b, table)
           /\ ToDigits(n, b, table) \in Seq(Characters(b, table))
           /\ Len(ToDigits(n, b, table)) >= 1
  <1>1. PICK p : p = Places(n, b)
    OBVIOUS
  <1>2. HasDigits(n, b, p)
    BY <1>1, PlacesIs
  <1>3. p \in Nat \ {0} /\ b >= 2
    BY <1>2 DEF HasDigits
  <1>4. ToDigits(n, b, table) = Spelled(n, b, table, p)
    BY <1>1 DEF ToDigits, Spelled
  <1>5. Numeral(n, b, table) = Spelled(n, b, table, p)
    BY <1>2, <1>3, NumeralIs
  <1>6. /\ Spelled(n, b, table, p) \in Seq(Characters(b, table))
        /\ Len(Spelled(n, b, table, p)) = p
    BY <1>3, SpelledText DEF IsSpelled
  <1> QED BY <1>3, <1>4, <1>5, <1>6

-----------------------------------------------------------------------------
(* A field, as the engine lays it out and as C does *)

\* A text of n characters of S, and one of them that is all c.
Sized(s, S, n) == s \in Seq(S) /\ n \in Nat /\ Len(s) = n
AllOf(s, S, c, n) == Sized(s, S, n) /\ \A j \in 1..n : s[j] = c

\* Where the texts are that another is put together from.
Joined(x, a, b, i, j) ==
    (\A m \in 1..i : x[m] = a[m]) /\ (\A m \in 1..j : x[i + m] = b[m])

JoinedOfThree(x, a, b, c, i, j, k) ==
    /\ \A m \in 1..i : x[m] = a[m]
    /\ \A m \in 1..j : x[i + m] = b[m]
    /\ \A m \in 1..k : x[(i + j) + m] = c[m]

\* One text behind another.
LEMMA TwoTexts ==
    ASSUME NEW S, NEW a, NEW b, NEW i, NEW j, Sized(a, S, i), Sized(b, S, j)
    PROVE  Sized(a \o b, S, i + j) /\ Joined(a \o b, a, b, i, j)
  <1>1. /\ i \in Nat /\ j \in Nat /\ a \in Seq(S) /\ b \in Seq(S)
        /\ Len(a) = i /\ Len(b) = j
    BY DEF Sized
  <1>2. PICK x : x = a \o b
    OBVIOUS
  <1>3. /\ x \in Seq(S) /\ Len(x) = Len(a) + Len(b)
        /\ \A m \in 1..(Len(a) + Len(b)) : x[m] = IF m <= Len(a) THEN a[m] ELSE b[m - Len(a)]
    BY <1>1, <1>2, ConcatProperties
  <1>4. Sized(x, S, i + j)
    BY <1>1, <1>3 DEF Sized
  <1>5. \A m \in 1..i : x[m] = a[m]
    BY <1>1, <1>3
  <1>6. ASSUME NEW m \in 1..j PROVE x[i + m] = b[m]
    <2>1. i + m \in 1..(i + j) /\ ~(i + m <= i) /\ (i + m) - i = m
      BY <1>1
    <2> QED BY <1>1, <1>3, <2>1
  <1> QED BY <1>2, <1>4, <1>5, <1>6 DEF Joined

\* And a third behind both.
LEMMA ThreeTexts ==
    ASSUME NEW S, NEW a, NEW b, NEW c, NEW i, NEW j, NEW k,
           Sized(a, S, i), Sized(b, S, j), Sized(c, S, k)
    PROVE  /\ Sized(a \o b \o c, S, (i + j) + k)
           /\ JoinedOfThree(a \o b \o c, a, b, c, i, j, k)
  <1>1. i \in Nat /\ j \in Nat /\ k \in Nat
    BY DEF Sized
  <1>2. PICK d, x : d = a \o b /\ x = d \o c
    OBVIOUS
  <1>3. Sized(d, S, i + j) /\ Joined(d, a, b, i, j)
    BY <1>2, TwoTexts, Zenon
  <1>4. Sized(x, S, (i + j) + k) /\ Joined(x, d, c, i + j, k)
    BY <1>2, <1>3, TwoTexts, Zenon
  <1>5. \A m \in 1..i : x[m] = a[m]
    <2> SUFFICES ASSUME NEW m \in 1..i PROVE x[m] = a[m]
      OBVIOUS
    <2>1. m \in 1..(i + j)
      BY <1>1
    <2> QED BY <1>3, <1>4, <2>1, Zenon DEF Joined
  <1>6. \A m \in 1..j : x[i + m] = b[m]
    <2> SUFFICES ASSUME NEW m \in 1..j PROVE x[i + m] = b[m]
      OBVIOUS
    <2>1. i + m \in 1..(i + j)
      BY <1>1
    <2> QED BY <1>3, <1>4, <2>1, Zenon DEF Joined
  <1>7. \A m \in 1..k : x[(i + j) + m] = c[m]
    BY <1>4, Zenon DEF Joined
  <1> QED BY <1>2, <1>4, <1>5, <1>6, <1>7, Zenon DEF JoinedOfThree

\* A character, and none.
LEMMA OneCharacter ==
    ASSUME NEW S, NEW c \in S
    PROVE  AllOf(<<c>>, S, c, 1) /\ <<c>> # <<>>
  <1>1. <<c>> \in Seq(S) /\ Len(<<c>>) = 1 /\ <<c>>[1] = c /\ 1 \in Nat
    OBVIOUS
  <1>2. <<c>> # <<>>
    OBVIOUS
  <1>3. PICK t : t = <<c>>
    OBVIOUS
  <1>4. \A j \in 1..1 : t[j] = c
    BY <1>1, <1>3
  <1> QED BY <1>1, <1>2, <1>3, <1>4 DEF AllOf, Sized

\* The text of no characters.
LEMMA NoCharacter ==
    ASSUME NEW S
    PROVE  Sized(<<>>, S, 0)
  BY DEF Sized

\* It is the only one of its length.
LEMMA EmptyText ==
    ASSUME NEW S, NEW s, NEW n, Sized(s, S, n)
    PROVE  (n = 0 => s = <<>>) /\ (n # 0 => s # <<>>)
  BY EmptySeq DEF Sized

\* Padding is so many times its character.
Amount(k) == IF k > 0 THEN k ELSE 0

\* Padding, of any length, is of one character.
LEMMA PadIs ==
    ASSUME NEW S, NEW c \in S, NEW k \in Int
    PROVE  AllOf(Pad(c, k), S, c, Amount(k))
  <1>1. PICK n \in Nat : n = Max({k, 0}) /\ n = Amount(k)
    BY MaxOfTwo DEF Amount
  <1>2. PICK s : s = Pad(c, k)
    OBVIOUS
  <1>3. s = [j \in 1..n |-> c]
    BY <1>1, <1>2 DEF Pad
  <1>4. s \in Seq(S) /\ Len(s) = n /\ \A j \in 1..n : s[j] = c
    BY <1>3
  <1> QED BY <1>1, <1>2, <1>4 DEF AllOf, Sized

\* Two texts of one character and one length are one.
LEMMA AllOfUnique ==
    ASSUME NEW S, NEW T, NEW s, NEW t, NEW c, NEW n, AllOf(s, S, c, n), AllOf(t, T, c, n)
    PROVE  s = t
  <1>1. /\ s \in Seq(S) /\ Len(s) = n /\ t \in Seq(T) /\ Len(t) = n
        /\ \A j \in 1..n : s[j] = t[j]
    BY DEF AllOf, Sized
  <1> QED BY <1>1, SeqEqual

\* No padding at all, in two ways.
LEMMA PadSame ==
    ASSUME NEW c, NEW j \in Int, NEW k \in Int, j = k \/ (j <= 0 /\ k <= 0)
    PROVE  Pad(c, j) = Pad(c, k)
  <1>1. c \in {c} /\ Amount(j) = Amount(k)
    BY DEF Amount
  <1>2. AllOf(Pad(c, j), {c}, c, Amount(j)) /\ AllOf(Pad(c, k), {c}, c, Amount(j))
    BY <1>1, PadIs, Zenon
  <1> QED BY <1>2, AllOfUnique, Zenon

\* One more.
LEMMA PadMore ==
    ASSUME NEW c, NEW k \in Nat
    PROVE  Pad(c, k) \o <<c>> = Pad(c, k + 1)
  <1>1. PICK S : S = {c} /\ c \in S
    OBVIOUS
  <1>2. PICK s, t, u, x : s = Pad(c, k) /\ t = <<c>> /\ u = Pad(c, k + 1) /\ x = s \o t
    OBVIOUS
  <1>3. k \in Int /\ k + 1 \in Int /\ Amount(k) = k /\ Amount(k + 1) = k + 1
    BY DEF Amount
  <1>4. AllOf(s, S, c, k) /\ AllOf(u, S, c, k + 1) /\ AllOf(t, S, c, 1)
    BY <1>1, <1>2, <1>3, PadIs, OneCharacter, Zenon
  <1>5. Sized(x, S, k + 1) /\ Joined(x, s, t, k, 1)
    BY <1>2, <1>4, TwoTexts, Zenon DEF AllOf
  <1>6. \A j \in 1..(k + 1) : x[j] = c
    <2> SUFFICES ASSUME NEW j \in 1..(k + 1) PROVE x[j] = c
      OBVIOUS
    <2>1. CASE j \in 1..k
      BY <1>4, <1>5, <2>1 DEF Joined, AllOf
    <2>2. CASE j = k + 1
      <3>1. 1 \in 1..1
        OBVIOUS
      <3> QED BY <1>4, <1>5, <2>2, <3>1, Zenon DEF Joined, AllOf
    <2> QED BY <2>1, <2>2
  <1>7. x = u
    BY <1>4, <1>5, <1>6, AllOfUnique, Zenon DEF AllOf
  <1> QED BY <1>2, <1>7

\* The two layouts for a blank and a zero whatever they are: those of the engine
\* and of C are these, and the lemmas need not know more of either character.
Laid(s, sign, fl, w, bl, ze) ==
    LET fill == DigitsWidth(sign, w) - Len(s)
    IN  IF "left" \in fl THEN s \o Pad(bl, w - Len(s))
        ELSE IF "leadzero" \in fl THEN sign \o Pad(ze, fill) \o s
        ELSE Pad(bl, fill) \o sign \o s

CLaid(front, s, fl, w, bl, ze) ==
    LET k == w - Len(front) - Len(s)
    IN  IF "left" \in fl THEN front \o s \o Pad(bl, k)
        ELSE IF "leadzero" \in fl THEN front \o Pad(ze, k) \o s
        ELSE Pad(bl, k) \o front \o s

\* _output_string lays its text out that way.
LEMMA JustifiedIs ==
    ASSUME NEW s, NEW sign, NEW fl, NEW w
    PROVE  Justified(s, sign, fl, w) = Laid(s, sign, fl, w, " ", "0")
  BY Zenon DEF Justified, Laid

\* And so does C.
LEMMA CTextIs ==
    ASSUME NEW f
    PROVE  CText(f) = CLaid(CSign(f) \o CPrefix(f), CDigits(f), f.flags, f.width, " ", "0")
  BY Zenon DEF CText, CLaid

\* The same front, of a character at most, in the same place.
LEMMA SameFront ==
    ASSUME NEW s, NEW sign, NEW fl, NEW w \in Nat, NEW bl, NEW ze, NEW S, NEW n, NEW m,
           Sized(s, S, n), Sized(sign, S, m), m <= 1, "left" \in fl => sign = <<>>
    PROVE  Laid(s, sign, fl, w, bl, ze) = CLaid(sign, s, fl, w, bl, ze)
  <1>1. /\ n \in Nat /\ m \in Nat /\ n = Len(s) /\ m = Len(sign) /\ (m = 0 \/ m = 1)
        /\ s \in Seq(S) /\ sign \in Seq(S)
    BY DEF Sized
  <1>a. m = 0 <=> sign = <<>>
    BY EmptyText
  <1>2. CASE "left" \in fl
    <2>1. sign = <<>> /\ m = 0
      BY <1>a, <1>2
    <2>2. w - m - n = w - n
      BY <1>1, <2>1
    <2>3. sign \o s = s
      BY <1>1, <2>1, ConcatEmptySeq
    <2>4. Laid(s, sign, fl, w, bl, ze) = s \o Pad(bl, w - n)
      BY <1>1, <1>2 DEF Laid
    <2>5. CLaid(sign, s, fl, w, bl, ze) = sign \o s \o Pad(bl, w - m - n)
      BY <1>1, <1>2 DEF CLaid
    <2> QED BY <2>2, <2>3, <2>4, <2>5, Zenon
  <1>3. CASE "left" \notin fl
    <2>1. PICK j, k : j = DigitsWidth(sign, w) - n /\ k = w - m - n
      OBVIOUS
    <2>2. j = IF m = 1 /\ w > 0 THEN w - 1 - n ELSE w - n
      BY <1>1, <1>a, <2>1 DEF DigitsWidth
    <2>3. j \in Int /\ k \in Int /\ (j = k \/ (j <= 0 /\ k <= 0))
      BY <1>1, <2>1, <2>2
    <2>4. Pad(bl, j) = Pad(bl, k) /\ Pad(ze, j) = Pad(ze, k)
      BY <2>3, PadSame, Zenon
    <2>5. Laid(s, sign, fl, w, bl, ze) = IF "leadzero" \in fl THEN sign \o Pad(ze, j) \o s
                                         ELSE Pad(bl, j) \o sign \o s
      BY <1>1, <1>3, <2>1, Zenon DEF Laid
    <2>6. CLaid(sign, s, fl, w, bl, ze) = IF "leadzero" \in fl THEN sign \o Pad(ze, k) \o s
                                          ELSE Pad(bl, k) \o sign \o s
      BY <1>1, <1>3, <2>1, Zenon DEF CLaid
    <2> QED BY <2>4, <2>5, <2>6, Zenon
  <1> QED BY <1>2, <1>3

\* On the left the engine forgets the sign.
LEMMA SignLost ==
    ASSUME NEW s, NEW sign, NEW fl, NEW w \in Nat, NEW bl, NEW ze, NEW c, NEW S, NEW n,
           Sized(s, S, n), n >= 1, c \in S, c # s[1], bl \in S, "left" \in fl
    PROVE  Laid(s, sign, fl, w, bl, ze) # CLaid(<<c>>, s, fl, w, bl, ze)
  <1>1. n \in Nat /\ Len(s) = n /\ 1 \in 1..n /\ 1 \in 1..1
    BY DEF Sized
  <1>2. PICK front : front = <<c>> /\ AllOf(front, S, c, 1)
    BY OneCharacter, Zenon
  <1>3. PICK j \in Int, k \in Int : j = w - n /\ k = w - 1 - n
    BY <1>1
  <1>4. PICK p, q : p = Pad(bl, j) /\ q = Pad(bl, k)
    OBVIOUS
  <1>5. Sized(p, S, Amount(j)) /\ Sized(q, S, Amount(k)) /\ Sized(front, S, 1) /\ front[1] = c
    BY <1>1, <1>2, <1>4, PadIs, Zenon DEF AllOf
  <1>6. Laid(s, sign, fl, w, bl, ze) = s \o p
    BY <1>1, <1>3, <1>4, Zenon DEF Laid
  <1>7. CLaid(front, s, fl, w, bl, ze) = front \o s \o q
    <2>1. Len(front) = 1
      BY <1>5 DEF Sized
    <2> QED BY <1>1, <1>3, <1>4, <2>1, Zenon DEF CLaid
  <1>8. (s \o p)[1] = s[1]
    <2>1. Joined(s \o p, s, p, n, Amount(j))
      BY <1>5, TwoTexts, Zenon
    <2> QED BY <1>1, <2>1, Zenon DEF Joined
  <1>9. (front \o s \o q)[1] = c
    <2>1. JoinedOfThree(front \o s \o q, front, s, q, 1, n, Amount(k))
      BY <1>5, ThreeTexts, Zenon
    <2> QED BY <1>1, <1>5, <2>1, Zenon DEF JoinedOfThree
  <1> QED BY <1>2, <1>6, <1>7, <1>8, <1>9, Zenon

\* A sign C does not print shows, unless it is a space among others.
LEMMA SignAdded ==
    ASSUME NEW s, NEW c, NEW fl, NEW w \in Nat, NEW bl, NEW ze, NEW S, NEW n,
           Sized(s, S, n), n >= 1, bl \in S, ze \in S, c \in S, c # s[1], c # ze,
           "left" \notin fl
    PROVE  Laid(s, <<c>>, fl, w, bl, ze) = CLaid(<<>>, s, fl, w, bl, ze)
               <=> c = bl /\ "leadzero" \notin fl /\ w > n
  <1>1. n \in Nat /\ Len(s) = n /\ s \in Seq(S) /\ 1 \in 1..n /\ 1 \in 1..1
    BY DEF Sized
  <1>2. PICK sign : sign = <<c>> /\ AllOf(sign, S, c, 1) /\ sign # <<>>
    BY OneCharacter, Zenon
  <1>3. PICK j, k : /\ j = DigitsWidth(sign, w) - n /\ k = w - n
                    /\ j = IF w > 0 THEN w - 1 - n ELSE w - n
    BY <1>2 DEF DigitsWidth
  <1>4. j \in Int /\ k \in Int /\ w - 0 - n = k
    BY <1>1, <1>3
  <1>5. Sized(<<>>, S, 0) /\ Len(<<>>) = 0
    BY NoCharacter
  <1>6. Sized(sign, S, 1) /\ sign[1] = c
    BY <1>1, <1>2, Zenon DEF AllOf
  <1>7. CASE "leadzero" \in fl
    <2>1. PICK p, q : p = Pad(ze, j) /\ q = Pad(ze, k)
      OBVIOUS
    <2>2. Sized(p, S, Amount(j)) /\ AllOf(q, S, ze, Amount(k)) /\ Sized(q, S, Amount(k))
      BY <1>4, <2>1, PadIs, Zenon DEF AllOf
    <2>3. Laid(s, sign, fl, w, bl, ze) = sign \o p \o s
      BY <1>1, <1>3, <1>7, <2>1, Zenon DEF Laid
    <2>4. CLaid(<<>>, s, fl, w, bl, ze) = <<>> \o q \o s
      BY <1>1, <1>3, <1>4, <1>5, <1>7, <2>1, Zenon DEF CLaid
    <2>5. (sign \o p \o s)[1] = c
      <3>1. JoinedOfThree(sign \o p \o s, sign, p, s, 1, Amount(j), n)
        BY <1>6, <2>2, ThreeTexts, Zenon
      <3> QED BY <1>1, <1>6, <3>1, Zenon DEF JoinedOfThree
    <2>6. (<<>> \o q \o s)[1] # c
      <3>1. PICK r : r = <<>> \o q \o s /\ JoinedOfThree(r, <<>>, q, s, 0, Amount(k), n)
        BY <1>5, <2>2, ThreeTexts, Zenon
      <3>2. CASE k > 0
        <4>1. 1 \in 1..Amount(k) /\ 0 + 1 = 1
          BY <1>4, <3>2 DEF Amount
        <4>2. r[0 + 1] = q[1] /\ q[1] = ze
          BY <2>2, <3>1, <4>1, Zenon DEF JoinedOfThree, AllOf
        <4> QED BY <3>1, <4>1, <4>2
      <3>3. CASE ~(k > 0)
        <4>1. Amount(k) = 0 /\ (0 + 0) + 1 = 1
          BY <3>3 DEF Amount
        <4>2. r[(0 + Amount(k)) + 1] = s[1]
          BY <1>1, <3>1, Zenon DEF JoinedOfThree
        <4> QED BY <3>1, <4>1, <4>2
      <3> QED BY <3>2, <3>3
    <2> QED BY <1>2, <1>7, <2>3, <2>4, <2>5, <2>6, Zenon
  <1>8. CASE "leadzero" \notin fl
    <2>1. PICK p, q : p = Pad(bl, j) /\ q = Pad(bl, k)
      OBVIOUS
    <2>2. Sized(p, S, Amount(j)) /\ AllOf(q, S, bl, Amount(k)) /\ Sized(q, S, Amount(k))
      BY <1>4, <2>1, PadIs, Zenon DEF AllOf
    <2>3. Laid(s, sign, fl, w, bl, ze) = p \o sign \o s
      BY <1>1, <1>3, <1>8, <2>1, Zenon DEF Laid
    <2>4. CLaid(<<>>, s, fl, w, bl, ze) = q \o s
      <3>1. CLaid(<<>>, s, fl, w, bl, ze) = q \o <<>> \o s
        BY <1>1, <1>3, <1>4, <1>5, <1>8, <2>1, Zenon DEF CLaid
      <3>2. q \in Seq(S)
        BY <2>2 DEF Sized
      <3>3. q \o <<>> = q
        BY <3>2, ConcatEmptySeq
      <3> QED BY <3>1, <3>3, Zenon
    <2>5. PICK x, y : x = p \o sign \o s /\ y = q \o s
      OBVIOUS
    <2>6. /\ Sized(x, S, (Amount(j) + 1) + n)
          /\ JoinedOfThree(x, p, sign, s, Amount(j), 1, n)
      BY <1>6, <2>2, <2>5, ThreeTexts, Zenon
    <2>7. Sized(y, S, Amount(k) + n) /\ Joined(y, q, s, Amount(k), n)
      BY <2>2, <2>5, TwoTexts, Zenon
    <2>8. CASE ~(w > n)
      <3>1. Amount(j) = 0 /\ Amount(k) = 0
        BY <1>1, <1>3, <2>8 DEF Amount
      <3>2. Len(x) # Len(y)
        BY <1>1, <2>6, <2>7, <3>1 DEF Sized
      <3>3. x # y
        BY <3>2
      <3> QED BY <1>2, <2>3, <2>4, <2>5, <2>8, <3>3, Zenon
    <2>9. CASE w > n /\ c # bl
      <3>1. Amount(j) + 1 = k /\ Amount(k) = k /\ k \in 1..k
        BY <1>1, <1>3, <2>9 DEF Amount
      <3>2. x[Amount(j) + 1] = c
        BY <1>1, <1>6, <2>6, Zenon DEF JoinedOfThree
      <3>3. y[k] = bl
        <4>1. y[k] = q[k]
          BY <2>7, <3>1, Zenon DEF Joined
        <4>2. q[k] = bl
          BY <2>2, <3>1, Zenon DEF AllOf
        <4> QED BY <4>1, <4>2
      <3>4. x # y
        BY <2>9, <3>1, <3>2, <3>3
      <3> QED BY <1>2, <2>3, <2>4, <2>5, <2>9, <3>4, Zenon
    <2>a. CASE w > n /\ c = bl
      <3>1. j \in Nat /\ k = j + 1
        BY <1>1, <1>3, <2>a
      <3>2. Pad(bl, j) \o <<bl>> = Pad(bl, j + 1)
        BY <3>1, PadMore, Zenon
      <3>3. p \o sign = q
        BY <1>2, <2>1, <2>a, <3>1, <3>2
      <3>4. x = y
        BY <2>5, <3>3
      <3> QED BY <1>2, <1>8, <2>3, <2>4, <2>5, <2>a, <3>4, Zenon
    <2> QED BY <2>8, <2>9, <2>a
  <1> QED BY <1>7, <1>8

\* How long a field is.
LEMMA FieldLength ==
    ASSUME NEW S, NEW s, NEW n, Sized(s, S, n), NEW front, NEW m, Sized(front, S, m),
           NEW fl, NEW w \in Nat, NEW bl \in S, NEW ze \in S
    PROVE  Sized(CLaid(front, s, fl, w, bl, ze), S, IF w > m + n THEN w ELSE m + n)
  <1>1. n \in Nat /\ m \in Nat /\ n = Len(s) /\ m = Len(front)
    BY DEF Sized
  <1>2. PICK k \in Int : k = w - m - n
    <2>1. w - m - n \in Int
      BY <1>1
    <2> QED BY <2>1
  <1>3. PICK p, q : p = Pad(bl, k) /\ q = Pad(ze, k)
    OBVIOUS
  <1>4. Sized(p, S, Amount(k)) /\ Sized(q, S, Amount(k))
    BY <1>3, PadIs, Zenon DEF AllOf
  <1>5. /\ Sized(front \o s \o p, S, (m + n) + Amount(k))
        /\ Sized(front \o q \o s, S, (m + Amount(k)) + n)
        /\ Sized(p \o front \o s, S, (Amount(k) + m) + n)
    BY <1>4, ThreeTexts, Zenon
  <1>6. PICK len \in Nat : len = IF w > m + n THEN w ELSE m + n
    BY <1>1
  <1>7. (m + n) + Amount(k) = len /\ (m + Amount(k)) + n = len /\ (Amount(k) + m) + n = len
    <2>1. CASE k > 0
      BY <1>1, <1>2, <1>6, <2>1 DEF Amount
    <2>2. CASE ~(k > 0)
      BY <1>1, <1>2, <1>6, <2>2 DEF Amount
    <2> QED BY <2>1, <2>2
  <1>8. CLaid(front, s, fl, w, bl, ze) = IF "left" \in fl THEN front \o s \o p
                                         ELSE IF "leadzero" \in fl THEN front \o q \o s
                                         ELSE p \o front \o s
    BY <1>1, <1>2, <1>3, Zenon DEF CLaid
  <1>9. Sized(CLaid(front, s, fl, w, bl, ze), S, len)
    BY <1>5, <1>7, <1>8, Zenon
  <1> QED BY <1>6, <1>9, Zenon

\* A prefix the engine puts in front of the field, when C has it in the field or
\* not at all: a is the field without it, b the one with it, n the digits.
PrefixShows(pre, a, b, w, n) == pre \o a # a /\ (pre \o a = b <=> ~(w > n))

\* The two fields differ always, or just when there is room for padding.
LEMMA PrefixAdded ==
    ASSUME NEW s, NEW pre, NEW fl, NEW w \in Nat, NEW bl, NEW ze, NEW S, NEW n,
           Sized(s, S, n), Sized(pre, S, 2), bl \in S, ze \in S
    PROVE  PrefixShows(pre, CLaid(<<>>, s, fl, w, bl, ze), CLaid(pre, s, fl, w, bl, ze), w, n)
  <1>1. n \in Nat /\ Len(s) = n /\ s \in Seq(S) /\ pre \in Seq(S) /\ Len(pre) = 2
    BY DEF Sized
  <1>2. Sized(<<>>, S, 0) /\ Len(<<>>) = 0
    BY NoCharacter
  <1>3. PICK a, b, x : /\ a = CLaid(<<>>, s, fl, w, bl, ze) /\ b = CLaid(pre, s, fl, w, bl, ze)
                       /\ x = pre \o a
    OBVIOUS
  <1>4. PICK i \in Nat, j \in Nat :
          /\ i = (IF w > 0 + n THEN w ELSE 0 + n) /\ j = (IF w > 2 + n THEN w ELSE 2 + n)
    BY <1>1
  <1>5. Sized(a, S, i)
    BY <1>2, <1>3, <1>4, FieldLength, Zenon
  <1>6. Sized(b, S, j)
    BY <1>3, <1>4, FieldLength, Zenon
  <1>7. Sized(x, S, 2 + i)
    BY <1>3, <1>5, TwoTexts, Zenon
  <1>8. Len(a) = i /\ Len(b) = j /\ Len(x) = 2 + i
    BY <1>5, <1>6, <1>7 DEF Sized
  <1>9. x # a
    <2>1. 2 + i # i
      OBVIOUS
    <2> QED BY <1>8, <2>1
  <1>a. ASSUME w > n PROVE x # b
    <2>1. 2 + i # j
      BY <1>1, <1>4, <1>a
    <2> QED BY <1>8, <2>1
  <1>b. ASSUME ~(w > n) PROVE x = b
    <2>1. PICK k, l : k = w - 0 - n /\ l = w - 2 - n
      OBVIOUS
    <2>2. k \in Int /\ l \in Int /\ k <= 0 /\ l <= 0 /\ Amount(k) = 0 /\ Amount(l) = 0
      BY <1>1, <1>b, <2>1 DEF Amount
    <2>3. /\ Sized(Pad(bl, k), S, 0) /\ Sized(Pad(ze, k), S, 0)
          /\ Sized(Pad(bl, l), S, 0) /\ Sized(Pad(ze, l), S, 0)
      <3>1. /\ AllOf(Pad(bl, k), S, bl, Amount(k)) /\ AllOf(Pad(ze, k), S, ze, Amount(k))
            /\ AllOf(Pad(bl, l), S, bl, Amount(l)) /\ AllOf(Pad(ze, l), S, ze, Amount(l))
        BY <2>2, PadIs, Zenon
      <3> QED BY <2>2, <3>1 DEF AllOf
    <2>4. Pad(bl, k) = <<>> /\ Pad(ze, k) = <<>> /\ Pad(bl, l) = <<>> /\ Pad(ze, l) = <<>>
      BY <2>3, EmptyText
    <2>5. a = IF "left" \in fl THEN <<>> \o s \o <<>>
              ELSE IF "leadzero" \in fl THEN <<>> \o <<>> \o s ELSE <<>> \o <<>> \o s
      <3>1. a = IF "left" \in fl THEN <<>> \o s \o Pad(bl, k)
                ELSE IF "leadzero" \in fl THEN <<>> \o Pad(ze, k) \o s ELSE Pad(bl, k) \o <<>> \o s
        BY <1>1, <1>2, <1>3, <2>1 DEF CLaid
      <3> QED BY <2>4, <3>1
    <2>6. b = IF "left" \in fl THEN pre \o s \o <<>>
              ELSE IF "leadzero" \in fl THEN pre \o <<>> \o s ELSE <<>> \o pre \o s
      BY <1>1, <1>3, <2>1, <2>4, Zenon DEF CLaid
    <2>7. <<>> \o s = s /\ s \o <<>> = s /\ <<>> \o <<>> = <<>>
      <3>1. <<>> \in Seq(S)
        OBVIOUS
      <3> QED BY <1>1, <3>1, ConcatEmptySeq
    <2>8. a = s
      BY <2>5, <2>7, Zenon
    <2>9. b = pre \o s
      <3>1. pre \o s \in Seq(S)
        BY <1>1, ConcatProperties
      <3>2. pre \o <<>> = pre /\ <<>> \o pre = pre /\ (pre \o s) \o <<>> = pre \o s
        BY <1>1, <3>1, ConcatEmptySeq
      <3> QED BY <2>6, <3>2, Zenon
    <2> QED BY <1>3, <2>8, <2>9
  <1> QED BY <1>3, <1>9, <1>a, <1>b, Zenon DEF PrefixShows

\* A field no wider than its text is its text.
LEMMA NarrowField ==
    ASSUME NEW s, NEW fl, NEW w \in Nat, NEW bl, NEW ze, NEW S, NEW n,
           Sized(s, S, n), ~(w > n), bl \in S, ze \in S
    PROVE  CLaid(<<>>, s, fl, w, bl, ze) = s
  <1>1. n \in Nat /\ Len(s) = n /\ s \in Seq(S) /\ Len(<<>>) = 0
    BY DEF Sized
  <1>2. PICK k : k = w - 0 - n
    OBVIOUS
  <1>3. k \in Int /\ Amount(k) = 0
    BY <1>1, <1>2 DEF Amount
  <1>4. Sized(Pad(bl, k), S, 0) /\ Sized(Pad(ze, k), S, 0)
    <2>1. AllOf(Pad(bl, k), S, bl, Amount(k)) /\ AllOf(Pad(ze, k), S, ze, Amount(k))
      BY <1>3, PadIs, Zenon
    <2> QED BY <1>3, <2>1 DEF AllOf
  <1>5. Pad(bl, k) = <<>> /\ Pad(ze, k) = <<>>
    BY <1>4, EmptyText
  <1>6. CLaid(<<>>, s, fl, w, bl, ze)
            = IF "left" \in fl THEN <<>> \o s \o Pad(bl, k)
              ELSE IF "leadzero" \in fl THEN <<>> \o Pad(ze, k) \o s ELSE Pad(bl, k) \o <<>> \o s
    BY <1>1, <1>2 DEF CLaid
  <1>7. <<>> \o s = s /\ s \o <<>> = s /\ <<>> \o <<>> = <<>>
    <2>1. <<>> \in Seq(S)
      OBVIOUS
    <2> QED BY <1>1, <2>1, ConcatEmptySeq
  <1> QED BY <1>5, <1>6, <1>7, Zenon

-----------------------------------------------------------------------------
(* The argument va_arg returns fits in a long long *)

Longest == Power(2, TypeBits["longlong"])

\* A type is one of those that have a width.
LEMMA TypeIs ==
    ASSUME NEW fl
    PROVE  Type(fl) \in {"char", "short", "int", "longlong"}
  BY DEF Type

\* No type is wider than long long.
LEMMA WidthIs ==
    ASSUME NEW fl
    PROVE  /\ TypeBits[Type(fl)] \in Nat \ {0}
           /\ Power(2, TypeBits[Type(fl)]) \in Nat \ {0}
           /\ Power(2, TypeBits[Type(fl)]) <= Longest
           /\ Longest \in Nat
  <1>1. PICK j, k : j = TypeBits[Type(fl)] /\ k = TypeBits["longlong"]
    OBVIOUS
  <1>2. j \in Nat \ {0} /\ k \in Nat \ {0} /\ j <= k
    <2>1. Type(fl) \in {"char", "short", "int", "longlong"}
      BY TypeIs
    <2> QED BY <1>1, <2>1, PrintfAssumption
  <1>3. 2 \in Nat \ {0} /\ 2 \in Nat /\ 2 >= 2
    OBVIOUS
  <1>4. \A i \in Nat : Power(2, i) \in Nat \ {0}
    BY <1>3, PowerPositive
  <1>5. j < k => Power(2, j) < Power(2, k)
    BY <1>2, <1>3, PowerGrows
  <1>6. Power(2, j) \in Nat \ {0} /\ Power(2, k) \in Nat \ {0} /\ Power(2, j) <= Power(2, k)
    <2>1. CASE j = k
      BY <1>2, <1>4, <2>1
    <2>2. CASE j < k
      BY <1>2, <1>4, <1>5, <2>2
    <2> QED BY <1>2, <2>1, <2>2
  <1> QED BY <1>1, <1>2, <1>6 DEF Longest

\* A remainder, of any integer.
LEMMA Remainder ==
    ASSUME NEW v \in Int, NEW d \in Nat \ {0}
    PROVE  v % d \in 0..(d - 1)
  OBVIOUS

\* The value of an unsigned conversion.
LEMMA UnsignedIs ==
    ASSUME NEW v \in Values, NEW fl
    PROVE  Arg(v, fl, FALSE) \in Nat /\ Arg(v, fl, FALSE) < Longest
  <1>1. PICK m, n : m = Power(2, TypeBits[Type(fl)]) /\ n = Arg(v, fl, FALSE)
    OBVIOUS
  <1>2. m \in Nat \ {0} /\ m <= Longest /\ Longest \in Nat
    BY <1>1, WidthIs
  <1>3. v \in Int
    BY PrintfAssumption
  <1>4. n = v % m
    BY <1>1 DEF Arg, Unsigned
  <1>5. n \in 0..(m - 1)
    BY <1>2, <1>3, <1>4, Remainder
  <1>6. n \in Nat /\ n < Longest
    BY <1>2, <1>5
  <1> QED BY <1>1, <1>6, Zenon

\* The magnitude of a signed conversion, that of the most negative value too.
LEMMA SignedIs ==
    ASSUME NEW v \in Values, NEW fl
    PROVE  /\ Arg(v, fl, TRUE) \in Int
           /\ Magnitude(Arg(v, fl, TRUE)) \in Nat
           /\ Magnitude(Arg(v, fl, TRUE)) < Longest
  <1>1. PICK j, m, h, n : /\ j = TypeBits[Type(fl)] /\ m = Power(2, j) /\ h = Power(2, j - 1)
                          /\ n = Arg(v, fl, TRUE)
    OBVIOUS
  <1>2. j \in Nat \ {0} /\ m \in Nat \ {0} /\ m <= Longest /\ Longest \in Nat
    BY <1>1, WidthIs
  <1>3. h \in Nat /\ m = 2 * h
    <2>1. 2 \in Nat \ {0} /\ 2 \in Nat /\ j - 1 \in Nat /\ (j - 1) + 1 = j
      BY <1>2
    <2>2. Power(2, j - 1) \in Nat \ {0}
      BY <2>1, PowerPositive
    <2>3. Power(2, (j - 1) + 1) = 2 * Power(2, j - 1)
      BY <2>1, PowerIs
    <2> QED BY <1>1, <2>1, <2>2, <2>3
  <1>4. v \in Int
    BY PrintfAssumption
  <1>5. n = ((v + h) % m) - h
    BY <1>1, Zenon DEF Arg, Signed
  <1>6. PICK r : r = (v + h) % m /\ r \in 0..(m - 1)
    <2>1. v + h \in Int
      BY <1>3, <1>4
    <2> QED BY <1>2, <2>1, Remainder
  <1>7. n \in Int /\ -h <= n /\ n < h
    BY <1>2, <1>3, <1>5, <1>6
  <1>8. Magnitude(n) \in Nat /\ Magnitude(n) < m
    BY <1>2, <1>3, <1>7 DEF Magnitude
  <1>9. Magnitude(n) < Longest
    BY <1>2, <1>8
  <1> QED BY <1>1, <1>7, <1>8, <1>9, Zenon

-----------------------------------------------------------------------------
(* Digits are not signs *)

\* The decimal digits.
LEMMA DecimalCharacters ==
    ASSUME NEW c \in Characters(10, HexTable)
    PROVE  c # "+" /\ c # "-" /\ c # " "
  <1>1. PICK d \in 1..10 : c = HexTable[d]
    BY Zenon DEF Characters
  <1>2. HexTable[d] \in {"0", "1", "2", "3", "4", "5", "6", "7", "8", "9"}
    <2>1. CASE d = 1
      BY <2>1, Zenon DEF HexTable
    <2>2. CASE d = 2
      BY <2>2, Zenon DEF HexTable
    <2> QED BY DEF HexTable
  <1> QED BY <1>1, <1>2, Zenon

\* A flag is none of the engine's own.
LEMMA FlagIs ==
    ASSUME NEW c \in DOMAIN FlagOf
    PROVE  FlagOf[c] # "caps"
  <1>1. c \in {"-", "+", " ", "#"}
    BY Zenon DEF FlagOf
  <1>2. FlagOf[c] = CASE c = "-" -> "left" [] c = "+" -> "showsign"
                      [] c = " " -> "blankpos" [] OTHER -> "alt"
    BY <1>1, Zenon DEF FlagOf
  <1> QED BY <1>2, Zenon

\* Nor is a length modifier.
LEMMA LengthIs ==
    ASSUME NEW c \in DOMAIN LengthOf
    PROVE  LengthOf[c] # "caps"
  <1>1. c \in {"l", "h", "z", "j", "t"}
    BY Zenon DEF LengthOf
  <1>2. LengthOf[c] = CASE c = "l" -> "long" [] c = "h" -> "half" [] c = "z" -> "sizet"
                        [] c = "j" -> "intmax" [] OTHER -> "ptrdiff"
    BY <1>1, Zenon DEF LengthOf
  <1> QED BY <1>2, Zenon

\* The characters printed for a sign.
Signs == {"-", "+", " "}

\* What is printed for a sign is one of them, or nothing.
LEMMA SignIs ==
    ASSUME NEW fl, NEW negative
    PROVE  \/ SignChar(fl, negative) = <<>>
           \/ \E c \in Signs : SignChar(fl, negative) = <<c>>
  <1>1. CASE negative
    BY <1>1, Zenon DEF SignChar, Signs
  <1>2. CASE ~negative /\ "showsign" \in fl
    BY <1>2, Zenon DEF SignChar, Signs
  <1>3. CASE ~negative /\ "showsign" \notin fl /\ "blankpos" \in fl
    BY <1>3, Zenon DEF SignChar, Signs
  <1>4. CASE ~negative /\ "showsign" \notin fl /\ "blankpos" \notin fl
    BY <1>4, Zenon DEF SignChar, Signs
  <1> QED BY <1>1, <1>2, <1>3, <1>4, Zenon

-----------------------------------------------------------------------------
(* Every field, against what C says of it *)

\* The digits the engine puts and those of C are the same, and characters among
\* which there is no sign.
LEMMA DigitsAre ==
    ASSUME NEW n \in Nat, n < Longest, NEW b \in {10, 16}, NEW table
    PROVE  \E s, k : /\ s = ToDigits(n, b, table) /\ s = Numeral(n, b, table)
                     /\ Sized(s, Characters(b, table), k) /\ k \in Nat /\ k >= 1 /\ Len(s) = k
                     /\ s[1] \in Characters(b, table)
  <1>1. PICK s : s = ToDigits(n, b, table)
    OBVIOUS
  <1>2. PICK S : S = Characters(b, table)
    OBVIOUS
  <1>3. b \in Nat /\ b >= 8
    OBVIOUS
  <1>4. s = Numeral(n, b, table) /\ s \in Seq(S) /\ Len(s) >= 1
    BY <1>1, <1>2, <1>3, ToDigitsIs DEF Longest
  <1>5. PICK k \in Nat : k = Len(s)
    BY <1>4, LenProperties
  <1>6. Sized(s, S, k) /\ k >= 1
    BY <1>4, <1>5 DEF Sized
  <1>7. s[1] \in S
    <2>1. 1 \in 1..Len(s)
      BY <1>4, <1>5
    <2> QED BY <1>4, <2>1, ElementOfSeq
  <1> QED BY <1>1, <1>2, <1>4, <1>5, <1>6, <1>7, Zenon

\* A larger set of characters.
LEMMA SizedIn ==
    ASSUME NEW S, NEW T, NEW s, NEW n, Sized(s, S, n), S \subseteq T
    PROVE  Sized(s, T, n)
  BY SeqMonotonic DEF Sized

\* A magnitude is itself one.
LEMMA MagnitudeIs ==
    ASSUME NEW n \in Nat
    PROVE  Magnitude(n) = n /\ ~(n < 0)
  BY DEF Magnitude

\* The characters of a field of decimal digits, with those put around them.
Around(b, table) == Characters(b, table) \cup {" ", "0", "+", "-"}

\* %d: the sign of C is the engine's, which forgets it on the left.
LEMMA SignedMatches ==
    ASSUME NEW f, NEW v \in Values, NEW fl, NEW w \in Nat, NEW n, n = Arg(v, fl, TRUE),
           f.conv = "d", f.arg = n, f.flags = fl, f.width = w, f.text = Decimal(n, fl, w),
           "alt" \notin fl
    PROVE  f.text = CText(f) <=> ~Differs(f)
  <1>1. Magnitude(n) \in Nat /\ Magnitude(n) < Longest
    BY SignedIs, Zenon
  <1>2. PICK s, k : /\ s = ToDigits(Magnitude(n), 10, HexTable)
                    /\ s = Numeral(Magnitude(n), 10, HexTable)
                    /\ Sized(s, Characters(10, HexTable), k) /\ k \in Nat /\ k >= 1 /\ Len(s) = k
                    /\ s[1] \in Characters(10, HexTable)
    <2>1. 10 \in {10, 16}
      OBVIOUS
    <2> QED BY <1>1, <2>1, DigitsAre, Zenon
  <1>3. PICK S : " " \in S /\ "0" \in S /\ "+" \in S /\ "-" \in S
                 /\ Sized(s, S, k)
    <2>1. Characters(10, HexTable) \subseteq Around(10, HexTable)
      BY Zenon DEF Around
    <2>2. Sized(s, Around(10, HexTable), k)
      BY <1>2, <2>1, SizedIn, Zenon
    <2> QED BY <2>2, Zenon DEF Around
  <1>4. PICK sign : sign = SignChar(fl, n < 0)
    OBVIOUS
  <1>5. CSign(f) = sign
    <2>1. CASE n < 0
      BY <1>4, <2>1, Zenon DEF CSign, SignChar
    <2>2. CASE ~(n < 0) /\ "showsign" \in fl
      BY <1>4, <2>2, Zenon DEF CSign, SignChar
    <2>3. CASE ~(n < 0) /\ "showsign" \notin fl /\ "blankpos" \in fl
      BY <1>4, <2>3, Zenon DEF CSign, SignChar
    <2>4. CASE ~(n < 0) /\ "showsign" \notin fl /\ "blankpos" \notin fl
      BY <1>4, <2>4, Zenon DEF CSign, SignChar
    <2> QED BY <2>1, <2>2, <2>3, <2>4, Zenon
  <1>6. CPrefix(f) = <<>> /\ CDigits(f) = s
    <2>1. CPrefix(f) = <<>>
      BY Zenon DEF CPrefix
    <2>2. f.conv # "c" /\ f.conv # "s" /\ f.conv \notin {"x", "X"} /\ f.conv # "X"
      BY Zenon
    <2> QED BY <1>2, <2>1, <2>2, Zenon DEF CDigits
  <1>7. PICK m : Sized(sign, S, m) /\ m \in Nat /\ m <= 1
    <2>1. sign = <<>> \/ \E c \in Signs : sign = <<c>>
      BY <1>4, SignIs, Zenon
    <2>2. 0 \in Nat /\ 1 \in Nat /\ 0 <= 1 /\ 1 <= 1
      OBVIOUS
    <2>3. CASE sign = <<>>
      BY <2>2, <2>3, NoCharacter, Zenon
    <2>4. ASSUME NEW c \in Signs, sign = <<c>>
          PROVE  Sized(sign, S, 1)
      <3>1. c \in S
        BY <1>3, Zenon DEF Signs
      <3> QED BY <2>4, <3>1, OneCharacter, Zenon DEF AllOf
    <2> QED BY <2>1, <2>2, <2>3, <2>4, Zenon
  <1>8. CText(f) = CLaid(sign, s, fl, w, " ", "0")
    <2>1. sign \o <<>> = sign
      <3>1. sign \in Seq(S)
        BY <1>7, Zenon DEF Sized
      <3> HIDE DEF Around
      <3> QED BY <3>1, ConcatEmptySeq, Zenon
    <2> QED BY <1>5, <1>6, <2>1, CTextIs, Zenon
  <1>9. f.text = Laid(s, sign, fl, w, " ", "0")
    BY <1>2, <1>4, JustifiedIs, Zenon DEF Decimal
  <1>10. Differs(f) <=> "left" \in fl /\ sign # <<>>
    <2>1. f.conv # "u" /\ f.conv # "c"
      BY Zenon
    <2> QED BY <1>5, <2>1, Zenon DEF Differs
  <1>11. CASE "left" \in fl /\ sign # <<>>
    <2>1. PICK c \in Signs : sign = <<c>>
      BY <1>4, <1>11, SignIs, Zenon
    <2>2. c \in S /\ c # s[1]
      BY <1>2, <1>3, DecimalCharacters, Zenon DEF Signs
    <2>3. PICK bl, ze : bl = " " /\ ze = "0" /\ bl \in S
      BY <1>3, Zenon
    <2>4. Laid(s, sign, fl, w, bl, ze) # CLaid(<<c>>, s, fl, w, bl, ze)
      <3>1. Sized(s, S, k) /\ k >= 1 /\ c \in S /\ c # s[1] /\ bl \in S /\ "left" \in fl
        BY <1>2, <1>3, <1>11, <2>2, <2>3, Zenon
      <3> QED BY <3>1, SignLost
    <2>5. Laid(s, sign, fl, w, " ", "0") # CLaid(<<c>>, s, fl, w, " ", "0")
      BY <2>3, <2>4, Zenon
    <2> QED BY <1>8, <1>9, <1>10, <1>11, <2>1, <2>5, Zenon
  <1>12. CASE ~("left" \in fl /\ sign # <<>>)
    <2>1. PICK bl, ze : bl = " " /\ ze = "0"
      OBVIOUS
    <2>2. "left" \in fl => sign = <<>>
      BY <1>12, Zenon
    <2>3. Laid(s, sign, fl, w, bl, ze) = CLaid(sign, s, fl, w, bl, ze)
      <3>1. Sized(s, S, k)
        BY <1>3, Zenon
      <3> QED BY <1>7, <2>2, <3>1, SameFront
    <2> QED BY <1>8, <1>9, <1>10, <1>12, <2>1, <2>3, Zenon
  <1> QED BY <1>11, <1>12, Zenon

\* %u: C prints no sign.
LEMMA UnsignedMatches ==
    ASSUME NEW f, NEW v \in Values, NEW fl, NEW w \in Nat, NEW n, n = Arg(v, fl, FALSE),
           f.conv = "u", f.arg = n, f.flags = fl, f.width = w, f.text = Decimal(n, fl, w),
           "alt" \notin fl
    PROVE  f.text = CText(f) <=> ~Differs(f)
  <1>1. n \in Nat /\ n < Longest
    BY UnsignedIs, Zenon
  <1>1a. Magnitude(n) = n /\ ~(n < 0)
    BY <1>1, MagnitudeIs, Zenon
  <1>2. PICK s, k : /\ s = ToDigits(n, 10, HexTable)
                    /\ s = Numeral(n, 10, HexTable)
                    /\ Sized(s, Characters(10, HexTable), k) /\ k \in Nat /\ k >= 1 /\ Len(s) = k
                    /\ s[1] \in Characters(10, HexTable)
    <2>1. 10 \in {10, 16}
      OBVIOUS
    <2> QED BY <1>1, <2>1, DigitsAre, Zenon
  <1>3. PICK S : " " \in S /\ "0" \in S /\ "+" \in S /\ "-" \in S
                 /\ Sized(s, S, k)
    <2>1. Characters(10, HexTable) \subseteq Around(10, HexTable)
      BY Zenon DEF Around
    <2>2. Sized(s, Around(10, HexTable), k)
      BY <1>2, <2>1, SizedIn, Zenon
    <2> QED BY <2>2, Zenon DEF Around
  <1>4. PICK sign : sign = SignChar(fl, FALSE)
    OBVIOUS
  <1>4a. SignChar(fl, n < 0) = sign
    BY <1>1a, <1>4, Zenon DEF SignChar
  <1>5. CSign(f) = <<>> /\ CPrefix(f) = <<>> /\ CDigits(f) = s
    <2>1. CSign(f) = <<>>
      <3>1. f.conv # "d"
        BY Zenon
      <3> QED BY <3>1, Zenon DEF CSign
    <2>2. CPrefix(f) = <<>>
      BY Zenon DEF CPrefix
    <2>3. f.conv # "c" /\ f.conv # "s" /\ f.conv \notin {"x", "X"} /\ f.conv # "X"
      BY Zenon
    <2> QED BY <1>1a, <1>2, <2>1, <2>2, <2>3, Zenon DEF CDigits
  <1>6. CText(f) = CLaid(<<>>, s, fl, w, " ", "0")
    <2>1. <<>> \o <<>> = <<>>
      OBVIOUS
    <2> QED BY <1>5, <2>1, CTextIs, Zenon
  <1>7. f.text = Laid(s, sign, fl, w, " ", "0")
    BY <1>1a, <1>2, <1>4a, JustifiedIs, Zenon DEF Decimal
  <1>8. Differs(f) <=> "left" \notin fl /\ sign # <<>>
                       /\ ~(sign = <<" ">> /\ "leadzero" \notin fl /\ w > k)
    <2>1. f.conv # "c"
      BY Zenon
    <2> QED BY <1>2, <1>4, <1>5, <2>1, Zenon DEF Differs, HiddenInSpaces
  <1>9. Sized(<<>>, S, 0) /\ 0 <= 1
    BY NoCharacter
  <1>10. Laid(s, <<>>, fl, w, " ", "0") = CLaid(<<>>, s, fl, w, " ", "0")
    <2>1. PICK e, bl, ze : e = <<>> /\ bl = " " /\ ze = "0"
      OBVIOUS
    <2>2. Sized(e, S, 0)
      BY <1>9, <2>1, Zenon
    <2>3. "left" \in fl => e = <<>>
      BY <2>1, Zenon
    <2>4. Laid(s, e, fl, w, bl, ze) = CLaid(e, s, fl, w, bl, ze)
      <3>1. Sized(s, S, k) /\ 0 <= 1
        BY <1>3, <1>9, Zenon
      <3> QED BY <2>2, <2>3, <3>1, SameFront
    <2> QED BY <2>1, <2>4, Zenon
  <1>11. CASE "left" \in fl
    <2>1. Laid(s, sign, fl, w, " ", "0") = Laid(s, <<>>, fl, w, " ", "0")
      BY <1>11, Zenon DEF Laid
    <2> QED BY <1>6, <1>7, <1>8, <1>10, <1>11, <2>1, Zenon
  <1>12. CASE sign = <<>>
    BY <1>6, <1>7, <1>8, <1>10, <1>12, Zenon
  <1>13. CASE "left" \notin fl /\ sign # <<>>
    <2>1. PICK c \in Signs : sign = <<c>>
      BY <1>4, <1>13, SignIs, Zenon
    <2>2. c \in S /\ c # s[1] /\ c # "0"
      BY <1>2, <1>3, DecimalCharacters, Zenon DEF Signs
    <2>3. Laid(s, <<c>>, fl, w, " ", "0") = CLaid(<<>>, s, fl, w, " ", "0")
              <=> c = " " /\ "leadzero" \notin fl /\ w > k
      <3>1. PICK bl, ze : bl = " " /\ ze = "0"
        OBVIOUS
      <3>2. bl \in S /\ ze \in S /\ c # ze /\ c \in S /\ c # s[1]
        BY <1>3, <2>2, <3>1, Zenon
      <3>3. Laid(s, <<c>>, fl, w, bl, ze) = CLaid(<<>>, s, fl, w, bl, ze)
                <=> c = bl /\ "leadzero" \notin fl /\ w > k
        <4>1. Sized(s, S, k) /\ k >= 1 /\ "left" \notin fl
          BY <1>2, <1>3, <1>13, Zenon
        <4> QED BY <3>2, <4>1, SignAdded
      <3> QED BY <3>1, <3>3, Zenon
    <2>4. sign = <<" ">> <=> c = " "
      <3>1. PICK x, y : x = <<c>> /\ y = <<" ">>
        OBVIOUS
      <3>2. x[1] = c /\ y[1] = " "
        BY <3>1, Zenon
      <3> QED BY <2>1, <3>1, <3>2, Zenon
    <2> QED BY <1>6, <1>7, <1>8, <1>13, <2>1, <2>3, <2>4, Zenon
  <1> QED BY <1>11, <1>12, <1>13, Zenon

\* %x and %X: the prefix of C is within the field, and only of what is not 0.
LEMMA HexMatches ==
    ASSUME NEW f, NEW c \in {"x", "X"}, NEW v \in Values, NEW flg, "caps" \notin flg,
           NEW w \in Nat, NEW fl, fl = HexFlags(c, flg), NEW n, n = Arg(v, fl, FALSE),
           f.conv = c, f.arg = n, f.flags = flg, f.width = w, f.text = Hex(n, fl, w)
    PROVE  f.text = CText(f) <=> ~Differs(f)
  <1>1. n \in Nat /\ n < Longest
    BY UnsignedIs, Zenon
  <1>2. Magnitude(n) = n
    BY <1>1, MagnitudeIs, Zenon
  <1>3. /\ "caps" \in fl <=> c = "X"
        /\ "left" \in fl <=> "left" \in flg
        /\ "leadzero" \in fl <=> "leadzero" \in flg
        /\ "alt" \in fl <=> "alt" \in flg
    <2>1. fl = flg \cup (IF c = "X" THEN {"caps"} ELSE {})
      <3>1. c # "p"
        BY Zenon
      <3>2. fl = flg \cup (IF c = "X" THEN {"caps"} ELSE {}) \cup {}
        BY <3>1, Zenon DEF HexFlags
      <3> QED BY <3>2
    <2> QED BY <2>1
  <1>4. PICK table : table = IF "caps" \in fl THEN HexTableCaps ELSE HexTable
    OBVIOUS
  <1>5. PICK s, k : /\ s = ToDigits(n, 16, table) /\ s = Numeral(n, 16, table)
                    /\ Sized(s, Characters(16, table), k) /\ k \in Nat /\ k >= 1 /\ Len(s) = k
                    /\ s[1] \in Characters(16, table)
    <2>1. 16 \in {10, 16}
      OBVIOUS
    <2> QED BY <1>1, <2>1, DigitsAre, Zenon
  <1>6. PICK S : /\ " " \in S /\ "0" \in S /\ "x" \in S /\ "X" \in S
                 /\ Sized(s, S, k)
    <2>1. PICK T : T = Characters(16, table) \cup {" ", "0", "x", "X"}
      OBVIOUS
    <2>2. Characters(16, table) \subseteq T
      BY <2>1, Zenon
    <2>3. Sized(s, T, k)
      BY <1>5, <2>2, SizedIn, Zenon
    <2>4. " " \in T /\ "0" \in T /\ "x" \in T /\ "X" \in T
      BY <2>1, Zenon
    <2> QED BY <2>3, <2>4, Zenon
  <1>7. CDigits(f) = s
    <2>1. f.conv # "c" /\ f.conv # "s" /\ f.conv \in {"x", "X"}
      BY Zenon
    <2>2. table = IF f.conv = "X" THEN HexTableCaps ELSE HexTable
      BY <1>3, <1>4, Zenon
    <2> QED BY <1>2, <1>5, <2>1, <2>2, Zenon DEF CDigits
  <1>8. CSign(f) = <<>>
    <2>1. f.conv # "d"
      BY Zenon
    <2> QED BY <2>1, Zenon DEF CSign
  <1>9. Differs(f) <=> "alt" \in flg /\ (n = 0 \/ w > k)
    <2>1. f.conv # "u" /\ f.conv # "c"
      BY Zenon
    <2> QED BY <1>5, <1>7, <1>8, <2>1, Zenon DEF Differs
  <1>10. PICK a : a = CLaid(<<>>, s, flg, w, " ", "0")
    OBVIOUS
  <1>11. f.text = Prefix(fl) \o a
    <2>1. f.text = Prefix(fl) \o Justified(s, <<>>, fl, w)
      BY <1>4, <1>5, Zenon DEF Hex
    <2>2. PICK e, bl, ze : e = <<>> /\ bl = " " /\ ze = "0"
      OBVIOUS
    <2>3. Justified(s, e, fl, w) = Laid(s, e, flg, w, bl, ze)
      <3>1. Justified(s, e, fl, w) = Laid(s, e, fl, w, bl, ze)
        BY <2>2, JustifiedIs, Zenon
      <3>2. Laid(s, e, fl, w, bl, ze) = Laid(s, e, flg, w, bl, ze)
        BY <1>3, Zenon DEF Laid
      <3> QED BY <3>1, <3>2, Zenon
    <2>4. Laid(s, e, flg, w, bl, ze) = CLaid(e, s, flg, w, bl, ze)
      <3>1. Sized(s, S, k) /\ Sized(e, S, 0) /\ 0 <= 1 /\ ("left" \in flg => e = <<>>)
        <4>1. Sized(<<>>, S, 0) /\ 0 <= 1
          BY NoCharacter
        <4> QED BY <1>6, <2>2, <4>1, Zenon
      <3> QED BY <3>1, SameFront
    <2> QED BY <1>10, <2>1, <2>2, <2>3, <2>4, Zenon
  <1>12. a \in Seq(S) /\ <<>> \in Seq(S)
    <2>1. PICK bl, ze : bl = " " /\ ze = "0" /\ bl \in S /\ ze \in S
      BY <1>6, Zenon
    <2>2. Sized(<<>>, S, 0)
      BY NoCharacter
    <2>3. Sized(CLaid(<<>>, s, flg, w, bl, ze), S, IF w > 0 + k THEN w ELSE 0 + k)
      BY <1>6, <2>1, <2>2, FieldLength, Zenon
    <2> QED BY <1>10, <2>1, <2>2, <2>3, Zenon DEF Sized
  <1>13. CASE "alt" \notin flg
    <2>1. Prefix(fl) = <<>> /\ CPrefix(f) = <<>>
      BY <1>3, <1>13, Zenon DEF Prefix, CPrefix
    <2>2. <<>> \o a = a /\ <<>> \o <<>> = <<>>
      BY <1>12, ConcatEmptySeq, Zenon
    <2>3. CText(f) = a
      BY <1>7, <1>8, <1>10, <2>1, <2>2, CTextIs, Zenon
    <2> QED BY <1>9, <1>11, <1>13, <2>1, <2>2, <2>3, Zenon
  <1>14. CASE "alt" \in flg
    <2>1. PICK pre, z : z = "0" /\ pre = <<z, c>>
      OBVIOUS
    <2>2. Prefix(fl) = pre
      BY <1>3, <1>14, <2>1, Zenon DEF Prefix
    <2>3. Sized(pre, S, 2)
      <3>1. z \in S /\ c \in S
        BY <1>6, <2>1, Zenon
      <3>2. pre \in Seq(S) /\ Len(pre) = 2
        BY <2>1, <3>1
      <3> QED BY <3>2 DEF Sized
    <2>4. PICK bl, ze : bl = " " /\ ze = "0" /\ bl \in S /\ ze \in S
      BY <1>6, Zenon
    <2>5. PrefixShows(pre, CLaid(<<>>, s, flg, w, bl, ze), CLaid(pre, s, flg, w, bl, ze), w, k)
      <3>1. Sized(s, S, k)
        BY <1>6, Zenon
      <3>2. bl \in S /\ ze \in S
        BY <2>4, Zenon
      <3> QED BY <2>3, <3>1, <3>2, PrefixAdded, Zenon
    <2>6. f.text = pre \o a
      BY <1>11, <2>2, Zenon
    <2>7. /\ pre \o a # a
          /\ pre \o a = CLaid(pre, s, flg, w, " ", "0") <=> ~(w > k)
      BY <1>10, <2>4, <2>5, Zenon DEF PrefixShows
    <2>8. CASE n = 0
      <3>1. CPrefix(f) = <<>>
        BY <2>8, Zenon DEF CPrefix
      <3>2. <<>> \o <<>> = <<>>
        BY <1>12, ConcatEmptySeq, Zenon
      <3>3. CText(f) = a
        BY <1>7, <1>8, <1>10, <3>1, <3>2, CTextIs, Zenon
      <3> QED BY <1>9, <1>14, <2>6, <2>7, <2>8, <3>3, Zenon
    <2>9. CASE n # 0
      <3>1. CPrefix(f) = pre
        BY <1>14, <2>1, <2>9, Zenon DEF CPrefix
      <3>2. <<>> \o pre = pre
        <4>1. pre \in Seq(S)
          BY <2>3 DEF Sized
        <4> QED BY <4>1, ConcatEmptySeq, Zenon
      <3>3. CText(f) = CLaid(pre, s, flg, w, " ", "0")
        BY <1>7, <1>8, <3>1, <3>2, CTextIs, Zenon
      <3> QED BY <1>9, <1>14, <2>6, <2>7, <2>9, <3>3, Zenon
    <2> QED BY <2>8, <2>9
  <1> QED BY <1>13, <1>14

\* %s, in a field of whatever width.
LEMMA StringMatches ==
    ASSUME NEW f, NEW s \in Strings, NEW fl, fl \subseteq {"left"}, NEW w \in Nat,
           f.conv = "s", f.arg = s, f.flags = fl, f.width = w,
           f.text = Justified(s, <<>>, fl \ {"leadzero"}, w)
    PROVE  f.text = CText(f) <=> ~Differs(f)
  <1>1. PICK k \in Nat : Sized(s, Plain, k)
    <2>1. s \in Seq(Plain)
      BY PrintfAssumption
    <2>2. Len(s) \in Nat
      BY <2>1, LenProperties
    <2>3. Sized(s, Plain, Len(s))
      BY <2>1, <2>2 DEF Sized
    <2> QED BY <2>2, <2>3
  <1>2. fl \ {"leadzero"} = fl
    OBVIOUS
  <1>3. CSign(f) = <<>> /\ CPrefix(f) = <<>> /\ CDigits(f) = s
    <2>1. f.conv # "d" /\ f.conv # "c" /\ "alt" \notin f.flags
      BY Zenon
    <2> QED BY <2>1, Zenon DEF CSign, CPrefix, CDigits
  <1>4. CText(f) = CLaid(<<>>, s, fl, w, " ", "0")
    <2>1. <<>> \o <<>> = <<>>
      OBVIOUS
    <2> QED BY <1>3, <2>1, CTextIs, Zenon
  <1>5. f.text = Laid(s, <<>>, fl, w, " ", "0")
    BY <1>2, JustifiedIs, Zenon
  <1>6. Laid(s, <<>>, fl, w, " ", "0") = CLaid(<<>>, s, fl, w, " ", "0")
    <2>1. PICK e, bl, ze : e = <<>> /\ bl = " " /\ ze = "0"
      OBVIOUS
    <2>2. Sized(e, Plain, 0) /\ 0 <= 1 /\ ("left" \in fl => e = <<>>)
      <3>1. Sized(<<>>, Plain, 0) /\ 0 <= 1
        BY NoCharacter
      <3> QED BY <2>1, <3>1, Zenon
    <2>3. Laid(s, e, fl, w, bl, ze) = CLaid(e, s, fl, w, bl, ze)
      BY <1>1, <2>2, SameFront
    <2> QED BY <2>1, <2>3, Zenon
  <1>7. ~Differs(f)
    <2>1. f.conv # "u" /\ f.conv # "c" /\ "alt" \notin f.flags
      BY Zenon
    <2> QED BY <1>3, <2>1, Zenon DEF Differs
  <1> QED BY <1>4, <1>5, <1>6, <1>7, Zenon

\* %c pays no attention to its width.
LEMMA CharMatches ==
    ASSUME NEW f, NEW ch, NEW fl, fl \subseteq {"left"}, NEW w \in Nat,
           f.conv = "c", f.arg = ch, f.flags = fl, f.width = w, f.text = <<ch>>
    PROVE  f.text = CText(f) <=> ~Differs(f)
  <1>1. PICK S : " " \in S /\ "0" \in S /\ ch \in S
    <2>1. " " \in {" ", "0", ch} /\ "0" \in {" ", "0", ch} /\ ch \in {" ", "0", ch}
      BY Zenon
    <2> QED BY <2>1, Zenon
  <1>2. PICK s : s = <<ch>>
    OBVIOUS
  <1>3. Sized(s, S, 1)
    BY <1>1, <1>2, OneCharacter, Zenon DEF AllOf
  <1>4. CSign(f) = <<>> /\ CPrefix(f) = <<>> /\ CDigits(f) = s
    <2>1. f.conv # "d" /\ "alt" \notin f.flags
      BY Zenon
    <2> QED BY <1>2, <2>1, Zenon DEF CSign, CPrefix, CDigits
  <1>5. CText(f) = CLaid(<<>>, s, fl, w, " ", "0")
    <2>1. <<>> \o <<>> = <<>>
      OBVIOUS
    <2> QED BY <1>4, <2>1, CTextIs, Zenon
  <1>6. Differs(f) <=> w > 1
    <2>1. f.conv # "u" /\ "alt" \notin f.flags
      BY Zenon
    <2> QED BY <1>4, <2>1, Zenon DEF Differs
  <1>7. PICK bl, ze : bl = " " /\ ze = "0" /\ bl \in S /\ ze \in S
    BY <1>1, Zenon
  <1>8. CASE w > 1
    <2>1. Sized(<<>>, S, 0)
      BY NoCharacter
    <2>2. PICK x, i : x = CLaid(<<>>, s, fl, w, bl, ze) /\ i = IF w > 0 + 1 THEN w ELSE 0 + 1
      OBVIOUS
    <2>3. i = w /\ w # 1
      BY <1>8, <2>2
    <2>4. Sized(x, S, i)
      BY <1>3, <1>7, <2>1, <2>2, FieldLength, Zenon
    <2>5. x # s
      BY <1>3, <2>3, <2>4, Zenon DEF Sized
    <2> QED BY <1>2, <1>5, <1>6, <1>7, <1>8, <2>2, <2>5, Zenon
  <1>9. CASE ~(w > 1)
    <2>1. CLaid(<<>>, s, fl, w, bl, ze) = s
      <3>1. bl \in S /\ ze \in S
        BY <1>7, Zenon
      <3> QED BY <1>3, <1>9, <3>1, NarrowField
    <2> QED BY <1>2, <1>5, <1>6, <1>7, <1>9, <2>1, Zenon
  <1> QED BY <1>8, <1>9

\* What is kept of a field that has been put.
LEMMA FieldKept ==
    ASSUME NEW c, NEW arg, NEW text, EndField(c, arg, text)
    PROVE  /\ field'.conv = c /\ field'.arg = arg /\ field'.flags = flags
           /\ field'.width = width /\ field'.text = text
  BY DEF EndField

\* A conversion that C does not know of.
LEMMA NotOfC ==
    ASSUME NEW c, c \notin {"c", "s", "d", "u", "x", "X"}, NEW arg, NEW text,
           EndField(c, arg, text)
    PROVE  MatchesC'
  <1>1. field'.conv = c
    BY FieldKept, Zenon
  <1>2. ~DefinedByC(field')
    BY <1>1, Zenon DEF DefinedByC
  <1> QED BY <1>2, Zenon DEF MatchesC

\* What DefinedByC says of the flags.
LEMMA FlagsOfC ==
    ASSUME NEW f, DefinedByC(f)
    PROVE  /\ f.conv \in {"c", "s"} => f.flags \subseteq {"left"}
           /\ f.conv \in {"d", "u"} => "alt" \notin f.flags
  <1>1. /\ f.conv \in {"c", "s"} => f.flags \subseteq {"left"}
        /\ "alt" \in f.flags => f.conv \in {"x", "X"}
    BY Zenon DEF DefinedByC
  <1>2. f.conv \in {"d", "u"} => f.conv \notin {"x", "X"}
    BY Zenon
  <1> QED BY <1>1, <1>2, Zenon

\* Each conversion puts a field as C says, but for Differs.
LEMMA ConversionMatches ==
    ASSUME PInv, "caps" \notin flags,
           \/ ReadChar \/ ReadString \/ ReadN \/ ReadPercentAgain
           \/ \E c \in Plain : ReadUnknown(c)
           \/ \E c \in {"d", "u"} : ReadDecimal(c)
           \/ \E c \in {"x", "X", "p"} : ReadHex(c)
    PROVE  MatchesC'
  <1>1. width \in Nat
    BY FieldWidth
  <1>2. ASSUME NEW ch, EndField("c", ch, <<ch>>) PROVE MatchesC'
    <2> SUFFICES ASSUME DefinedByC(field')
                 PROVE  field'.text = CText(field') <=> ~Differs(field')
      BY Zenon DEF MatchesC
    <2>1. /\ field'.conv = "c" /\ field'.arg = ch /\ field'.flags = flags
          /\ field'.width = width /\ field'.text = <<ch>>
      BY <1>2, FieldKept, Zenon
    <2>2. flags \subseteq {"left"}
      <3>1. field'.conv \in {"c", "s"}
        BY <2>1, Zenon
      <3>2. field'.flags \subseteq {"left"}
        BY <3>1, FlagsOfC, Zenon
      <3> QED BY <2>1, <3>2, Zenon
    <2> QED BY <1>1, <2>1, <2>2, CharMatches, Zenon
  <1>3. ASSUME NEW s \in Strings, EndField("s", s, Justified(s, <<>>, flags \ {"leadzero"}, width))
        PROVE  MatchesC'
    <2> SUFFICES ASSUME DefinedByC(field')
                 PROVE  field'.text = CText(field') <=> ~Differs(field')
      BY Zenon DEF MatchesC
    <2>1. /\ field'.conv = "s" /\ field'.arg = s /\ field'.flags = flags
          /\ field'.width = width /\ field'.text = Justified(s, <<>>, flags \ {"leadzero"}, width)
      BY <1>3, FieldKept, Zenon
    <2>2. flags \subseteq {"left"}
      <3>1. field'.conv \in {"c", "s"}
        BY <2>1, Zenon
      <3>2. field'.flags \subseteq {"left"}
        BY <3>1, FlagsOfC, Zenon
      <3> QED BY <2>1, <3>2, Zenon
    <2> QED BY <1>1, <2>1, <2>2, StringMatches, Zenon
  <1>4. ASSUME NEW c \in {"d", "u"}, NEW v \in Values, NEW n, n = Arg(v, flags, c = "d"),
               EndField(c, n, Decimal(n, flags, width))
        PROVE  MatchesC'
    <2> SUFFICES ASSUME DefinedByC(field')
                 PROVE  field'.text = CText(field') <=> ~Differs(field')
      BY Zenon DEF MatchesC
    <2>1. /\ field'.conv = c /\ field'.arg = n /\ field'.flags = flags
          /\ field'.width = width /\ field'.text = Decimal(n, flags, width)
      BY <1>4, FieldKept, Zenon
    <2>2. "alt" \notin flags
      BY <2>1, FlagsOfC, Zenon
    <2>3. CASE c = "d"
      <3>1. n = Arg(v, flags, TRUE)
        BY <1>4, <2>3, Zenon DEF Arg
      <3> QED BY <1>1, <2>1, <2>2, <2>3, <3>1, SignedMatches, Zenon
    <2>4. CASE c = "u"
      <3>1. n = Arg(v, flags, FALSE)
        <4>1. c # "d"
          BY <2>4, Zenon
        <4> QED BY <1>4, <4>1, Zenon DEF Arg
      <3> QED BY <1>1, <2>1, <2>2, <2>4, <3>1, UnsignedMatches, Zenon
    <2> QED BY <2>3, <2>4, Zenon
  <1>5. ASSUME NEW c \in {"x", "X", "p"}, NEW v \in Values, NEW fl, fl = HexFlags(c, flags),
               NEW n, n = Arg(v, fl, FALSE), EndField(c, n, Hex(n, fl, width))
        PROVE  MatchesC'
    <2>1. CASE c = "p"
      <3>1. c \notin {"c", "s", "d", "u", "x", "X"}
        BY <2>1, Zenon
      <3> QED BY <1>5, <3>1, NotOfC, Zenon
    <2>2. CASE c \in {"x", "X"}
      <3> SUFFICES ASSUME DefinedByC(field')
                   PROVE  field'.text = CText(field') <=> ~Differs(field')
        BY Zenon DEF MatchesC
      <3>1. /\ field'.conv = c /\ field'.arg = n /\ field'.flags = flags
            /\ field'.width = width /\ field'.text = Hex(n, fl, width)
        BY <1>5, FieldKept, Zenon
      <3> QED BY <1>1, <1>5, <2>2, <3>1, HexMatches, Zenon
    <2> QED BY <2>1, <2>2, Zenon
  <1>6. ASSUME NEW c, c \in {"n", "%", "unknown"}, NEW arg, NEW text, EndField(c, arg, text)
        PROVE  MatchesC'
    <2>1. c \notin {"c", "s", "d", "u", "x", "X"}
      BY <1>6, Zenon
    <2> QED BY <1>6, <2>1, NotOfC, Zenon
  <1>7. CASE ReadChar
    BY <1>2, <1>7, Zenon DEF ReadChar
  <1>8. CASE ReadString
    BY <1>3, <1>8, Zenon DEF ReadString
  <1>9. CASE ReadN \/ ReadPercentAgain \/ \E c \in Plain : ReadUnknown(c)
    BY <1>6, <1>9, Zenon DEF ReadN, ReadPercentAgain, ReadUnknown
  <1>10. CASE \E c \in {"d", "u"} : ReadDecimal(c)
    BY <1>4, <1>10, Zenon DEF ReadDecimal
  <1>11. CASE \E c \in {"x", "X", "p"} : ReadHex(c)
    BY <1>5, <1>11, Zenon DEF ReadHex
  <1> QED BY <1>7, <1>8, <1>9, <1>10, <1>11, Zenon

\* The invariant of the fields: the engine sets its own flag for capitals only
\* when a field ends, so that none is being read with it.
FieldInv == PInv /\ MatchesC /\ "caps" \notin flags

\* A step keeps both.
LEMMA FieldInvStep ==
    ASSUME FieldInv, Engine
    PROVE  MatchesC' /\ "caps" \notin flags'
  <1>1. "caps" \notin flags /\ PInv /\ MatchesC
    BY DEF FieldInv
  <1>2. CASE \/ ReadChar \/ ReadString \/ ReadN \/ ReadPercentAgain
             \/ \E c \in Plain : ReadUnknown(c)
             \/ \E c \in {"d", "u"} : ReadDecimal(c)
             \/ \E c \in {"x", "X", "p"} : ReadHex(c)
    <2>1. MatchesC'
      BY <1>1, <1>2, ConversionMatches, Zenon
    <2>2. flags' = {}
      BY <1>2, Zenon DEF ReadChar, ReadString, ReadN, ReadPercentAgain, ReadUnknown, ReadDecimal,
                         ReadHex, EndField
    <2> QED BY <2>1, <2>2
  <1>3. CASE ReadPercent \/ ReadEnd \/ \E c \in Plain : ReadText(c)
    <2>1. field' = NoField /\ (flags' = {} \/ flags' = flags)
      BY <1>3, Zenon DEF ReadPercent, ReadEnd, ReadText
    <2> QED BY <1>1, <2>1, Zenon DEF MatchesC
  <1>4. CASE \/ ReadDot \/ \E d \in Digits : ReadDigit(d)
             \/ \E c \in DOMAIN FlagOf : ReadFlag(c)
             \/ \E c \in DOMAIN LengthOf : ReadLength(c)
    <2>1. field' = field
      BY <1>4, Zenon DEF ReadDot, ReadDigit, ReadFlag, ReadLength
    <2>2. MatchesC'
      BY <1>1, <2>1, Zenon DEF MatchesC
    <2>3. CASE ReadDot \/ \E d \in Digits : ReadDigit(d)
      <3>1. flags' = flags \/ flags' = flags \cup {"leadzero"}
        BY <2>3, Zenon DEF ReadDot, ReadDigit
      <3> QED BY <1>1, <2>2, <3>1
    <2>4. ASSUME NEW c \in DOMAIN FlagOf, ReadFlag(c) PROVE "caps" \notin flags'
      <3>1. flags' = flags \cup {FlagOf[c]} /\ FlagOf[c] # "caps"
        BY <2>4, FlagIs, Zenon DEF ReadFlag
      <3> QED BY <1>1, <3>1, Zenon
    <2>5. ASSUME NEW c \in DOMAIN LengthOf, ReadLength(c) PROVE "caps" \notin flags'
      <3>1. LengthOf[c] # "caps"
        BY LengthIs, Zenon
      <3>2. flags' = flags \cup {LengthOf[c]}
              \cup (IF c = "l" /\ "long" \in flags THEN {"longlong"} ELSE {})
              \cup (IF c = "h" /\ "half" \in flags THEN {"halfhalf"} ELSE {})
        BY <2>5, Zenon DEF ReadLength
      <3> QED BY <1>1, <3>1, <3>2
    <2> QED BY <1>4, <2>2, <2>3, <2>4, <2>5, Zenon
  <1> QED BY <1>2, <1>3, <1>4, Zenon DEF Engine

\* Whatever the format and the arguments, and however wide the types are: every
\* field C defines is put as C says, with the right digits, sign, prefix and
\* padding, in every combination of flags, width, type and value but those of
\* Differs, and differently in all of those.
THEOREM FieldsAsC == Spec => []MatchesC
  <1>1. Init => FieldInv
    <2>1. Init => MatchesC /\ "caps" \notin flags
      BY Zenon DEF Init, MatchesC
    <2>2. Init => PInv
      BY InitiallyAccounted
    <2> QED BY <2>1, <2>2, Zenon DEF FieldInv
  <1>2. ASSUME FieldInv, [Next]_vars PROVE FieldInv'
    <2>1. PInv'
      BY <1>2, StepAccounted, Zenon DEF FieldInv
    <2>2. CASE Engine
      BY <1>2, <2>1, <2>2, FieldInvStep, Zenon DEF FieldInv
    <2>3. CASE UNCHANGED vars
      <3>1. field' = field /\ flags' = flags
        BY <2>3 DEF vars
      <3> QED BY <1>2, <2>1, <3>1, Zenon DEF FieldInv, MatchesC
    <2> QED BY <1>2, <2>2, <2>3, Zenon DEF Next, Finished
  <1>3. FieldInv => MatchesC
    BY DEF FieldInv
  <1> QED BY <1>1, <1>2, <1>3, PTL DEF Spec
=============================================================================
