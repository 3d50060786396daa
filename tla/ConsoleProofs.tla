--------------------------- MODULE ConsoleProofs ---------------------------
(* Proofs that the column comes back to the screen whatever comes between,    *)
(* that a console_write nothing comes into writes nothing behind the screen,  *)
(* and that the screen then shows the end of all that was printed, for every  *)
(* size of screen, every string and every key.                                *)
EXTENDS Console, SequenceTheorems, WellFoundedInduction, TLAPS

-----------------------------------------------------------------------------
(* Cells *)

\* Multiplication is monotonic.
LEMMA TimesMonotonic ==
    ASSUME NEW a \in Int, NEW b \in Int, NEW w \in Nat, a <= b
    PROVE  a * w <= b * w
  <1>1. PICK d \in Nat : b = a + d
    <2>1. b - a \in Nat /\ b = a + (b - a)
      OBVIOUS
    <2> QED BY <2>1
  <1>2. d * w >= 0
    OBVIOUS
  <1>3. b * w = a * w + d * w
    BY <1>1
  <1> QED BY <1>2, <1>3

\* Quotient and remainder.
LEMMA Division ==
    ASSUME NEW k \in Int, NEW b \in Nat \ {0}
    PROVE  (k % b) + b * (k \div b) = k
  OBVIOUS

\* A cell on the screen is not behind it.
LEMMA CellOnScreen ==
    ASSUME NEW l \in Int, NEW k \in Int, l < H, k < W
    PROVE  l * W + k < W * H
  <1>1. W \in Nat /\ H \in Nat
    BY ConsoleAssumption
  <1>2. (l + 1) * W <= H * W
    BY <1>1, TimesMonotonic
  <1>3. (l + 1) * W = l * W + W /\ H * W = W * H
    BY <1>1
  <1>4. l * W \in Int /\ W * H \in Int
    BY <1>1
  <1> QED BY <1>1, <1>2, <1>3, <1>4

\* Nor is a row of the screen behind it.
LEMMA RowOnScreen ==
    ASSUME NEW a \in Nat, a >= W * H
    PROVE  a \div W >= H
  <1>1. W \in Nat \ {0} /\ H \in Nat
    BY ConsoleAssumption
  <1> DEFINE q == a \div W
             m == a % W
  <1>2. m + W * q = a /\ q \in Int
    BY <1>1, Division
  <1>3. m \in 0..(W - 1)
    BY <1>1
  <1> HIDE DEF q, m
  <1>4. SUFFICES ASSUME q < H PROVE FALSE
    BY <1>1, <1>2 DEF q
  <1>5. q * W + m < W * H
    BY <1>1, <1>2, <1>3, <1>4, CellOnScreen
  <1>6. q * W = W * q /\ W * q \in Int /\ W * H \in Int
    BY <1>1, <1>2
  <1>7. a < W * H
    BY <1>2, <1>3, <1>5, <1>6
  <1> QED BY <1>6, <1>7

-----------------------------------------------------------------------------
(* putchar in one piece *)

Behind(v) == \A a \in Memory : a >= W * H => v[a] = Blank

\* Wherever it starts, the column is on the screen when it ends; and it starts
\* and ends within the screen together.
LEMMA PutCharKeeps ==
    ASSUME NEW v, NEW l \in Int, NEW k \in Int, NEW ch,
           DOMAIN v = Memory
    PROVE  LET r == PutChar(Scr(v, l, k), ch)
           IN  /\ r = Scr(r.vga, r.line, r.col)
               /\ r.line \in Int /\ r.col \in Int /\ r.col < W
               /\ DOMAIN r.vga = Memory
               /\ l < H /\ k < W /\ Behind(v) => r.line < H /\ Behind(r.vga)
  <1>1. W \in Nat \ {0} /\ H \in Nat \ {0} /\ TabStop \in Nat \ {0}
    BY ConsoleAssumption
  <1> DEFINE s == Switch(Scr(v, l, k), ch)
             t == Wrap(s)
  <1>2. /\ s = Scr(s.vga, s.line, s.col) /\ s.line \in Int /\ s.col \in Int
        /\ DOMAIN s.vga = Memory
        /\ l < H /\ k < W /\ Behind(v) =>
              Behind(s.vga) /\ s.line <= H /\ (s.col >= W => s.line < H)
    <2>1. NextTab(k) \in Int
      BY <1>1 DEF NextTab
    <2>2. CASE ch = "newline"
      <3>1. s = Scr(v, l + 1, k)
        BY <2>2 DEF Switch, Scr
      <3> QED BY <1>1, <3>1 DEF Scr
    <2>3. CASE ch = "return"
      <3>1. s = Scr(v, l, 0)
        BY <2>3 DEF Switch, Scr
      <3> QED BY <1>1, <3>1 DEF Scr
    <2>4. CASE ch = "tab"
      <3>1. s = Scr(v, l, NextTab(k))
        BY <2>4 DEF Switch, Scr
      <3> QED BY <1>1, <2>1, <3>1 DEF Scr
    <2>5. CASE ch = "other"
      <3>1. s = Scr(v, l, k)
        BY <2>5 DEF Switch, Scr
      <3> QED BY <1>1, <3>1 DEF Scr
    <2>6. CASE ch \notin {"newline", "return", "tab", "other"}
      <3> DEFINE u == [v EXCEPT ![l * W + k] = ch]
      <3>1. s = Scr(u, l, k + 1)
        BY <2>6 DEF Switch, Scr
      <3>2. DOMAIN u = Memory
        OBVIOUS
      <3>3. ASSUME l < H, k < W, Behind(v) PROVE Behind(u)
        <4> SUFFICES ASSUME NEW a \in Memory, a >= W * H PROVE u[a] = Blank
          BY DEF Behind
        <4>1. l * W + k < W * H /\ l * W + k \in Int /\ a \in Int /\ W * H \in Int
          BY <1>1, <3>3, CellOnScreen DEF Memory
        <4>2. a # l * W + k
          BY <4>1
        <4> QED BY <3>3, <4>2 DEF Behind
      <3> HIDE DEF u
      <3> QED BY <1>1, <3>1, <3>2, <3>3 DEF Scr
    <2> QED BY <2>2, <2>3, <2>4, <2>5, <2>6
  <1> HIDE DEF s
  <1>3. /\ t = Scr(t.vga, t.line, t.col) /\ t.line \in Int /\ t.col \in Int /\ t.col < W
        /\ DOMAIN t.vga = Memory
        /\ l < H /\ k < W /\ Behind(v) => Behind(t.vga) /\ t.line <= H
    <2>1. CASE s.col >= W
      <3>1. t = Scr(s.vga, s.line + 1, 0)
        BY <2>1 DEF Wrap, AtEndOfLine
      <3> QED BY <1>1, <1>2, <2>1, <3>1 DEF Scr
    <2>2. CASE ~(s.col >= W)
      <3>1. t = s
        BY <2>2 DEF Wrap, AtEndOfLine
      <3> QED BY <1>1, <1>2, <2>2, <3>1
    <2> QED BY <2>1, <2>2
  <1> DEFINE r == PutChar(Scr(v, l, k), ch)
  <1>4. r = IF t.line = H THEN Scr(ScrolledUp(t.vga), t.line - 1, t.col) ELSE t
    BY DEF PutChar, Scroll, s
  <1> HIDE DEF t, r
  <1>5. CASE t.line = H
    <2> DEFINE u == ScrolledUp(t.vga)
    <2>1. r = Scr(u, t.line - 1, t.col)
      BY <1>4, <1>5
    <2>2. DOMAIN u = Memory
      BY <1>3 DEF ScrolledUp
    <2>3. ASSUME Behind(t.vga) PROVE Behind(u)
      <3> SUFFICES ASSUME NEW a \in Memory, a >= W * H PROVE u[a] = Blank
        BY DEF Behind
      <3>1. H * W = W * H /\ a \in Int /\ (H - 1) * W <= H * W /\ (H - 1) * W \in Int
            /\ W * H \in Int
        BY <1>1, TimesMonotonic DEF Memory
      <3>2. ~(a < (H - 1) * W) /\ ~(a < H * W)
        BY <3>1
      <3> QED BY <1>3, <2>3, <3>2 DEF ScrolledUp, Behind
    <2> HIDE DEF u
    <2>4. t.line - 1 < H /\ t.line - 1 \in Int
      BY <1>1, <1>5
    <2> QED BY <1>3, <2>1, <2>2, <2>3, <2>4 DEF Scr, r
  <1>6. CASE t.line # H
    <2>1. r = t
      BY <1>4, <1>6
    <2> QED BY <1>1, <1>3, <1>6, <2>1 DEF r
  <1> QED BY <1>5, <1>6

-----------------------------------------------------------------------------
(* The inductive invariant *)

Places == {"idle", "next", "switch", "cell", "col", "wrap", "line", "bottom",
           "copy", "back"}

Typed ==
    /\ DOMAIN vga = Memory /\ pc \in Places /\ mixed \in BOOLEAN
    /\ line \in Int /\ col \in Int /\ lineReg \in Int /\ colReg \in Int /\ i \in Int

\* Only between the store of col and the test of it is the column past the end.
ColumnTested == pc # "wrap" => col < W

\* What the task's putchar has loaded, and how far line and col have come, as
\* long as nothing has come in between.
OnItsOwn ==
    /\ Behind(vga)
    /\ pc \in {"idle", "next", "switch", "cell", "col", "line"} => line < H
    /\ pc \in {"switch", "cell", "col"} => lineReg < H
    /\ pc \in {"cell", "col"} => colReg < W
    /\ pc \in {"bottom", "wrap"} => line <= H
    /\ pc = "wrap" /\ col >= W => line < H
    /\ pc = "copy" => i < H
    /\ pc = "copy" \/ pc = "back" => line = H

CInv == Typed /\ ColumnTested /\ (~mixed => OnItsOwn)

\* The steps of putchar up to the test of the column.
LEMMA SwitchSteps ==
    ASSUME CInv,
           \/ NextChar \/ ConsoleWriteReturns \/ PutNewline \/ PutReturn
           \/ PutOther \/ LoadCol \/ StoreCell \/ StoreCol
    PROVE  CInv'
  <1>1. W \in Nat \ {0} /\ H \in Nat \ {0} /\ TabStop \in Nat \ {0}
    BY ConsoleAssumption
  <1>2. mixed' = mixed
    BY DEF NextChar, ConsoleWriteReturns, PutNewline, PutReturn, PutOther, LoadCol,
           StoreCell, StoreCol, ghosts
  <1>3. CASE NextChar \/ ConsoleWriteReturns
    BY <1>1, <1>3 DEF NextChar, ConsoleWriteReturns, CInv, Typed, ColumnTested, OnItsOwn,
                      Places, screen, regs, ghosts, Behind
  <1>4. CASE PutNewline \/ PutReturn \/ PutOther
    BY <1>1, <1>4 DEF PutNewline, PutReturn, PutOther, CInv, Typed, ColumnTested,
                      OnItsOwn, Places, screen, regs, ghosts, Behind
  <1>5. CASE LoadCol
    BY <1>1, <1>5 DEF LoadCol, CInv, Typed, ColumnTested, OnItsOwn, Places, screen,
                      ghosts, Behind
  <1>6. CASE StoreCell
    <2>1. /\ pc = "cell" /\ pc' = "col" /\ UNCHANGED <<col, line, lineReg, colReg, i>>
          /\ vga' = [vga EXCEPT ![lineReg * W + colReg] = c]
      BY <1>6 DEF StoreCell, regs
    <2>2. DOMAIN vga' = DOMAIN vga
      BY <2>1
    <2>3. ASSUME ~mixed PROVE Behind(vga')
      <3> SUFFICES ASSUME NEW a \in Memory, a >= W * H PROVE vga'[a] = Blank
        BY DEF Behind
      <3>1. /\ lineReg \in Int /\ colReg \in Int /\ lineReg < H /\ colReg < W
            /\ vga[a] = Blank /\ a \in DOMAIN vga
        BY <2>1, <2>3 DEF CInv, Typed, OnItsOwn, Behind
      <3>2. lineReg * W + colReg < W * H /\ lineReg * W + colReg \in Int
            /\ a \in Int /\ W * H \in Int
        BY <1>1, <3>1, CellOnScreen DEF Memory
      <3>3. a # lineReg * W + colReg
        BY <3>2
      <3> QED BY <2>1, <3>1, <3>3
    <2> QED BY <1>1, <1>2, <2>1, <2>2, <2>3 DEF CInv, Typed, ColumnTested, OnItsOwn, Places
  <1>7. CASE StoreCol
    <2>1. NextTab(colReg) \in Int
      BY <1>1 DEF NextTab, CInv, Typed
    <2> QED BY <1>1, <1>2, <1>7, <2>1 DEF StoreCol, CInv, Typed, ColumnTested, OnItsOwn,
                                          Places, regs, Behind
  <1> QED BY <1>3, <1>4, <1>5, <1>6, <1>7

\* The tests of the column and of the line, and the scroll.
LEMMA ScrollSteps ==
    ASSUME CInv, ColAtEnd \/ NextLine \/ LineAtEnd \/ CopyRow \/ ClearRow \/ LineBack
    PROVE  CInv'
  <1>1. W \in Nat \ {0} /\ H \in Nat \ {0, 1}
    BY ConsoleAssumption
  <1>2. mixed' = mixed
    BY DEF ColAtEnd, NextLine, LineAtEnd, CopyRow, ClearRow, LineBack, ghosts
  <1>3. CASE ColAtEnd
    BY <1>1, <1>3 DEF ColAtEnd, AtEndOfLine, CInv, Typed, ColumnTested, OnItsOwn, Places,
                      regs, ghosts, Behind
  <1>4. CASE NextLine
    BY <1>1, <1>4 DEF NextLine, CInv, Typed, ColumnTested, OnItsOwn, Places, regs, ghosts,
                      Behind
  <1>5. CASE LineAtEnd
    BY <1>1, <1>5 DEF LineAtEnd, CInv, Typed, ColumnTested, OnItsOwn, Places, screen, Behind
  <1>6. CASE CopyRow \/ ClearRow
    <2>1. /\ pc = "copy" /\ i < H /\ i \in Int /\ UNCHANGED <<col, line, lineReg, colReg>>
          /\ pc' \in {"copy", "back"} /\ i' \in Int /\ i' < H
          /\ DOMAIN vga' = Memory
          /\ \A a \in Memory : a \div W >= H => vga'[a] = vga[a]
      BY <1>1, <1>6 DEF CopyRow, ClearRow, regs, CInv, Typed, OnItsOwn
    <2>2. ASSUME ~mixed PROVE Behind(vga')
      <3> SUFFICES ASSUME NEW a \in Memory, a >= W * H PROVE vga'[a] = Blank
        BY DEF Behind
      <3>1. a \div W >= H
        BY RowOnScreen DEF Memory
      <3> QED BY <2>1, <2>2, <3>1 DEF CInv, OnItsOwn, Behind
    <2> QED BY <1>1, <1>2, <2>1, <2>2 DEF CInv, Typed, ColumnTested, OnItsOwn, Places
  <1>7. CASE LineBack
    BY <1>1, <1>7 DEF LineBack, CInv, Typed, ColumnTested, OnItsOwn, Places, regs, ghosts,
                      Behind
  <1> QED BY <1>3, <1>4, <1>5, <1>6, <1>7

\* A key is echoed, in the middle of a console_write or not.
LEMMA KeyStep ==
    ASSUME CInv, NEW key, ConsoleInput(key)
    PROVE  CInv'
  <1>1. W \in Nat \ {0} /\ H \in Nat \ {0, 1}
    BY ConsoleAssumption
  <1> DEFINE s0 == Scr(vga, line, col)
             s1 == IF key = "newline" THEN PutChar(s0, "return") ELSE s0
             s  == PutChar(s1, key)
  <1>2. /\ vga' = s.vga /\ line' = s.line /\ col' = s.col
        /\ UNCHANGED <<lineReg, colReg, i, pc>> /\ mixed' = (mixed \/ pc # "idle")
    BY DEF ConsoleInput, regs
  <1>3. /\ s1 = Scr(s1.vga, s1.line, s1.col) /\ s1.line \in Int /\ s1.col \in Int
        /\ DOMAIN s1.vga = Memory
        /\ line < H /\ col < W /\ Behind(vga) => s1.line < H /\ s1.col < W /\ Behind(s1.vga)
    <2>1. CASE key = "newline"
      BY <2>1, PutCharKeeps DEF CInv, Typed
    <2>2. CASE key # "newline"
      <3>1. s1 = s0
        BY <2>2
      <3> QED BY <3>1 DEF Scr, CInv, Typed
    <2> QED BY <2>1, <2>2
  <1> HIDE DEF s1
  <1>4. /\ s.line \in Int /\ s.col \in Int /\ s.col < W /\ DOMAIN s.vga = Memory
        /\ s1.line < H /\ s1.col < W /\ Behind(s1.vga) => s.line < H /\ Behind(s.vga)
    <2> DEFINE v == s1.vga l == s1.line k == s1.col
    <2>1. v = s1.vga /\ l = s1.line /\ k = s1.col /\ s1 = Scr(v, l, k)
      BY <1>3
    <2> HIDE DEF v, l, k
    <2> QED BY <1>3, <2>1, PutCharKeeps
  <1> HIDE DEF s
  <1>5. Typed' /\ ColumnTested'
    BY <1>2, <1>4 DEF CInv, Typed, ColumnTested
  <1>6. ASSUME ~mixed' PROVE OnItsOwn'
    <2>1. pc = "idle" /\ ~mixed
      BY <1>2, <1>6 DEF CInv, Typed
    <2>2. line < H /\ col < W /\ Behind(vga)
      BY <2>1 DEF CInv, OnItsOwn, ColumnTested
    <2>3. line' < H /\ Behind(vga')
      BY <1>2, <1>3, <1>4, <2>2
    <2> QED BY <1>2, <2>1, <2>3 DEF OnItsOwn
  <1> QED BY <1>5, <1>6 DEF CInv

LEMMA InitCInv == Init => CInv
  <1> SUFFICES ASSUME Init PROVE CInv
    OBVIOUS
  <1>1. W \in Nat \ {0} /\ H \in Nat \ {0}
    BY ConsoleAssumption
  <1>2. Behind(vga) /\ DOMAIN vga = Memory
    BY DEF Init, Behind
  <1>3. Typed
    <2>1. /\ col = 0 /\ line = 0 /\ lineReg = 0 /\ colReg = 0 /\ i = 0
          /\ pc = "idle" /\ mixed = FALSE
      BY DEF Init
    <2>2. mixed \in BOOLEAN /\ pc \in Places
      BY <2>1 DEF Places
    <2>3. line \in Int /\ col \in Int /\ lineReg \in Int /\ colReg \in Int /\ i \in Int
      BY <2>1
    <2> QED BY <1>2, <2>2, <2>3 DEF Typed
  <1> QED BY <1>1, <1>2, <1>3 DEF Init, CInv, ColumnTested, OnItsOwn

LEMMA NextCInv == CInv /\ [Next]_vars => CInv'
  <1> SUFFICES ASSUME CInv, [Next]_vars PROVE CInv'
    OBVIOUS
  <1>1. CASE TaskStep
    BY <1>1, SwitchSteps, ScrollSteps DEF TaskStep
  <1>2. ASSUME NEW s \in Strings, ConsoleWrite(s) PROVE CInv'
    BY <1>2 DEF ConsoleWrite, CInv, Typed, ColumnTested, OnItsOwn, Places, screen, regs,
                Behind
  <1>3. ASSUME NEW key \in Keys, ConsoleInput(key) PROVE CInv'
    BY <1>3, KeyStep
  <1>4. CASE UNCHANGED vars
    BY <1>4 DEF vars, screen, regs, ghosts, CInv, Typed, ColumnTested, OnItsOwn, Behind
  <1> QED BY <1>1, <1>2, <1>3, <1>4 DEF Next, Idle

-----------------------------------------------------------------------------
(* The theorems *)

\* Every reachable state satisfies the invariant.
THEOREM ConsoleInvariance == Spec => []CInv
  BY InitCInv, NextCInv, PTL DEF Spec

\* The column is on the screen whenever no putchar of the task is running,
\* wherever keys have come between its steps.
THEOREM ColumnReturns == Spec => []ColumnOnScreen
  <1>1. CInv => ColumnOnScreen
    BY DEF CInv, ColumnTested, ColumnOnScreen
  <1> QED BY <1>1, ConsoleInvariance, PTL

\* As long as no key comes into a console_write, nothing is written behind the
\* frame buffer, for every size of screen and every string.
THEOREM NothingBehindTheScreen == Spec => []OffScreenUntouched
  <1>1. CInv => OffScreenUntouched
    BY DEF CInv, OnItsOwn, Behind, OffScreenUntouched
  <1> QED BY <1>1, ConsoleInvariance, PTL

-----------------------------------------------------------------------------
(* The terminal of unlimited height *)

Rows == [0..(W - 1) -> Printable \cup {Blank}]
Terminal(rows, k) == [rows |-> rows, col |-> k]
Inked(rows, k, ch) == [rows EXCEPT ![Len(rows)][k] = ch]

GoodTerminal(t) ==
    /\ t = Terminal(t.rows, t.col)
    /\ t.rows \in Seq(Rows) /\ Len(t.rows) >= 1
    /\ t.col \in 0..(W - 1)

LEMMA Sizes == W \in Nat /\ W >= 2 /\ H \in Nat /\ H >= 2 /\ TabStop \in Nat \ {0}
  BY ConsoleAssumption

\* A tab ends at a tab stop, the last of which is the end of the row.
LEMMA TabEnds ==
    ASSUME NEW k \in 0..(W - 1)
    PROVE  /\ NextTab(k) \in 0..W
           /\ (k \div TabStop + 1) * TabStop = NextTab(k)
  <1>1. W \in Nat \ {0} /\ TabStop \in Nat \ {0} /\ W % TabStop = 0
    BY ConsoleAssumption
  <1>2. PICK n \in Nat \ {0} : n = TabStop
    BY <1>1
  <1>3. PICK q \in Nat, r \in 0..(n - 1) : q = k \div n /\ r = k % n /\ n * q + r = k
    <2>1. k \div n \in Nat /\ k % n \in 0..(n - 1)
      BY <1>1
    <2>2. (k % n) + n * (k \div n) = k
      BY <1>1, Division
    <2> QED BY <2>1, <2>2
  <1>4. PICK m \in Nat : n * m = W
    <2>1. W \div n \in Nat
      BY <1>1
    <2>2. (W % n) + n * (W \div n) = W
      BY <1>1, Division
    <2>3. W % n = 0
      BY <1>1, <1>2, Zenon
    <2>4. PICK d \in Nat : d = W \div n
      BY <2>1
    <2>5. 0 + n * d = W
      BY <2>2, <2>3, <2>4, Zenon
    <2>6. n * d = W
      BY <2>5
    <2> QED BY <2>6
  <1>5. PICK p \in Nat : p = n * q
    OBVIOUS
  <1>6. (q + 1) * n = p + n
    BY <1>5
  <1>7. NextTab(k) = p + n
    BY <1>2, <1>3, <1>5 DEF NextTab
  <1>8. q + 1 <= m
    <2>1. SUFFICES ASSUME m <= q PROVE FALSE
      OBVIOUS
    <2>2. m * n <= q * n
      BY <2>1, TimesMonotonic
    <2>3. W <= p
      BY <1>4, <1>5, <2>2
    <2> QED BY <1>1, <1>3, <1>5, <2>3
  <1>9. (q + 1) * n <= m * n
    BY <1>8, TimesMonotonic
  <1>10. m * n = W
    BY <1>4
  <1>11. p + n \in 0..W
    BY <1>1, <1>6, <1>9, <1>10
  <1> QED BY <1>2, <1>3, <1>6, <1>7, <1>11

\* The rows a step of the terminal leaves are rows.
LEMMA RowsGrow ==
    ASSUME NEW rows \in Seq(Rows), Len(rows) >= 1
    PROVE  /\ BlankRow \in Rows
           /\ Append(rows, BlankRow) \in Seq(Rows) /\ Len(Append(rows, BlankRow)) = Len(rows) + 1
           /\ \A j \in 1..Len(rows) : Append(rows, BlankRow)[j] = rows[j]
           /\ Append(rows, BlankRow)[Len(rows) + 1] = BlankRow
  <1>1. BlankRow \in Rows
    BY DEF BlankRow, Rows
  <1> QED BY <1>1, AppendProperties

LEMMA RowsInked ==
    ASSUME NEW rows \in Seq(Rows), Len(rows) >= 1, NEW k \in 0..(W - 1), NEW ch \in Printable
    PROVE  LET ink == Inked(rows, k, ch)
           IN  /\ ink \in Seq(Rows) /\ Len(ink) = Len(rows)
               /\ \A j \in 1..Len(rows) : j # Len(rows) => ink[j] = rows[j]
               /\ ink[Len(rows)][k] = ch
               /\ \A m \in 0..(W - 1) : m # k => ink[Len(rows)][m] = rows[Len(rows)][m]
  <1> DEFINE n == Len(rows)
             ink == Inked(rows, k, ch)
  <1>1. /\ n \in Nat /\ n \in 1..n /\ DOMAIN rows = 1..n /\ \A j \in 1..n : rows[j] \in Rows
        /\ rows = [j \in 1..n |-> rows[j]]
    BY LenProperties
  <1>2. ink = [rows EXCEPT ![n] = [rows[n] EXCEPT ![k] = ch]]
    BY DEF Inked
  <1>3. /\ [rows[n] EXCEPT ![k] = ch] \in Rows
        /\ [rows[n] EXCEPT ![k] = ch][k] = ch
        /\ \A m \in 0..(W - 1) : m # k => [rows[n] EXCEPT ![k] = ch][m] = rows[n][m]
    BY <1>1 DEF Rows
  <1> HIDE DEF n, ink
  <1>4. /\ DOMAIN ink = 1..n
        /\ ink[n] = [rows[n] EXCEPT ![k] = ch]
        /\ \A j \in 1..n : j # n => ink[j] = rows[j]
    BY <1>1, <1>2
  <1>5. /\ ink = [j \in 1..n |-> ink[j]] /\ \A j \in 1..n : ink[j] \in Rows
    <2>1. \A j \in 1..n : ink[j] \in Rows
      BY <1>1, <1>3, <1>4
    <2> QED BY <1>2, <1>4, <2>1
  <1>6. ink \in Seq(Rows)
    BY <1>1, <1>5
  <1>7. Len(ink) = n
    BY <1>1, <1>4, <1>6, LenProperties
  <1> QED BY <1>3, <1>4, <1>6, <1>7 DEF n, ink

\* What the terminal makes of each character.
LEMMA PrintedIs ==
    ASSUME NEW t, GoodTerminal(t), NEW ch \in Chars
    PROVE  /\ ch = "newline" => Printed(t, ch) = Terminal(Append(t.rows, BlankRow), 0)
           /\ ch = "return" => Printed(t, ch) = Terminal(t.rows, 0)
           /\ ch = "other" => Printed(t, ch) = t
           /\ ch = "tab" =>
                 Printed(t, ch) = IF NextTab(t.col) >= W
                                  THEN Terminal(Append(t.rows, BlankRow), 0)
                                  ELSE Terminal(t.rows, NextTab(t.col))
           /\ ch \in Printable =>
                 Printed(t, ch) = IF t.col + 1 >= W
                                  THEN Terminal(Append(Inked(t.rows, t.col, ch), BlankRow), 0)
                                  ELSE Terminal(Inked(t.rows, t.col, ch), t.col + 1)
           /\ GoodTerminal(Printed(t, ch))
  <1>1. /\ t.rows \in Seq(Rows) /\ Len(t.rows) >= 1 /\ t.col \in 0..(W - 1)
        /\ t = Terminal(t.rows, t.col)
    BY DEF GoodTerminal
  <1>2. PICK rows \in Seq(Rows), k \in 0..(W - 1) : rows = t.rows /\ k = t.col
    BY <1>1
  <1>3. ch \in Control <=> ch \notin Printable
    BY ConsoleAssumption DEF Chars
  <1>4. \A r \in Seq(Rows), j \in 0..(W - 1) : Len(r) >= 1 => GoodTerminal(Terminal(r, j))
    BY DEF GoodTerminal, Terminal
  <1>5. \A r \in Seq(Rows) : Len(r) >= 1 => GoodTerminal(Terminal(Append(r, BlankRow), 0))
    <2> SUFFICES ASSUME NEW r \in Seq(Rows), Len(r) >= 1
                 PROVE  GoodTerminal(Terminal(Append(r, BlankRow), 0))
      OBVIOUS
    <2>1. Len(Append(r, BlankRow)) >= 1 /\ Append(r, BlankRow) \in Seq(Rows) /\ 0 \in 0..(W - 1)
      BY RowsGrow, Sizes, LenProperties
    <2> QED BY <1>4, <2>1
  <1>6. 0 # W /\ k # W /\ 0 \in 0..(W - 1) /\ W \in Nat
    BY Sizes
  <1>7. CASE ch = "newline"
    <2>1. Printed(t, ch) = Terminal(Append(rows, BlankRow), 0)
      BY <1>2, <1>3, <1>6, <1>7, ConsoleAssumption DEF Printed, Terminal, Control
    <2> QED BY <1>1, <1>2, <1>3, <1>5, <1>7, <2>1 DEF Control
  <1>8. CASE ch = "return"
    <2>1. Printed(t, ch) = Terminal(rows, 0)
      BY <1>2, <1>3, <1>6, <1>8, ConsoleAssumption DEF Printed, Terminal, Control
    <2> QED BY <1>1, <1>2, <1>3, <1>4, <1>6, <1>8, <2>1 DEF Control
  <1>9. CASE ch = "other"
    <2>1. Printed(t, ch) = Terminal(rows, k)
      BY <1>2, <1>3, <1>6, <1>9, ConsoleAssumption DEF Printed, Terminal, Control
    <2> QED BY <1>1, <1>2, <1>3, <1>4, <1>6, <1>9, <2>1 DEF Control
  <1>10. CASE ch = "tab"
    <2>1. PICK e \in 0..W : e = NextTab(k) /\ (k \div TabStop + 1) * TabStop = e
      BY TabEnds
    <2>2. Printed(t, ch) = IF e = W THEN Terminal(Append(rows, BlankRow), 0) ELSE Terminal(rows, e)
      BY <1>2, <1>3, <1>6, <1>10, <2>1, ConsoleAssumption DEF Printed, Terminal, Control
    <2>3. (e >= W <=> e = W) /\ (e # W => e \in 0..(W - 1))
      BY <1>6
    <2>4. GoodTerminal(Printed(t, ch))
      BY <1>1, <1>2, <1>4, <1>5, <2>2, <2>3
    <2> QED BY <1>2, <1>3, <1>10, <2>1, <2>2, <2>3, <2>4 DEF Control
  <1>11. CASE ch \in Printable /\ ch \notin Control
    <2>1. PICK ink : ink = Inked(rows, k, ch)
      OBVIOUS
    <2>2. ink \in Seq(Rows) /\ Len(ink) = Len(rows)
      BY <1>1, <1>2, <1>11, <2>1, RowsInked
    <2>3. Printed(t, ch) = IF k + 1 = W THEN Terminal(Append(ink, BlankRow), 0) ELSE Terminal(ink, k + 1)
      BY <1>2, <1>6, <1>11, <2>1 DEF Printed, Terminal, Inked, Control
    <2>4. (k + 1 >= W <=> k + 1 = W) /\ (k + 1 # W => k + 1 \in 0..(W - 1))
      BY <1>6
    <2>5. GoodTerminal(Printed(t, ch))
      BY <1>1, <1>2, <1>4, <1>5, <2>2, <2>3, <2>4
    <2> QED BY <1>2, <1>11, <2>1, <2>3, <2>4, <2>5 DEF Control
  <1> QED BY <1>3, <1>7, <1>8, <1>9, <1>10, <1>11 DEF Control

\* putchar is right about a newline only when the column is 0, which is why
\* console_write and console_input put a return before it.
Turn(t, ch, u) ==
    /\ GoodTerminal(t) /\ ch \in Chars /\ u = Printed(t, ch)
    /\ ch = "newline" => t.col = 0

\* Putting the characters of s out one after the other makes u of t.
Leads(t, s, u) ==
    \E f : /\ f[0] = t /\ f[Len(s)] = u
           /\ \A n \in 1..Len(s) : Turn(f[n - 1], s[n], f[n])

LEMMA LeadsNowhere == \A t, u : Leads(t, <<>>, u) <=> t = u
  <1> SUFFICES ASSUME NEW t, NEW u PROVE Leads(t, <<>>, u) <=> t = u
    OBVIOUS
  <1>1. Len(<<>>) = 0
    OBVIOUS
  <1>2. ASSUME Leads(t, <<>>, u) PROVE t = u
    BY <1>1, <1>2 DEF Leads
  <1>3. ASSUME t = u PROVE Leads(t, <<>>, u)
    <2>1. PICK f : f = [n \in 0..0 |-> t]
      OBVIOUS
    <2>2. f[0] = t /\ f[Len(<<>>)] = u
      BY <1>1, <1>3, <2>1
    <2>3. \A n \in 1..Len(<<>>) : FALSE
      BY <1>1
    <2> QED BY <2>2, <2>3 DEF Leads
  <1> QED BY <1>2, <1>3

LEMMA LeadsOn ==
    ASSUME NEW t, NEW s \in Seq(Chars), NEW u, s # <<>>, Leads(t, s, u)
    PROVE  Turn(t, Head(s), Printed(t, Head(s))) /\ Leads(Printed(t, Head(s)), Tail(s), u)
  <1>1. PICK f : /\ f[0] = t /\ f[Len(s)] = u
                 /\ \A n \in 1..Len(s) : Turn(f[n - 1], s[n], f[n])
    BY DEF Leads
  <1>2. /\ Len(s) \in Nat /\ Len(s) >= 1 /\ Head(s) = s[1]
        /\ Len(Tail(s)) = Len(s) - 1
        /\ \A n \in 1..(Len(s) - 1) : Tail(s)[n] = s[n + 1]
    BY HeadTailProperties, LenProperties, EmptySeq
  <1>3. Turn(t, Head(s), f[1]) /\ f[1] = Printed(t, Head(s))
    <2>1. 1 \in 1..Len(s) /\ 1 - 1 = 0
      BY <1>2
    <2>2. Turn(f[0], s[1], f[1])
      BY <1>1, <2>1
    <2> QED BY <1>1, <1>2, <2>2 DEF Turn
  <1> DEFINE g == [n \in 0..(Len(s) - 1) |-> f[n + 1]]
  <1>4. /\ g[0] = f[1] /\ g[Len(s) - 1] = u
        /\ \A n \in 1..(Len(s) - 1) : g[n - 1] = f[n] /\ g[n] = f[n + 1]
    BY <1>1, <1>2
  <1> HIDE DEF g
  <1>5. ASSUME NEW n \in 1..Len(Tail(s)) PROVE Turn(g[n - 1], Tail(s)[n], g[n])
    <2>1. n \in 1..(Len(s) - 1) /\ n + 1 \in 1..Len(s) /\ (n + 1) - 1 = n
      BY <1>2
    <2>2. Turn(f[n], s[n + 1], f[n + 1])
      BY <1>1, <2>1
    <2> QED BY <1>2, <1>4, <2>1, <2>2
  <1>6. Leads(f[1], Tail(s), u)
    BY <1>2, <1>4, <1>5 DEF Leads
  <1> QED BY <1>3, <1>6

LEMMA LeadsMore ==
    ASSUME NEW t, NEW s \in Seq(Chars), NEW w, NEW ch, NEW u, Leads(t, s, w), Turn(w, ch, u)
    PROVE  s \o <<ch>> \in Seq(Chars) /\ Leads(t, s \o <<ch>>, u)
  <1>1. PICK f : /\ f[0] = t /\ f[Len(s)] = w
                 /\ \A n \in 1..Len(s) : Turn(f[n - 1], s[n], f[n])
    BY DEF Leads
  <1>2. PICK m \in Nat : m = Len(s)
    BY LenProperties
  <1>3. PICK next : next = s \o <<ch>>
    OBVIOUS
  <1>4. /\ next \in Seq(Chars) /\ Len(next) = m + 1 /\ next[m + 1] = ch
        /\ \A n \in 1..m : next[n] = s[n]
    <2>1. ch \in Chars /\ <<ch>> \in Seq(Chars) /\ Len(<<ch>>) = 1 /\ <<ch>>[1] = ch
      BY DEF Turn
    <2> QED BY <1>2, <1>3, <2>1, ConcatProperties
  <1> DEFINE g == [n \in 0..(m + 1) |-> IF n = m + 1 THEN u ELSE f[n]]
  <1>5. /\ g[m + 1] = u /\ \A n \in 0..m : g[n] = f[n]
    <2>1. m + 1 \in 0..(m + 1) /\ \A n \in 0..m : n \in 0..(m + 1) /\ n # m + 1
      OBVIOUS
    <2> QED BY <2>1
  <1> HIDE DEF g
  <1>6. ASSUME NEW n \in 1..(m + 1) PROVE Turn(g[n - 1], next[n], g[n])
    <2>1. CASE n = m + 1
      <3>1. n - 1 = m /\ m \in 0..m
        BY <2>1
      <3>2. g[n - 1] = w
        BY <1>1, <1>2, <1>5, <3>1
      <3> QED BY <1>4, <1>5, <2>1, <3>2
    <2>2. CASE n # m + 1
      <3>1. n \in 1..m /\ n \in 0..m /\ n - 1 \in 0..m
        BY <2>2
      <3> QED BY <1>1, <1>2, <1>4, <1>5, <3>1
    <2> QED BY <2>1, <2>2
  <1>7. g[0] = t /\ g[m + 1] = u
    BY <1>1, <1>5
  <1>8. Leads(t, next, u)
    BY <1>4, <1>6, <1>7 DEF Leads
  <1> QED BY <1>3, <1>4, <1>8

\* A set of numbers that has the first, and with each the next, has them all.
LEMMA CountedUpTo ==
    ASSUME NEW n \in Nat, NEW T, 0 \in T, \A k \in 1..n : k - 1 \in T => k \in T
    PROVE  0..n \subseteq T
  <1> DEFINE Missing == {k \in Nat : k \in 0..n /\ k \notin T}
  <1>1. ASSUME Missing # {} PROVE FALSE
    <2>1. Missing \subseteq Nat
      OBVIOUS
    <2> HIDE DEF Missing
    <2>2. PICK m \in Missing : \A k \in Missing : ~(<<k, m>> \in OpToRel(<, Nat))
      BY <1>1, <2>1, WFMin, NatLessThanWellFounded, Zenon
    <2>3. \A k \in Missing : ~(k < m)
      BY <2>1, <2>2 DEF OpToRel
    <2>4. m \in 0..n /\ m \notin T /\ m # 0
      BY <2>2 DEF Missing
    <2>5. m \in 1..n /\ m - 1 \in 0..n /\ m - 1 \in Nat /\ m - 1 < m
      BY <2>4
    <2>6. m - 1 \in T
      BY <2>3, <2>5 DEF Missing
    <2> QED BY <2>4, <2>5, <2>6
  <1>2. \A k \in 0..n : k \in Nat
    OBVIOUS
  <1> QED BY <1>1, <1>2

\* What console_write makes of a character.
CrlfOf(ch) == IF ch = "newline" THEN <<"return", "newline">> ELSE <<ch>>

\* The turns of console_write's loop.
LEMMA CrlfTurns ==
    ASSUME NEW s, NEW n \in Nat, n = Len(s)
    PROVE  \E cr : /\ cr[0] = <<>> /\ cr[n] = Crlf(s)
                   /\ \A k \in 1..n : cr[k] = cr[k - 1] \o CrlfOf(s[k])
  <1> DEFINE Turns(f, m) ==
                 f = [k \in 0..m |-> IF k = 0 THEN <<>>
                                     ELSE f[k - 1] \o (IF s[k] = "newline" THEN <<"return", "newline">>
                                                                           ELSE <<s[k]>>)]
             Some == {m \in 0..n : \E f : Turns(f, m)}
             op == CHOOSE f : Turns(f, n)
  <1>1. 0 \in Some
    <2>1. Turns([k \in 0..0 |-> <<>>], 0)
      OBVIOUS
    <2>2. \E f : Turns(f, 0)
      <3> HIDE DEF Turns
      <3> QED BY <2>1
    <2> HIDE DEF Turns
    <2> QED BY <2>2
  <1>2. ASSUME NEW m \in 1..n, m - 1 \in Some PROVE m \in Some
    <2>1. PICK f : Turns(f, m - 1)
      BY <1>2
    <2> DEFINE g == [k \in 0..m |-> IF k = 0 THEN <<>>
                                    ELSE f[k - 1] \o (IF s[k] = "newline" THEN <<"return", "newline">>
                                                                          ELSE <<s[k]>>)]
    <2>2. \A k \in 0..(m - 1) : g[k] = f[k]
      <3>1. \A k \in 0..(m - 1) : k \in 0..m
        OBVIOUS
      <3> QED BY <2>1, <3>1, Zenon
    <2>3. \A k \in 0..m : k # 0 => k - 1 \in 0..(m - 1)
      OBVIOUS
    <2>4. Turns(g, m)
      <3>1. \A k \in 0..m : k # 0 => g[k - 1] = f[k - 1]
        BY <2>2, <2>3
      <3> QED BY <3>1, Zenon
    <2>5. \E h : Turns(h, m)
      <3> HIDE DEF Turns
      <3> QED BY <2>4
    <2> HIDE DEF Turns
    <2> QED BY <2>5
  <1> HIDE DEF Turns
  <1>3. n \in Some
    <2>1. 0..n \subseteq Some
      <3> HIDE DEF Some
      <3> QED BY <1>1, <1>2, CountedUpTo
    <2> QED BY <2>1
  <1>4. Turns(op, n)
    BY <1>3, Zenon
  <1>5. Crlf(s) = op[n]
    BY Zenon DEF Crlf, Turns
  <1> HIDE DEF op
  <1>6. \A k \in 0..n : op[k] = IF k = 0 THEN <<>> ELSE op[k - 1] \o CrlfOf(s[k])
    BY <1>4, Zenon DEF Turns, CrlfOf
  <1>7. 0 \in 0..n /\ \A k \in 1..n : k \in 0..n /\ k # 0
    OBVIOUS
  <1>8. /\ op[0] = <<>>
        /\ \A k \in 1..n : op[k] = op[k - 1] \o CrlfOf(s[k])
    BY <1>6, <1>7, Zenon
  <1> QED BY <1>5, <1>8

\* What the terminal shows after each character.
LEMMA PrintedTurns ==
    ASSUME NEW s, NEW n \in Nat, n = Len(s)
    PROVE  \E after : /\ after[0] = printed /\ after[n] = PrintedAll(s)
                      /\ \A k \in 1..n : after[k] = Printed(after[k - 1], s[k])
  <1> DEFINE Turns(f, m) ==
                 f = [k \in 0..m |-> IF k = 0 THEN printed ELSE Printed(f[k - 1], s[k])]
             Some == {m \in 0..n : \E f : Turns(f, m)}
             op == CHOOSE f : Turns(f, n)
  <1>1. 0 \in Some
    <2>1. Turns([k \in 0..0 |-> printed], 0)
      <3>1. PICK p : p = printed
        OBVIOUS
      <3>2. \A k \in 0..0 : k = 0
        OBVIOUS
      <3>3. [k \in 0..0 |-> p]
               = [k \in 0..0 |-> IF k = 0 THEN p ELSE Printed([j \in 0..0 |-> p][k - 1], s[k])]
        BY <3>2, Zenon
      <3> QED BY <3>1, <3>3
    <2>2. \E f : Turns(f, 0)
      <3> HIDE DEF Turns
      <3> QED BY <2>1
    <2> HIDE DEF Turns
    <2> QED BY <2>2
  <1>2. ASSUME NEW m \in 1..n, m - 1 \in Some PROVE m \in Some
    <2>1. PICK f : Turns(f, m - 1)
      BY <1>2
    <2> DEFINE g == [k \in 0..m |-> IF k = 0 THEN printed ELSE Printed(f[k - 1], s[k])]
    <2>2. \A k \in 0..(m - 1) : g[k] = f[k]
      <3>1. \A k \in 0..(m - 1) : k \in 0..m
        OBVIOUS
      <3> QED BY <2>1, <3>1, Zenon
    <2>3. \A k \in 0..m : k # 0 => k - 1 \in 0..(m - 1)
      OBVIOUS
    <2>4. Turns(g, m)
      <3>1. \A k \in 0..m : k # 0 => g[k - 1] = f[k - 1]
        BY <2>2, <2>3
      <3> QED BY <3>1, Zenon
    <2>5. \E h : Turns(h, m)
      <3> HIDE DEF Turns
      <3> QED BY <2>4
    <2> HIDE DEF Turns
    <2> QED BY <2>5
  <1> HIDE DEF Turns
  <1>3. n \in Some
    <2>1. 0..n \subseteq Some
      <3> HIDE DEF Some
      <3> QED BY <1>1, <1>2, CountedUpTo
    <2> QED BY <2>1
  <1>4. Turns(op, n)
    BY <1>3, Zenon
  <1>5. PrintedAll(s) = op[n]
    BY Zenon DEF PrintedAll, Turns
  <1> HIDE DEF op
  <1>6. \A k \in 0..n : op[k] = IF k = 0 THEN printed ELSE Printed(op[k - 1], s[k])
    BY <1>4, Zenon DEF Turns
  <1>7. 0 \in 0..n /\ \A k \in 1..n : k \in 0..n /\ k # 0
    OBVIOUS
  <1>8. /\ op[0] = printed
        /\ \A k \in 1..n : op[k] = Printed(op[k - 1], s[k])
    BY <1>6, <1>7, Zenon
  <1> QED BY <1>5, <1>8

\* A return before a newline makes no difference to the terminal.
LEMMA ReturnFirst ==
    ASSUME NEW t, GoodTerminal(t)
    PROVE  /\ Turn(t, "return", Printed(t, "return"))
           /\ Turn(Printed(t, "return"), "newline", Printed(t, "newline"))
  <1>1. "return" \in Chars /\ "newline" \in Chars
    BY DEF Chars, Control
  <1>2. PICK u : u = Printed(t, "return")
    OBVIOUS
  <1>3. u = Terminal(t.rows, 0) /\ GoodTerminal(u)
    BY <1>1, <1>2, PrintedIs
  <1>4. u.rows = t.rows /\ u.col = 0
    BY <1>3 DEF Terminal
  <1>5. Printed(u, "newline") = Printed(t, "newline")
    BY <1>1, <1>3, <1>4, PrintedIs
  <1> QED BY <1>1, <1>2, <1>3, <1>4, <1>5 DEF Turn

LEMMA TwoOfThem ==
    ASSUME NEW S, NEW a \in S, NEW b \in S
    PROVE  <<a>> \o <<b>> = <<a, b>>
  <1>1. PICK x, y, z : x = <<a>> /\ y = <<b>> /\ z = <<a, b>>
    OBVIOUS
  <1>2. /\ x \in Seq(S) /\ Len(x) = 1 /\ x[1] = a
        /\ y \in Seq(S) /\ Len(y) = 1 /\ y[1] = b
        /\ z \in Seq(S) /\ Len(z) = 2 /\ z[1] = a /\ z[2] = b
    BY <1>1
  <1>3. x \o y \in Seq(S) /\ Len(x \o y) = 2 /\ (x \o y)[1] = a /\ (x \o y)[2] = b
    BY <1>2, ConcatProperties
  <1>4. \A j \in 1..2 : (x \o y)[j] = z[j]
    BY <1>2, <1>3
  <1>5. x \o y = z
    BY <1>2, <1>3, <1>4, SeqEqual
  <1> QED BY <1>1, <1>5

\* What console_write puts out makes of the screen what the text should.
LEMMA WriteLeads ==
    ASSUME NEW s \in Seq(Chars), GoodTerminal(printed)
    PROVE  Crlf(s) \in Seq(Chars) /\ Leads(printed, Crlf(s), PrintedAll(s))
  <1>1. PICK n \in Nat : n = Len(s)
    BY LenProperties
  <1>2. PICK cr : /\ cr[0] = <<>> /\ cr[n] = Crlf(s)
                  /\ \A k \in 1..n : cr[k] = cr[k - 1] \o CrlfOf(s[k])
    BY <1>1, CrlfTurns
  <1>3. PICK after : /\ after[0] = printed /\ after[n] = PrintedAll(s)
                     /\ \A k \in 1..n : after[k] = Printed(after[k - 1], s[k])
    BY <1>1, PrintedTurns
  <1> DEFINE Through(k) == /\ cr[k] \in Seq(Chars) /\ GoodTerminal(after[k])
                           /\ Leads(printed, cr[k], after[k])
             T == {k \in 0..n : Through(k)}
  <1>4. 0 \in T
    <2>1. <<>> \in Seq(Chars) /\ 0 \in 0..n
      OBVIOUS
    <2>2. Leads(printed, <<>>, printed)
      BY LeadsNowhere
    <2>3. Through(0)
      BY <1>2, <1>3, <2>1, <2>2
    <2> HIDE DEF Through
    <2> QED BY <2>1, <2>3
  <1>5. ASSUME NEW k \in 1..n, k - 1 \in T PROVE k \in T
    <2>1. PICK r, t, ch : r = cr[k - 1] /\ t = after[k - 1] /\ ch = s[k]
      OBVIOUS
    <2>2. r \in Seq(Chars) /\ GoodTerminal(t) /\ Leads(printed, r, t) /\ ch \in Chars
      BY <1>1, <1>5, <2>1, ElementOfSeq
    <2>3. cr[k] = r \o CrlfOf(ch) /\ after[k] = Printed(t, ch)
      BY <1>2, <1>3, <2>1
    <2>4. GoodTerminal(Printed(t, ch))
      BY <2>2, PrintedIs
    <2>5. CASE ch # "newline"
      <3>1. Turn(t, ch, Printed(t, ch)) /\ cr[k] = r \o <<ch>>
        BY <2>2, <2>3, <2>5 DEF Turn, CrlfOf
      <3>2. Through(k)
        BY <2>2, <2>3, <2>4, <3>1, LeadsMore
      <3> QED BY <3>2
    <2>6. CASE ch = "newline"
      <3>1. PICK r1 : r1 = r \o <<"return">>
        OBVIOUS
      <3>2. /\ Turn(t, "return", Printed(t, "return"))
            /\ Turn(Printed(t, "return"), "newline", Printed(t, "newline"))
        BY <2>2, ReturnFirst
      <3>3. r1 \in Seq(Chars) /\ Leads(printed, r1, Printed(t, "return"))
        BY <2>2, <3>1, <3>2, LeadsMore
      <3>4. /\ r1 \o <<"newline">> \in Seq(Chars)
            /\ Leads(printed, r1 \o <<"newline">>, Printed(t, "newline"))
        BY <3>2, <3>3, LeadsMore
      <3>5. r \o <<"return", "newline">> = r1 \o <<"newline">>
        <4>1. "return" \in Chars /\ "newline" \in Chars
          BY DEF Chars, Control
        <4>2. r \in Seq(Chars) /\ <<"return">> \in Seq(Chars) /\ <<"newline">> \in Seq(Chars)
          BY <2>2, <4>1
        <4>3. PICK a, b : a = "return" /\ b = "newline" /\ a \in Chars /\ b \in Chars
          BY <4>1
        <4>4. <<a>> \o <<b>> = <<a, b>>
          BY <4>3, TwoOfThem
        <4> QED BY <3>1, <4>2, <4>3, <4>4, ConcatAssociative
      <3>6. cr[k] = r1 \o <<"newline">> /\ after[k] = Printed(t, "newline")
        BY <2>3, <2>6, <3>5 DEF CrlfOf
      <3>7. Through(k)
        BY <2>4, <2>6, <3>4, <3>6
      <3> QED BY <3>7
    <2> QED BY <2>5, <2>6
  <1>6. n \in T
    <2> HIDE DEF T
    <2>1. 0..n \subseteq T
      BY <1>4, <1>5, CountedUpTo
    <2> QED BY <2>1
  <1> QED BY <1>2, <1>3, <1>6

-----------------------------------------------------------------------------
(* The screen *)

\* The place of a cell in memory.
LEMMA CellIs ==
    ASSUME NEW r \in 0..(H - 1), NEW k \in 0..(W - 1)
    PROVE  /\ r * W + k \in Memory /\ r * W + k < H * W
           /\ (r * W + k) \div W = r
           /\ (r * W + k) + W = (r + 1) * W + k
           /\ r < H - 1 => r * W + k < (H - 1) * W
           /\ r = H - 1 => ~(r * W + k < (H - 1) * W)
  <1>1. W \in Nat \ {0} /\ H \in Nat \ {0} /\ MaxChars \in Nat
    BY ConsoleAssumption
  <1>2. r \in Nat /\ k \in Nat /\ k < W /\ r < H
    BY <1>1
  <1>3. PICK p \in Nat : p = r * W
    BY <1>1, <1>2
  <1>4. (r + 1) * W = p + W
    BY <1>1, <1>2, <1>3
  <1>5. p + k < W * H
    BY <1>1, <1>2, <1>3, CellOnScreen
  <1>6. W * H = H * W /\ W * H \in Nat
    BY <1>1
  <1>7. p + k \in Memory
    <2>1. W * H <= W * (H + MaxChars + 2)
      <3>1. H * W <= (H + MaxChars + 2) * W
        BY <1>1, TimesMonotonic
      <3>2. (H + MaxChars + 2) * W = W * (H + MaxChars + 2)
        BY <1>1
      <3> QED BY <1>6, <3>1, <3>2
    <2>2. W * (H + MaxChars + 2) \in Nat
      BY <1>1
    <2> QED BY <1>2, <1>3, <1>5, <1>6, <2>1, <2>2 DEF Memory
  <1>8. (p + k) \div W = r
    <2>1. PICK w \in Nat \ {0} : w = W
      BY <1>1
    <2>2. p = w * r /\ k \in 0..(w - 1)
      BY <1>1, <1>2, <1>3, <2>1
    <2>3. PICK q \in Int, m \in 0..(w - 1) : m + w * q = p + k /\ q = (p + k) \div w
      <3>1. PICK x \in Nat : x = p + k
        BY <1>2
      <3>2. x % w \in 0..(w - 1) /\ x \div w \in Int
        OBVIOUS
      <3>3. (x % w) + w * (x \div w) = x
        BY Division
      <3> QED BY <3>1, <3>2, <3>3
    <2>4. q = r
      <3>1. ASSUME q < r PROVE FALSE
        <4>1. (q + 1) * w <= r * w
          BY <1>2, <2>3, <3>1, TimesMonotonic
        <4>2. (q + 1) * w = w * q + w /\ r * w = w * r /\ w * q \in Int
          BY <1>2, <2>3
        <4> QED BY <2>2, <2>3, <4>1, <4>2
      <3>2. ASSUME r < q PROVE FALSE
        <4>1. (r + 1) * w <= q * w
          BY <1>2, <2>3, <3>2, TimesMonotonic
        <4>2. (r + 1) * w = w * r + w /\ q * w = w * q /\ w * q \in Int
          BY <1>2, <2>3
        <4> QED BY <2>2, <2>3, <4>1, <4>2
      <3> QED BY <1>2, <2>3, <3>1, <3>2
    <2> QED BY <2>1, <2>3, <2>4
  <1>9. r < H - 1 => p + k < (H - 1) * W
    <2>1. SUFFICES ASSUME r + 1 <= H - 1 PROVE p + k < (H - 1) * W
      BY <1>1, <1>2
    <2>2. (r + 1) * W <= (H - 1) * W
      BY <1>1, <1>2, <2>1, TimesMonotonic
    <2>3. (H - 1) * W \in Int
      BY <1>1
    <2> QED BY <1>1, <1>2, <1>4, <2>2, <2>3
  <1>10. r = H - 1 => ~(p + k < (H - 1) * W)
    BY <1>2, <1>3
  <1> QED BY <1>1, <1>2, <1>3, <1>4, <1>5, <1>6, <1>7, <1>8, <1>9, <1>10

\* Two cells are two places.
LEMMA CellsDiffer ==
    ASSUME NEW r \in 0..(H - 1), NEW k \in 0..(W - 1), NEW q \in 0..(H - 1), NEW m \in 0..(W - 1),
           r # q \/ k # m
    PROVE  r * W + k # q * W + m
  <1>1. (r * W + k) \div W = r /\ (q * W + m) \div W = q
    BY CellIs
  <1>2. CASE r # q
    BY <1>1, <1>2
  <1>3. CASE r = q /\ k # m
    <2>1. PICK p \in Nat : p = r * W
      BY ConsoleAssumption
    <2> QED BY <1>3, <2>1
  <1> QED BY <1>2, <1>3

\* The screen shows the end of the rows, the last of them at line l, and blank
\* lines below; a line past the bottom is still blank.
On(v, l, rows) ==
    /\ DOMAIN v = Memory
    /\ l \in 0..H
    /\ rows \in Seq(Rows) /\ Len(rows) >= l + 1
    /\ Len(rows) = l + 1 \/ l >= H - 1
    /\ l = H => rows[Len(rows)] = BlankRow
    /\ \A r \in 0..(H - 1), k \in 0..(W - 1) :
          v[r * W + k] = IF r <= l THEN rows[Len(rows) - l + r][k] ELSE Blank

\* A new line is blank.
LEMMA NewLineOn ==
    ASSUME NEW v, NEW l, NEW rows, On(v, l, rows), l < H
    PROVE  On(v, l + 1, Append(rows, BlankRow))
  <1>1. H \in Nat /\ H >= 2
    BY Sizes
  <1>2. PICK n \in Nat : n = Len(rows)
    BY LenProperties DEF On
  <1>3. PICK more : more = Append(rows, BlankRow)
    OBVIOUS
  <1>4. /\ l \in 0..(H - 1) /\ n >= l + 1 /\ (n = l + 1 \/ l >= H - 1)
        /\ more \in Seq(Rows) /\ Len(more) = n + 1
        /\ (\A j \in 1..n : more[j] = rows[j]) /\ more[n + 1] = BlankRow
    BY <1>1, <1>2, <1>3, RowsGrow DEF On
  <1>5. ASSUME NEW r \in 0..(H - 1), NEW k \in 0..(W - 1)
        PROVE  v[r * W + k] = IF r <= l + 1 THEN more[(n + 1) - (l + 1) + r][k] ELSE Blank
    <2>1. v[r * W + k] = IF r <= l THEN rows[n - l + r][k] ELSE Blank
      BY <1>2 DEF On
    <2>2. CASE r <= l
      <3>1. n - l + r \in 1..n /\ (n + 1) - (l + 1) + r = n - l + r /\ r <= l + 1
        BY <1>1, <1>4, <2>2
      <3> QED BY <1>4, <2>1, <2>2, <3>1
    <2>3. CASE r = l + 1
      <3>1. (n + 1) - (l + 1) + r = n + 1 /\ ~(r <= l)
        BY <1>1, <1>4, <2>3
      <3>2. BlankRow[k] = Blank
        BY DEF BlankRow
      <3> QED BY <1>4, <2>1, <2>3, <3>1, <3>2
    <2>4. CASE r > l + 1
      <3>1. ~(r <= l) /\ ~(r <= l + 1)
        BY <1>1, <1>4, <2>4
      <3> QED BY <2>1, <3>1
    <2> QED BY <1>1, <1>4, <2>2, <2>3, <2>4
  <1>6. /\ l + 1 \in 0..H /\ n + 1 >= (l + 1) + 1
        /\ n + 1 = (l + 1) + 1 \/ l + 1 >= H - 1
    BY <1>1, <1>4
  <1>7. DOMAIN v = Memory
    BY DEF On
  <1>8. On(v, l + 1, more)
    BY <1>4, <1>5, <1>6, <1>7 DEF On
  <1> QED BY <1>3, <1>8

\* A character is stored where the text goes on.
LEMMA InkOn ==
    ASSUME NEW v, NEW l, NEW rows, On(v, l, rows), l < H, NEW k \in 0..(W - 1),
           NEW ch \in Printable
    PROVE  On([v EXCEPT ![l * W + k] = ch], l, Inked(rows, k, ch))
  <1>1. H \in Nat /\ H >= 2
    BY Sizes
  <1>2. PICK n \in Nat : n = Len(rows)
    BY LenProperties DEF On
  <1>3. PICK ink : ink = Inked(rows, k, ch)
    OBVIOUS
  <1>4. /\ l \in 0..(H - 1) /\ n >= l + 1 /\ (n = l + 1 \/ l >= H - 1) /\ l # H
    BY <1>1, <1>2 DEF On
  <1>5. /\ ink \in Seq(Rows) /\ Len(ink) = n
        /\ \A j \in 1..n : j # n => ink[j] = rows[j]
        /\ ink[n][k] = ch
        /\ \A m \in 0..(W - 1) : m # k => ink[n][m] = rows[n][m]
    <2>1. rows \in Seq(Rows) /\ Len(rows) >= 1
      BY <1>2, <1>4 DEF On
    <2> QED BY <1>2, <1>3, <2>1, RowsInked
  <1>6. PICK a : a = l * W + k
    OBVIOUS
  <1>7. PICK v1 : v1 = [v EXCEPT ![a] = ch]
    OBVIOUS
  <1>8. a \in Memory
    BY <1>4, <1>6, CellIs
  <1>9. DOMAIN v1 = Memory /\ v1[a] = ch /\ \A b \in Memory : b # a => v1[b] = v[b]
    BY <1>7, <1>8 DEF On
  <1>10. ASSUME NEW r \in 0..(H - 1), NEW m \in 0..(W - 1)
         PROVE  v1[r * W + m] = IF r <= l THEN ink[n - l + r][m] ELSE Blank
    <2>1. v[r * W + m] = IF r <= l THEN rows[n - l + r][m] ELSE Blank
      BY <1>2 DEF On
    <2>2. r * W + m \in Memory
      BY CellIs
    <2>3. CASE r = l /\ m = k
      <3>1. r <= l /\ n - l + r = n
        BY <1>4, <2>3
      <3> QED BY <1>5, <1>6, <1>9, <2>3, <3>1
    <2>4. CASE r # l \/ m # k
      <3>1. r * W + m # a
        BY <1>4, <1>6, <2>4, CellsDiffer
      <3>2. v1[r * W + m] = v[r * W + m]
        BY <1>9, <2>2, <3>1
      <3>3. CASE r = l
        <4>1. r <= l /\ n - l + r = n
          BY <1>4, <3>3
        <4> QED BY <1>5, <2>1, <2>4, <3>2, <3>3, <4>1
      <3>4. CASE r < l
        <4>1. r <= l /\ n - l + r \in 1..n /\ n - l + r # n
          BY <1>4, <3>4
        <4> QED BY <1>5, <2>1, <3>2, <4>1
      <3>5. CASE r > l
        <4>1. ~(r <= l)
          BY <1>4, <3>5
        <4> QED BY <2>1, <3>2, <4>1
      <3> QED BY <1>4, <3>3, <3>4, <3>5
    <2> QED BY <2>3, <2>4
  <1>11. On(v1, l, ink)
    BY <1>2, <1>4, <1>5, <1>9, <1>10 DEF On
  <1> QED BY <1>3, <1>6, <1>7, <1>11

\* The screen one line further down the text.
MovedUp(v, w) ==
    /\ DOMAIN w = Memory
    /\ \A r \in 0..(H - 1), k \in 0..(W - 1) :
          w[r * W + k] = IF r < H - 1 THEN v[(r + 1) * W + k] ELSE Blank

LEMMA ScrolledUpMoves ==
    ASSUME NEW v, DOMAIN v = Memory
    PROVE  MovedUp(v, ScrolledUp(v))
  <1>1. DOMAIN ScrolledUp(v) = Memory
    BY DEF ScrolledUp
  <1> SUFFICES ASSUME NEW r \in 0..(H - 1), NEW k \in 0..(W - 1)
               PROVE  ScrolledUp(v)[r * W + k] = IF r < H - 1 THEN v[(r + 1) * W + k] ELSE Blank
    BY <1>1 DEF MovedUp
  <1>2. PICK a : a = r * W + k
    OBVIOUS
  <1>3. ScrolledUp(v)[a] = IF a < (H - 1) * W THEN v[a + W] ELSE IF a < H * W THEN Blank ELSE v[a]
    <2>1. a \in Memory
      BY <1>2, CellIs
    <2> QED BY <2>1, Zenon DEF ScrolledUp
  <1>4. CASE r < H - 1
    <2>1. a < (H - 1) * W /\ a + W = (r + 1) * W + k
      BY <1>2, <1>4, CellIs
    <2> QED BY <1>2, <1>3, <1>4, <2>1, Zenon
  <1>5. CASE ~(r < H - 1)
    <2>1. r = H - 1
      BY <1>5, Sizes
    <2>2. ~(a < (H - 1) * W) /\ a < H * W
      BY <1>2, <2>1, CellIs
    <2> QED BY <1>2, <1>3, <1>5, <2>2, Zenon
  <1> QED BY <1>4, <1>5

LEMMA MovedUpOn ==
    ASSUME NEW v, NEW rows, On(v, H, rows), NEW w, MovedUp(v, w)
    PROVE  On(w, H - 1, rows)
  <1>1. H \in Nat /\ H >= 2
    BY Sizes
  <1>2. PICK n \in Nat : n = Len(rows)
    BY LenProperties DEF On
  <1>3. rows \in Seq(Rows) /\ n >= H + 1 /\ rows[n] = BlankRow /\ DOMAIN w = Memory
    BY <1>1, <1>2 DEF On, MovedUp
  <1>4. ASSUME NEW r \in 0..(H - 1), NEW k \in 0..(W - 1)
        PROVE  w[r * W + k] = IF r <= H - 1 THEN rows[n - (H - 1) + r][k] ELSE Blank
    <2>1. w[r * W + k] = IF r < H - 1 THEN v[(r + 1) * W + k] ELSE Blank
      BY DEF MovedUp
    <2>2. CASE r < H - 1
      <3>1. r + 1 \in 0..(H - 1) /\ r + 1 <= H /\ n - H + (r + 1) = n - (H - 1) + r
        BY <1>1, <2>2
      <3>2. v[(r + 1) * W + k] = rows[n - H + (r + 1)][k]
        BY <1>2, <3>1 DEF On
      <3> QED BY <1>1, <2>1, <2>2, <3>1, <3>2
    <2>3. CASE r = H - 1
      <3>1. n - (H - 1) + r = n /\ ~(r < H - 1)
        BY <1>1, <2>3
      <3>2. BlankRow[k] = Blank
        BY DEF BlankRow
      <3> QED BY <1>1, <1>3, <2>1, <2>3, <3>1, <3>2
    <2> QED BY <1>1, <2>2, <2>3
  <1>5. H - 1 \in 0..H /\ n >= (H - 1) + 1 /\ H - 1 >= H - 1 /\ H - 1 # H
    BY <1>1, <1>3
  <1> QED BY <1>2, <1>3, <1>4, <1>5 DEF On

\* Between two characters the screen shows what the terminal t shows.
Shows(v, l, k, t) ==
    GoodTerminal(t) /\ On(v, l, t.rows) /\ l < H /\ k = t.col

\* After the switch, only the test of the column is missing to the terminal u.
AtWrap(v, l, k, u) ==
    \E rows \in Seq(Rows) :
        /\ On(v, l, rows) /\ k \in 0..W /\ (k >= W => l < H)
        /\ u = IF k >= W THEN Terminal(Append(rows, BlankRow), 0) ELSE Terminal(rows, k)

\* After that test, only the scroll is.
AtBottom(v, l, k, u) == On(v, l, u.rows) /\ k = u.col

\* The switch of putchar on a character.
LEMMA SwitchShows ==
    ASSUME NEW v, NEW l, NEW k, NEW t, Shows(v, l, k, t), NEW ch, NEW u, Turn(t, ch, u)
    PROVE  LET s == Switch(Scr(v, l, k), ch)
           IN  s = Scr(s.vga, s.line, s.col) /\ AtWrap(s.vga, s.line, s.col, u)
  <1>1. W \in Nat /\ W >= 2 /\ H \in Nat /\ H >= 2
    BY Sizes
  <1>2. PICK rows \in Seq(Rows) : rows = t.rows
    BY DEF Shows, GoodTerminal
  <1>3. On(v, l, rows) /\ l < H /\ l \in 0..(H - 1) /\ k \in 0..(W - 1) /\ k = t.col
        /\ Len(rows) >= 1 /\ t = Terminal(rows, k)
    BY <1>1, <1>2 DEF Shows, GoodTerminal, On
  <1>4. /\ ch \in Chars /\ u = Printed(t, ch) /\ GoodTerminal(t)
        /\ (ch = "newline" => k = 0)
        /\ (ch \in Control <=> ch \notin Printable)
    BY <1>3, ConsoleAssumption DEF Turn, Chars
  <1>5. PICK s : s = Switch(Scr(v, l, k), ch)
    OBVIOUS
  <1>6. SUFFICES s = Scr(s.vga, s.line, s.col) /\ AtWrap(s.vga, s.line, s.col, u)
    BY <1>5
  <1>7. \A vv, ll, kk : s = Scr(vv, ll, kk) =>
            s.vga = vv /\ s.line = ll /\ s.col = kk /\ s = Scr(s.vga, s.line, s.col)
    BY DEF Scr
  <1>8. \A kk \in 0..(W - 1) : kk \in 0..W /\ ~(kk >= W)
    BY <1>1
  <1>9. CASE ch = "newline"
    <2>1. s = Scr(v, l + 1, 0)
      BY <1>4, <1>5, <1>9 DEF Switch, Scr
    <2>2. u = Terminal(Append(rows, BlankRow), 0)
      BY <1>2, <1>4, <1>9, PrintedIs
    <2>3. On(v, l + 1, Append(rows, BlankRow)) /\ Append(rows, BlankRow) \in Seq(Rows)
      BY <1>3, NewLineOn, RowsGrow
    <2>4. 0 \in 0..W /\ ~(0 >= W)
      BY <1>1
    <2>5. AtWrap(v, l + 1, 0, u)
      BY <2>2, <2>3, <2>4, Zenon DEF AtWrap
    <2> QED BY <1>7, <2>1, <2>5
  <1>10. CASE ch = "return"
    <2>1. s = Scr(v, l, 0)
      BY <1>5, <1>10 DEF Switch, Scr
    <2>2. u = Terminal(rows, 0)
      BY <1>2, <1>4, <1>10, PrintedIs
    <2>3. 0 \in 0..W /\ ~(0 >= W)
      BY <1>1
    <2>4. AtWrap(v, l, 0, u)
      BY <1>3, <2>2, <2>3, Zenon DEF AtWrap
    <2> QED BY <1>7, <2>1, <2>4
  <1>11. CASE ch = "other"
    <2>1. s = Scr(v, l, k)
      BY <1>5, <1>11 DEF Switch, Scr
    <2>2. u = Terminal(rows, k)
      BY <1>3, <1>4, <1>11, PrintedIs
    <2>3. AtWrap(v, l, k, u)
      BY <1>3, <1>8, <2>2, Zenon DEF AtWrap
    <2> QED BY <1>7, <2>1, <2>3
  <1>12. CASE ch = "tab"
    <2>1. s = Scr(v, l, NextTab(k))
      BY <1>5, <1>12 DEF Switch, Scr
    <2>2. PICK e \in 0..W : e = NextTab(k)
      BY <1>3, TabEnds
    <2>3. u = IF e >= W THEN Terminal(Append(rows, BlankRow), 0) ELSE Terminal(rows, e)
      BY <1>2, <1>3, <1>4, <1>12, <2>2, PrintedIs
    <2>4. AtWrap(v, l, e, u)
      BY <1>3, <2>3, Zenon DEF AtWrap
    <2> QED BY <1>7, <2>1, <2>2, <2>4
  <1>13. CASE ch \in Printable /\ ch \notin Control
    <2>1. PICK w, ink : w = [v EXCEPT ![l * W + k] = ch] /\ ink = Inked(rows, k, ch)
      OBVIOUS
    <2>2. s = Scr(w, l, k + 1)
      <3>1. ch # "newline" /\ ch # "return" /\ ch # "tab" /\ ch # "other"
        BY <1>13 DEF Control
      <3> QED BY <1>5, <2>1, <3>1 DEF Switch, Scr
    <2>3. u = IF k + 1 >= W THEN Terminal(Append(ink, BlankRow), 0) ELSE Terminal(ink, k + 1)
      BY <1>2, <1>3, <1>4, <1>13, <2>1, PrintedIs
    <2>4. On(w, l, ink)
      BY <1>3, <1>13, <2>1, InkOn
    <2>5. ink \in Seq(Rows)
      BY <2>4 DEF On
    <2>6. k + 1 \in 0..W
      BY <1>1, <1>3
    <2>7. AtWrap(w, l, k + 1, u)
      BY <1>3, <2>3, <2>4, <2>5, <2>6, Zenon DEF AtWrap
    <2> QED BY <1>7, <2>2, <2>7
  <1> QED BY <1>4, <1>9, <1>10, <1>11, <1>12, <1>13 DEF Control

\* The test of the column, if it goes on in the line, and if not.
LEMMA WrapShows ==
    ASSUME NEW v, NEW l, NEW k, NEW u, AtWrap(v, l, k, u)
    PROVE  /\ k \in 0..W
           /\ ~(k >= W) => AtBottom(v, l, k, u)
           /\ k >= W => AtBottom(v, l + 1, 0, u)
  <1>1. PICK rows \in Seq(Rows) :
            /\ On(v, l, rows) /\ k \in 0..W /\ (k >= W => l < H)
            /\ u = IF k >= W THEN Terminal(Append(rows, BlankRow), 0) ELSE Terminal(rows, k)
    BY DEF AtWrap
  <1>2. CASE k >= W
    <2>1. On(v, l + 1, Append(rows, BlankRow))
      BY <1>1, <1>2, NewLineOn
    <2>2. u = Terminal(Append(rows, BlankRow), 0)
      BY <1>1, <1>2
    <2>3. u.rows = Append(rows, BlankRow) /\ u.col = 0
      BY <2>2 DEF Terminal
    <2> QED BY <1>1, <1>2, <2>1, <2>3 DEF AtBottom
  <1>3. CASE ~(k >= W)
    <2>1. u.rows = rows /\ u.col = k
      BY <1>1, <1>3 DEF Terminal
    <2> QED BY <1>1, <1>3, <2>1 DEF AtBottom
  <1> QED BY <1>2, <1>3

\* The scroll.
LEMMA ScrollShows ==
    ASSUME NEW v, NEW l, NEW k, NEW u, GoodTerminal(u), AtBottom(v, l, k, u)
    PROVE  /\ l # H => Shows(v, l, k, u)
           /\ l = H => \A w : MovedUp(v, w) => Shows(w, l - 1, k, u)
  <1>1. H \in Nat /\ l \in 0..H
    BY Sizes DEF AtBottom, On
  <1>2. ASSUME l # H PROVE Shows(v, l, k, u)
    <2>1. l < H
      BY <1>1, <1>2
    <2> QED BY <2>1 DEF Shows, AtBottom
  <1>3. ASSUME l = H, NEW w, MovedUp(v, w) PROVE Shows(w, l - 1, k, u)
    <2>1. On(w, H - 1, u.rows)
      BY <1>3, MovedUpOn DEF AtBottom
    <2>2. l - 1 = H - 1 /\ l - 1 < H
      BY <1>1, <1>3
    <2> QED BY <2>1, <2>2 DEF Shows, AtBottom
  <1> QED BY <1>2, <1>3

\* putchar in one piece.
LEMMA PutCharShows ==
    ASSUME NEW v, NEW l, NEW k, NEW t, Shows(v, l, k, t), NEW ch, NEW u, Turn(t, ch, u)
    PROVE  LET r == PutChar(Scr(v, l, k), ch)
           IN  r = Scr(r.vga, r.line, r.col) /\ Shows(r.vga, r.line, r.col, u)
  <1>1. PICK s : s = Switch(Scr(v, l, k), ch)
    OBVIOUS
  <1>2. s = Scr(s.vga, s.line, s.col) /\ AtWrap(s.vga, s.line, s.col, u)
    BY <1>1, SwitchShows
  <1>3. GoodTerminal(u)
    BY PrintedIs DEF Turn
  <1>4. PICK w : w = Wrap(s)
    OBVIOUS
  <1>5. w = Scr(w.vga, w.line, w.col) /\ AtBottom(w.vga, w.line, w.col, u)
    <2>1. CASE s.col >= W
      <3>1. w = Scr(s.vga, s.line + 1, 0)
        BY <1>4, <2>1 DEF Wrap, AtEndOfLine
      <3>2. w.vga = s.vga /\ w.line = s.line + 1 /\ w.col = 0
        BY <3>1 DEF Scr
      <3> QED BY <1>2, <2>1, <3>1, <3>2, WrapShows
    <2>2. CASE ~(s.col >= W)
      <3>1. w = s
        BY <1>4, <2>2 DEF Wrap, AtEndOfLine
      <3> QED BY <1>2, <2>2, <3>1, WrapShows
    <2> QED BY <2>1, <2>2
  <1>6. PICK r : r = PutChar(Scr(v, l, k), ch)
    OBVIOUS
  <1>7. r = IF w.line = H THEN Scr(ScrolledUp(w.vga), w.line - 1, w.col) ELSE w
    BY <1>1, <1>4, <1>6 DEF PutChar, Scroll
  <1>8. CASE w.line = H
    <2>1. r = Scr(ScrolledUp(w.vga), w.line - 1, w.col)
      BY <1>7, <1>8
    <2>2. r.vga = ScrolledUp(w.vga) /\ r.line = w.line - 1 /\ r.col = w.col
      BY <2>1 DEF Scr
    <2>3. MovedUp(w.vga, ScrolledUp(w.vga))
      BY <1>5, ScrolledUpMoves DEF AtBottom, On
    <2>4. Shows(ScrolledUp(w.vga), w.line - 1, w.col, u)
      BY <1>3, <1>5, <1>8, <2>3, ScrollShows
    <2> QED BY <1>6, <2>1, <2>2, <2>4
  <1>9. CASE w.line # H
    <2>1. r = w
      BY <1>7, <1>9
    <2>2. Shows(w.vga, w.line, w.col, u)
      BY <1>3, <1>5, <1>9, ScrollShows
    <2> QED BY <1>5, <1>6, <2>1, <2>2
  <1> QED BY <1>8, <1>9

-----------------------------------------------------------------------------
(* The screen at every statement of putchar *)

\* The rows above i have moved up, of a screen that was at its bottom.
Copying(v) ==
    /\ i \in 0..(H - 1) /\ DOMAIN vga = Memory
    /\ \A r \in 0..(H - 1), k \in 0..(W - 1) :
          vga[r * W + k] = IF r < i THEN v[(r + 1) * W + k] ELSE v[r * W + k]

\* What is missing to the terminal u, which is what the screen shows once the
\* character putchar is at is done.
Missing(u) ==
    /\ pc \in {"idle", "next"} => Shows(vga, line, col, u)
    /\ pc \in {"switch", "cell"} =>
          \E t : /\ Shows(vga, line, col, t) /\ Turn(t, c, u) /\ lineReg = line
                 /\ pc = "cell" => c \in Printable /\ colReg = col
    /\ pc = "col" =>
          \E v, t : /\ Shows(v, line, col, t) /\ Turn(t, c, u) /\ colReg = col
                    /\ c \in {"tab"} \cup Printable
                    /\ vga = IF c = "tab" THEN v ELSE [v EXCEPT ![line * W + col] = c]
    /\ pc = "wrap" => AtWrap(vga, line, col, u)
    /\ pc = "line" => AtBottom(vga, line + 1, col, u)
    /\ pc = "bottom" => AtBottom(vga, line, col, u)
    /\ pc = "copy" => line = H /\ \E v : AtBottom(v, H, col, u) /\ Copying(v)
    /\ pc = "back" => line = H /\ \E v : AtBottom(v, H, col, u) /\ MovedUp(v, vga)

\* The rest of the string makes of it what was to be printed.
Rest(u) ==
    /\ GoodTerminal(u) /\ todo \in Seq(Chars) /\ Leads(u, todo, printed)
    /\ pc = "idle" => todo = <<>>

TailInv == CInv /\ (~mixed => \E u : Missing(u) /\ Rest(u))

\* putchar up to the test of the column.
LEMMA StatementsShow ==
    ASSUME NEW u, Missing(u),
           \/ PutNewline \/ PutReturn \/ PutOther \/ LoadCol \/ StoreCell \/ StoreCol
    PROVE  Missing(u)'
  <1>1. CASE PutNewline \/ PutReturn \/ PutOther
    <2>1. PICK t : Shows(vga, line, col, t) /\ Turn(t, c, u) /\ lineReg = line
      BY <1>1 DEF PutNewline, PutReturn, PutOther, Missing
    <2>2. PICK s : s = Switch(Scr(vga, line, col), c)
      OBVIOUS
    <2>3. AtWrap(s.vga, s.line, s.col, u)
      BY <2>1, <2>2, SwitchShows
    <2>4. s = Scr(vga', line', col')
      <3>1. CASE PutNewline
        BY <2>1, <2>2, <3>1 DEF PutNewline, Switch, Scr
      <3>2. CASE PutReturn
        BY <2>1, <2>2, <3>2 DEF PutReturn, Switch, Scr
      <3>3. CASE PutOther
        BY <2>1, <2>2, <3>3 DEF PutOther, Switch, Scr, screen
      <3> QED BY <1>1, <3>1, <3>2, <3>3
    <2>5. AtWrap(vga', line', col', u)
      BY <2>3, <2>4 DEF Scr
    <2>6. pc' = "wrap"
      BY <1>1 DEF PutNewline, PutReturn, PutOther
    <2> QED BY <2>5, <2>6 DEF Missing
  <1>2. CASE LoadCol
    <2>1. PICK t : Shows(vga, line, col, t) /\ Turn(t, c, u) /\ lineReg = line
      BY <1>2 DEF LoadCol, Missing
    <2>2. /\ vga' = vga /\ line' = line /\ col' = col /\ c' = c /\ lineReg' = lineReg
          /\ colReg' = col /\ c \in {"tab"} \cup Printable
          /\ pc' = IF c = "tab" THEN "col" ELSE "cell"
      BY <1>2 DEF LoadCol, screen
    <2>3. CASE c = "tab"
      <3>1. pc' = "col"
        BY <2>2, <2>3
      <3> QED BY <2>1, <2>2, <2>3, <3>1 DEF Missing
    <2>4. CASE c # "tab"
      <3>1. pc' = "cell" /\ c \in Printable
        BY <2>2, <2>4
      <3> QED BY <2>1, <2>2, <3>1 DEF Missing
    <2> QED BY <2>3, <2>4
  <1>3. CASE StoreCell
    <2>1. PICK t : /\ Shows(vga, line, col, t) /\ Turn(t, c, u) /\ lineReg = line
                   /\ c \in Printable /\ colReg = col
      BY <1>3 DEF StoreCell, Missing
    <2>2. /\ line' = line /\ col' = col /\ c' = c /\ colReg' = colReg /\ pc' = "col"
          /\ vga' = [vga EXCEPT ![line * W + col] = c]
      BY <1>3, <2>1 DEF StoreCell, regs
    <2>3. c # "tab"
      BY <2>1, ConsoleAssumption DEF Control
    <2> QED BY <2>1, <2>2, <2>3 DEF Missing
  <1>4. CASE StoreCol
    <2>1. PICK v, t : /\ Shows(v, line, col, t) /\ Turn(t, c, u) /\ colReg = col
                      /\ c \in {"tab"} \cup Printable
                      /\ vga = IF c = "tab" THEN v ELSE [v EXCEPT ![line * W + col] = c]
      BY <1>4 DEF StoreCol, Missing
    <2>2. /\ vga' = vga /\ line' = line /\ pc' = "wrap"
          /\ col' = IF c = "tab" THEN NextTab(col) ELSE col + 1
      <3>1. vga' = vga /\ line' = line /\ pc' = "wrap"
            /\ col' \in IF c = "tab" THEN {NextTab(colReg)} ELSE {colReg + 1, col + 1}
        BY <1>4 DEF StoreCol
      <3> QED BY <2>1, <3>1
    <2>3. PICK s : s = Switch(Scr(v, line, col), c)
      OBVIOUS
    <2>4. AtWrap(s.vga, s.line, s.col, u)
      BY <2>1, <2>3, SwitchShows
    <2>5. s = Scr(vga', line', col')
      <3>1. CASE c = "tab"
        BY <2>1, <2>2, <2>3, <3>1 DEF Switch, Scr
      <3>2. CASE c \in Printable
        <4>1. c # "newline" /\ c # "return" /\ c # "tab" /\ c # "other"
          BY <3>2, ConsoleAssumption DEF Control
        <4> QED BY <2>1, <2>2, <2>3, <4>1 DEF Switch, Scr
      <3> QED BY <2>1, <3>1, <3>2
    <2>6. AtWrap(vga', line', col', u)
      BY <2>4, <2>5 DEF Scr
    <2> QED BY <2>2, <2>6 DEF Missing
  <1> QED BY <1>1, <1>2, <1>3, <1>4

\* The tests of column and line.
LEMMA TestsShow ==
    ASSUME NEW u, Missing(u), GoodTerminal(u), ColAtEnd \/ NextLine \/ LineAtEnd
    PROVE  Missing(u)'
  <1>1. CASE ColAtEnd
    <2>1. AtWrap(vga, line, col, u) /\ vga' = vga /\ line' = line
      BY <1>1 DEF ColAtEnd, Missing
    <2>2. CASE col >= W
      <3>1. pc' = "line" /\ col' = 0
        BY <1>1, <2>2 DEF ColAtEnd, AtEndOfLine
      <3>2. AtBottom(vga, line + 1, 0, u)
        BY <2>1, <2>2, WrapShows
      <3> QED BY <2>1, <3>1, <3>2 DEF Missing
    <2>3. CASE ~(col >= W)
      <3>1. pc' = "bottom" /\ col' = col
        BY <1>1, <2>3 DEF ColAtEnd, AtEndOfLine
      <3>2. AtBottom(vga, line, col, u)
        BY <2>1, <2>3, WrapShows
      <3> QED BY <2>1, <3>1, <3>2 DEF Missing
    <2> QED BY <2>2, <2>3
  <1>2. CASE NextLine
    <2>1. /\ pc = "line" /\ vga' = vga /\ col' = col /\ line' = line + 1 /\ pc' = "bottom"
      BY <1>2 DEF NextLine
    <2> QED BY <2>1 DEF Missing
  <1>3. CASE LineAtEnd
    <2>1. AtBottom(vga, line, col, u) /\ vga' = vga /\ col' = col /\ line' = line
      BY <1>3 DEF LineAtEnd, Missing, screen
    <2>2. CASE line # H
      <3>1. pc' = "next" /\ Shows(vga, line, col, u)
        BY <1>3, <2>1, <2>2, ScrollShows DEF LineAtEnd
      <3> QED BY <2>1, <3>1 DEF Missing
    <2>3. CASE line = H
      <3>1. pc' = "copy" /\ i' = 0
        BY <1>3, <2>3 DEF LineAtEnd
      <3>2. 0 \in 0..(H - 1) /\ \A r \in 0..(H - 1) : ~(r < 0)
        BY Sizes
      <3>3. DOMAIN vga = Memory
        BY <2>1 DEF AtBottom, On
      <3>4. Copying(vga)'
        BY <2>1, <3>1, <3>2, <3>3 DEF Copying
      <3>5. \E v : AtBottom(v, H, col', u) /\ Copying(v)'
        BY <2>1, <2>3, <3>4
      <3> QED BY <2>1, <2>3, <3>1, <3>5 DEF Missing
    <2> QED BY <2>2, <2>3
  <1> QED BY <1>1, <1>2, <1>3

\* The scroll, row by row.
LEMMA ScrollStepsShow ==
    ASSUME NEW u, Missing(u), GoodTerminal(u), CopyRow \/ ClearRow \/ LineBack
    PROVE  Missing(u)'
  <1>1. H \in Nat /\ H >= 2
    BY Sizes
  <1>2. CASE CopyRow
    <2>1. PICK v : AtBottom(v, H, col, u) /\ Copying(v) /\ line = H
      BY <1>2 DEF CopyRow, Missing
    <2>2. /\ pc' = "copy" /\ col' = col /\ line' = line /\ i' = i + 1 /\ i < H - 1
          /\ vga' = [a \in Memory |-> IF a \div W = i THEN vga[a + W] ELSE vga[a]]
      BY <1>2 DEF CopyRow
    <2>3. i \in 0..(H - 1) /\ i + 1 \in 0..(H - 1)
      BY <1>1, <2>1, <2>2 DEF Copying
    <2>4. ASSUME NEW r \in 0..(H - 1), NEW k \in 0..(W - 1)
          PROVE  vga'[r * W + k] = IF r < i + 1 THEN v[(r + 1) * W + k] ELSE v[r * W + k]
      <3>1. PICK a : a = r * W + k
        OBVIOUS
      <3>2. a \in Memory /\ a \div W = r /\ a + W = (r + 1) * W + k
        BY <3>1, CellIs
      <3>3. vga'[a] = IF r = i THEN vga[a + W] ELSE vga[a]
        BY <2>2, <3>2
      <3>4. CASE r = i
        <4>1. i + 1 \in 0..(H - 1) /\ ~(i + 1 < i) /\ i < i + 1
          BY <1>1, <2>3
        <4>2. vga[(i + 1) * W + k] = v[(i + 1) * W + k]
          BY <2>1, <4>1 DEF Copying
        <4> QED BY <3>1, <3>2, <3>3, <3>4, <4>1, <4>2
      <3>5. CASE r # i
        <4>1. r < i + 1 <=> r < i
          BY <2>3, <3>5
        <4>2. vga[r * W + k] = IF r < i THEN v[(r + 1) * W + k] ELSE v[r * W + k]
          BY <2>1 DEF Copying
        <4> QED BY <3>1, <3>3, <3>5, <4>1, <4>2
      <3> QED BY <3>4, <3>5
    <2>5. DOMAIN vga' = Memory
      BY <2>2
    <2>6. Copying(v)'
      BY <2>2, <2>3, <2>4, <2>5 DEF Copying
    <2>7. \E w : AtBottom(w, H, col', u) /\ Copying(w)'
      BY <2>1, <2>2, <2>6
    <2> QED BY <2>1, <2>2, <2>7 DEF Missing
  <1>3. CASE ClearRow
    <2>1. PICK v : AtBottom(v, H, col, u) /\ Copying(v) /\ line = H
      BY <1>3 DEF ClearRow, Missing
    <2>2. /\ pc' = "back" /\ col' = col /\ line' = line /\ i = H - 1
          /\ vga' = [a \in Memory |-> IF a \div W = H - 1 THEN Blank ELSE vga[a]]
      BY <1>3 DEF ClearRow
    <2>3. ASSUME NEW r \in 0..(H - 1), NEW k \in 0..(W - 1)
          PROVE  vga'[r * W + k] = IF r < H - 1 THEN v[(r + 1) * W + k] ELSE Blank
      <3>1. PICK a : a = r * W + k
        OBVIOUS
      <3>2. a \in Memory /\ a \div W = r
        BY <3>1, CellIs
      <3>3. vga'[a] = IF r = H - 1 THEN Blank ELSE vga[a]
        BY <2>2, <3>2
      <3>4. r < H - 1 <=> r # H - 1
        BY <1>1
      <3>5. vga[r * W + k] = IF r < i THEN v[(r + 1) * W + k] ELSE v[r * W + k]
        BY <2>1 DEF Copying
      <3> QED BY <2>2, <3>1, <3>3, <3>4, <3>5
    <2>4. DOMAIN vga' = Memory
      BY <2>2
    <2>5. MovedUp(v, vga')
      BY <2>3, <2>4 DEF MovedUp
    <2>6. \E w : AtBottom(w, H, col', u) /\ MovedUp(w, vga')
      BY <2>1, <2>2, <2>5
    <2> QED BY <2>1, <2>2, <2>6 DEF Missing
  <1>4. CASE LineBack
    <2>1. PICK v : AtBottom(v, H, col, u) /\ MovedUp(v, vga) /\ line = H
      BY <1>4 DEF LineBack, Missing
    <2>2. pc' = "next" /\ vga' = vga /\ col' = col /\ line' = H - 1
      BY <1>1, <1>4, <2>1 DEF LineBack
    <2>3. Shows(vga, H - 1, col, u)
      BY <2>1, ScrollShows
    <2> QED BY <2>2, <2>3 DEF Missing
  <1> QED BY <1>2, <1>3, <1>4

\* The next character.
LEMMA NextCharShows ==
    ASSUME NEW u, Missing(u), Rest(u), NextChar
    PROVE  \E w : Missing(w)' /\ Rest(w)'
  <1>1. /\ pc = "next" /\ todo # <<>> /\ c' = Head(todo) /\ todo' = Tail(todo)
        /\ lineReg' = line /\ pc' = "switch" /\ vga' = vga /\ line' = line /\ col' = col
        /\ printed' = printed
    BY DEF NextChar, screen, ghosts
  <1>2. Shows(vga, line, col, u) /\ todo \in Seq(Chars) /\ Leads(u, todo, printed)
    BY <1>1 DEF Missing, Rest
  <1>3. PICK w : w = Printed(u, Head(todo))
    OBVIOUS
  <1>4. Turn(u, c', w) /\ Leads(w, todo', printed')
    BY <1>1, <1>2, <1>3, LeadsOn
  <1>5. GoodTerminal(w)
    BY <1>4, PrintedIs DEF Turn
  <1>6. Missing(w)'
    BY <1>1, <1>2, <1>4 DEF Missing
  <1>7. todo' \in Seq(Chars)
    BY <1>1, <1>2, HeadTailProperties
  <1>8. Rest(w)'
    BY <1>1, <1>4, <1>5, <1>7 DEF Rest
  <1> QED BY <1>6, <1>8

\* The end of a console_write.
LEMMA ReturnShows ==
    ASSUME NEW u, Missing(u), Rest(u), ConsoleWriteReturns
    PROVE  Missing(u)' /\ Rest(u)'
  <1>1. /\ pc = "next" /\ pc' = "idle" /\ todo = <<>> /\ todo' = todo /\ vga' = vga
        /\ line' = line /\ col' = col /\ printed' = printed
    BY DEF ConsoleWriteReturns, screen, ghosts
  <1> QED BY <1>1 DEF Missing, Rest

\* Every step of the task.
LEMMA TaskShows ==
    ASSUME NEW u, Missing(u), Rest(u), TaskStep
    PROVE  \E w : Missing(w)' /\ Rest(w)'
  <1>1. CASE NextChar
    BY <1>1, NextCharShows
  <1>2. CASE ConsoleWriteReturns
    BY <1>2, ReturnShows
  <1>3. CASE \/ PutNewline \/ PutReturn \/ PutOther \/ LoadCol \/ StoreCell \/ StoreCol
             \/ ColAtEnd \/ NextLine \/ LineAtEnd \/ CopyRow \/ ClearRow \/ LineBack
    <2>1. Missing(u)'
      BY <1>3, StatementsShow, TestsShow, ScrollStepsShow DEF Rest
    <2>2. pc' # "idle" /\ todo' = todo /\ printed' = printed
      BY <1>3 DEF PutNewline, PutReturn, PutOther, LoadCol, StoreCell, StoreCol, ColAtEnd,
                  NextLine, LineAtEnd, CopyRow, ClearRow, LineBack, ghosts
    <2>3. Rest(u)'
      BY <2>2 DEF Rest
    <2> QED BY <2>1, <2>3
  <1> QED BY <1>1, <1>2, <1>3 DEF TaskStep

\* A console_write begins.
LEMMA WriteShows ==
    ASSUME NEW u, Missing(u), Rest(u), ~mixed, NEW s \in Strings, ConsoleWrite(s)
    PROVE  Missing(u)' /\ Rest(u)'
  <1>1. /\ pc = "idle" /\ pc' = "next" /\ todo' = Crlf(s) /\ printed' = PrintedAll(s)
        /\ vga' = vga /\ line' = line /\ col' = col
    BY DEF ConsoleWrite, screen
  <1>2. u = printed /\ GoodTerminal(printed)
    BY <1>1, LeadsNowhere DEF Rest
  <1>3. s \in Seq(Chars)
    BY ConsoleAssumption
  <1>4. todo' \in Seq(Chars) /\ Leads(u, todo', printed')
    BY <1>1, <1>2, <1>3, WriteLeads
  <1> QED BY <1>1, <1>2, <1>4 DEF Missing, Rest

\* A key is echoed while nothing is printed.
LEMMA KeyShows ==
    ASSUME NEW u, Missing(u), Rest(u), pc = "idle", ~mixed', NEW key \in Keys, ConsoleInput(key)
    PROVE  \E w : Missing(w)' /\ Rest(w)'
  <1>1. u = printed /\ GoodTerminal(printed) /\ Shows(vga, line, col, printed)
    BY LeadsNowhere DEF Rest, Missing
  <1>2. PICK s0, s1, s : /\ s0 = Scr(vga, line, col)
                         /\ s1 = IF key = "newline" THEN PutChar(s0, "return") ELSE s0
                         /\ s = PutChar(s1, key)
    OBVIOUS
  <1>3. /\ vga' = s.vga /\ line' = s.line /\ col' = s.col
        /\ pc' = "idle" /\ todo' = todo /\ printed' = Printed(printed, key)
    BY <1>2 DEF ConsoleInput
  <1>4. key \in Chars
    BY ConsoleAssumption
  <1>5. Shows(s.vga, s.line, s.col, printed')
    <2>1. CASE key = "newline"
      <3>1. PICK t : t = Printed(printed, "return")
        OBVIOUS
      <3>2. Turn(printed, "return", t) /\ Turn(t, "newline", printed')
        BY <1>1, <1>3, <2>1, <3>1, ReturnFirst
      <3>3. s1 = Scr(s1.vga, s1.line, s1.col) /\ Shows(s1.vga, s1.line, s1.col, t)
        <4>1. s1 = PutChar(Scr(vga, line, col), "return")
          BY <1>2, <2>1
        <4> QED BY <1>1, <3>2, <4>1, PutCharShows
      <3>4. PICK v, l, k : v = s1.vga /\ l = s1.line /\ k = s1.col
        OBVIOUS
      <3>5. s = PutChar(Scr(v, l, k), "newline") /\ Shows(v, l, k, t)
        BY <1>2, <2>1, <3>3, <3>4
      <3> QED BY <3>2, <3>5, PutCharShows
    <2>2. CASE key # "newline"
      <3>1. Turn(printed, key, printed')
        BY <1>1, <1>3, <1>4, <2>2 DEF Turn
      <3>2. s = PutChar(Scr(vga, line, col), key)
        BY <1>2, <2>2
      <3> QED BY <1>1, <3>1, <3>2, PutCharShows
    <2> QED BY <2>1, <2>2
  <1>6. GoodTerminal(printed')
    BY <1>1, <1>3, <1>4, PrintedIs
  <1>7. Leads(printed', todo', printed') /\ todo' = <<>> /\ todo' \in Seq(Chars)
    BY <1>3, LeadsNowhere DEF Rest
  <1>8. PICK w : w = printed'
    OBVIOUS
  <1>9. Missing(w)'
    BY <1>3, <1>5, <1>8 DEF Missing
  <1>10. Rest(w)'
    BY <1>6, <1>7, <1>8 DEF Rest
  <1> QED BY <1>9, <1>10

-----------------------------------------------------------------------------
(* What is on the screen *)

\* An empty terminal is a cleared screen.
LEMMA InitShows == Init => TailInv
  <1> SUFFICES ASSUME Init PROVE TailInv
    OBVIOUS
  <1>1. CInv
    BY InitCInv
  <1>2. /\ vga = [a \in Memory |-> Blank] /\ line = 0 /\ col = 0 /\ todo = <<>>
        /\ pc = "idle" /\ printed = Terminal(<<BlankRow>>, 0)
    BY DEF Init, Terminal
  <1>3. PICK rows : rows = <<BlankRow>>
    OBVIOUS
  <1>4. rows \in Seq(Rows) /\ Len(rows) = 1 /\ rows[1] = BlankRow
    <2>1. BlankRow \in Rows
      BY DEF BlankRow, Rows
    <2> QED BY <1>3, <2>1
  <1>5. H \in Nat /\ H >= 2 /\ W \in Nat /\ W >= 2
    BY Sizes
  <1>6. GoodTerminal(printed)
    BY <1>2, <1>3, <1>4, <1>5 DEF GoodTerminal, Terminal
  <1>7. ASSUME NEW r \in 0..(H - 1), NEW k \in 0..(W - 1)
        PROVE  vga[r * W + k] = IF r <= 0 THEN rows[1 - 0 + r][k] ELSE Blank
    <2>1. r * W + k \in Memory
      BY CellIs
    <2>2. vga[r * W + k] = Blank
      BY <1>2, <2>1
    <2>3. r <= 0 => 1 - 0 + r = 1
      OBVIOUS
    <2>4. BlankRow[k] = Blank
      BY DEF BlankRow
    <2> QED BY <1>4, <2>2, <2>3, <2>4
  <1>8. DOMAIN vga = Memory
    BY <1>2
  <1>9. On(vga, 0, rows)
    BY <1>4, <1>5, <1>7, <1>8 DEF On
  <1>10. Shows(vga, line, col, printed)
    BY <1>2, <1>3, <1>5, <1>6, <1>9 DEF Shows, Terminal
  <1>11. Missing(printed)
    BY <1>2, <1>10 DEF Missing
  <1>12. Rest(printed)
    <2>1. todo \in Seq(Chars)
      BY <1>2
    <2> QED BY <1>2, <1>6, <2>1, LeadsNowhere DEF Rest
  <1> QED BY <1>1, <1>11, <1>12 DEF TailInv

\* Every step keeps the screen in step with the terminal.
LEMMA TailStep == TailInv /\ [Next]_vars => TailInv'
  <1> SUFFICES ASSUME TailInv, [Next]_vars PROVE TailInv'
    OBVIOUS
  <1>1. CInv'
    BY NextCInv DEF TailInv
  <1> SUFFICES ASSUME ~mixed' PROVE \E w : Missing(w)' /\ Rest(w)'
    BY <1>1 DEF TailInv
  <1>2. ~mixed
    BY DEF Next, TaskStep, Idle, NextChar, ConsoleWriteReturns, PutNewline, PutReturn,
           PutOther, LoadCol, StoreCell, StoreCol, ColAtEnd, NextLine, LineAtEnd, CopyRow,
           ClearRow, LineBack, ConsoleWrite, ConsoleInput, vars, ghosts
  <1>3. PICK u : Missing(u) /\ Rest(u)
    BY <1>2 DEF TailInv
  <1>4. CASE TaskStep
    BY <1>3, <1>4, TaskShows
  <1>5. ASSUME NEW s \in Strings, ConsoleWrite(s) PROVE \E w : Missing(w)' /\ Rest(w)'
    BY <1>2, <1>3, <1>5, WriteShows
  <1>6. ASSUME NEW key \in Keys, ConsoleInput(key) PROVE \E w : Missing(w)' /\ Rest(w)'
    <2>1. pc = "idle"
      BY <1>6 DEF ConsoleInput
    <2> QED BY <1>3, <1>6, <2>1, KeyShows
  <1>7. CASE UNCHANGED vars
    <2>1. Missing(u)' /\ Rest(u)'
      BY <1>3, <1>7 DEF vars, screen, regs, ghosts, Missing, Rest, Copying
    <2> QED BY <2>1
  <1> QED BY <1>4, <1>5, <1>6, <1>7 DEF Next, Idle

\* For every size of screen, text and key, what is on the screen between two
\* console_write is the end of what was printed, if no key came into one of them.
THEOREM TailIsShown == Spec => []ShowsTheTail
  <1>1. Spec => []TailInv
    BY InitShows, TailStep, PTL DEF Spec
  <1>2. TailInv => ShowsTheTail
    <2> SUFFICES ASSUME TailInv, pc = "idle", ~mixed PROVE ShowsTheTail
      BY DEF ShowsTheTail
    <2>1. Shows(vga, line, col, printed)
      BY LeadsNowhere DEF TailInv, Missing, Rest
    <2>2. PICK n \in Nat : n = Len(printed.rows)
      BY <2>1, LenProperties DEF Shows, On
    <2>3. PICK above : above = IF n > H THEN n - H ELSE 0
      OBVIOUS
    <2>4. H \in Nat /\ H >= 2 /\ line \in 0..(H - 1) /\ n >= line + 1
          /\ (n = line + 1 \/ line >= H - 1)
      BY <2>1, <2>2, Sizes DEF Shows, On
    <2>5. line = n - above - 1 /\ above \in Nat
      BY <2>3, <2>4
    <2>6. ASSUME NEW r \in 0..(H - 1), NEW k \in 0..(W - 1)
          PROVE  vga[r * W + k] =
                     IF above + r + 1 <= n THEN printed.rows[above + r + 1][k] ELSE Blank
      <3>1. vga[r * W + k] = IF r <= line THEN printed.rows[n - line + r][k] ELSE Blank
        BY <2>1, <2>2 DEF Shows, On
      <3>2. n - line + r = above + r + 1 /\ (r <= line <=> above + r + 1 <= n)
        BY <2>4, <2>5
      <3> QED BY <3>1, <3>2
    <2>7. col = printed.col
      BY <2>1 DEF Shows
    <2> QED BY <2>2, <2>3, <2>5, <2>6, <2>7 DEF ShowsTheTail
  <1> QED BY <1>1, <1>2, PTL
=============================================================================
