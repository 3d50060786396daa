------------------------------- MODULE Console -------------------------------
(***************************************************************************)
(* The text console: console_write of console.c, the calls of stdio.c on   *)
(* it, and the putchar of vga.c, with one task that prints and a keyboard  *)
(* interrupt that echoes keys through the same code.  Nothing keeps the    *)
(* two apart: the task's putchar is taken apart at its accesses to col,    *)
(* line and the frame buffer, and a key can come between any two.  The     *)
(* interrupt handler itself runs with interrupts disabled.                 *)
(*                                                                         *)
(* The frame buffer is the flat array it is in memory.                     *)
(***************************************************************************)
EXTENDS Integers, Sequences

CONSTANTS
    W, H,          \* SCREEN_WIDTH and SCREEN_HEIGHT
    TabStop,       \* 4 in the code, and like there a divisor of the width
    Printable,     \* the characters isprint accepts
    Strings,       \* what tasks print, by printf, puts or putchar
    Keys,          \* the characters the keyboard sends to console_input
    MaxChars       \* bound: characters printed

Control == {"newline", "return", "tab", "other"}
Chars   == Printable \cup Control
Blank   == "blank"

ASSUME ConsoleAssumption ==
    /\ W \in Nat \ {0, 1} /\ H \in Nat \ {0, 1}
    /\ TabStop \in 1..W /\ W % TabStop = 0
    /\ Blank \notin Printable /\ Printable \cap Control = {}
    /\ \A s \in Strings : s \in Seq(Chars)
    /\ Keys \subseteq Chars
    /\ MaxChars \in Nat

VARIABLES
    vga,      \* the memory from 0xb8000 on, off the end of the screen too
    col, line,
    todo,     \* what is left of the string the task prints
    c,        \* the character its putchar is at
    lineReg, colReg,   \* line and col as the task's putchar has loaded them
    i,        \* the row the task's vga_console_scrup copies
    pc,       \* of the task: "idle" when no console_write is running
    mixed,    \* ghost: a key has come in the middle of a console_write
    printed,  \* ghost: the rows printed so far, and the column, until then
    scrolled, \* ghost: the screen when the task's vga_console_scrup began
    count     \* ghost: characters printed

screen == <<vga, col, line>>
regs   == <<lineReg, colReg, i>>
ghosts == <<mixed, printed, scrolled, count>>
vars   == <<screen, todo, c, regs, pc, ghosts>>

Memory == 0..(W * (H + MaxChars + 2))
BlankRow == [k \in 0..(W - 1) |-> Blank]

\* console_init clears the screen, and memory behind it is taken to be blank.
Init ==
    /\ vga = [a \in Memory |-> Blank]
    /\ col = 0 /\ line = 0
    /\ todo = <<>> /\ c = "other"
    /\ lineReg = 0 /\ colReg = 0 /\ i = 0
    /\ pc = "idle"
    /\ mixed = FALSE
    /\ printed = [rows |-> <<BlankRow>>, col |-> 0]
    /\ scrolled = [a \in 0..(W * H - 1) |-> Blank]
    /\ count = 0

-----------------------------------------------------------------------------
(* vga_console_putchar, all at once *)

Scr(v, l, k) == [vga |-> v, line |-> l, col |-> k]

NextTab(k) == (k - (k % TabStop)) + TabStop

\* The switch on the character.
Switch(s, ch) ==
    CASE ch = "newline" -> [s EXCEPT !.line = @ + 1]
      [] ch = "return"  -> [s EXCEPT !.col = 0]
      [] ch = "tab"     -> [s EXCEPT !.col = NextTab(@)]
      [] ch = "other"   -> s
      [] OTHER          -> Scr([s.vga EXCEPT ![s.line * W + s.col] = ch],
                               s.line, s.col + 1)

\* Mutant: the end of the line is noticed one character late.
AtEndOfLine_Late(k) == k > W

AtEndOfLine(k) == k >= W

Wrap(s) == IF AtEndOfLine(s.col) THEN Scr(s.vga, s.line + 1, 0) ELSE s

\* vga_console_scrup
ScrolledUp(v) ==
    [a \in DOMAIN v |->
        IF a < (H - 1) * W THEN v[a + W]
        ELSE IF a < H * W THEN Blank ELSE v[a]]

Scroll(s) == IF s.line = H THEN Scr(ScrolledUp(s.vga), s.line - 1, s.col) ELSE s

PutChar(s, ch) == Scroll(Wrap(Switch(s, ch)))

-----------------------------------------------------------------------------
(* What a terminal of unlimited height shows *)

\* A newline and the end of a row begin a new row.
Printed(t, ch) ==
    LET last == Len(t.rows)
        k    == CASE ch \in {"newline", "return"} -> 0
                  [] ch = "tab" -> (t.col \div TabStop + 1) * TabStop
                  [] ch \in Printable -> t.col + 1
                  [] OTHER -> t.col
        rows == IF ch \in Printable
                THEN [t.rows EXCEPT ![last][t.col] = ch] ELSE t.rows
    IN  [rows |-> IF ch = "newline" \/ k = W THEN Append(rows, BlankRow) ELSE rows,
         col  |-> IF k = W THEN 0 ELSE k]

PrintedAll(s) ==
    LET after[n \in 0..Len(s)] ==
            IF n = 0 THEN printed ELSE Printed(after[n - 1], s[n])
    IN  after[Len(s)]

\* There is room for n more characters within the bound.
Room(n) == count + n <= MaxChars /\ count' = count + n

-----------------------------------------------------------------------------
(* A task prints *)

\* Mutant: a newline goes out as it is.
Crlf_AsIs(s) == s

\* console_write with crlf: every newline has a return before it.
Crlf(s) ==
    LET cr[n \in 0..Len(s)] ==
            IF n = 0 THEN <<>>
            ELSE cr[n - 1] \o (IF s[n] = "newline" THEN <<"return", "newline">>
                                                   ELSE <<s[n]>>)
    IN  cr[Len(s)]

ConsoleWrite(s) ==
    /\ pc = "idle"
    /\ Room(Len(Crlf(s)))
    /\ todo' = Crlf(s)
    /\ printed' = IF mixed THEN printed ELSE PrintedAll(s)
    /\ pc' = "next"
    /\ UNCHANGED <<screen, c, regs, mixed, scrolled>>

\* The next character of the string, and putchar's load of line.
NextChar ==
    /\ pc = "next" /\ todo # <<>>
    /\ c' = Head(todo) /\ todo' = Tail(todo)
    /\ lineReg' = line
    /\ pc' = "switch"
    /\ UNCHANGED <<screen, colReg, i, ghosts>>

\* Nothing to print: the CPU does something else, or halts.
Idle == pc = "idle" /\ UNCHANGED vars

ConsoleWriteReturns ==
    /\ pc = "next" /\ todo = <<>>
    /\ pc' = "idle"
    /\ UNCHANGED <<screen, todo, c, regs, ghosts>>

\* line++ and, below, col++: a store of what the register has plus 1, or an
\* increment of the variable in memory; the code leaves that to the compiler.
PutNewline ==
    /\ pc = "switch" /\ c = "newline"
    /\ line' \in {lineReg + 1, line + 1}
    /\ pc' = "wrap"
    /\ UNCHANGED <<vga, col, todo, c, regs, ghosts>>

PutReturn ==
    /\ pc = "switch" /\ c = "return"
    /\ col' = 0
    /\ pc' = "wrap"
    /\ UNCHANGED <<vga, line, todo, c, regs, ghosts>>

PutOther ==
    /\ pc = "switch" /\ c = "other"
    /\ pc' = "wrap"
    /\ UNCHANGED <<screen, todo, c, regs, ghosts>>

LoadCol ==
    /\ pc = "switch" /\ c \in {"tab"} \cup Printable
    /\ colReg' = col
    /\ pc' = IF c = "tab" THEN "col" ELSE "cell"
    /\ UNCHANGED <<screen, todo, c, lineReg, i, ghosts>>

StoreCell ==
    /\ pc = "cell"
    /\ vga' = [vga EXCEPT ![lineReg * W + colReg] = c]
    /\ pc' = "col"
    /\ UNCHANGED <<col, line, todo, c, regs, ghosts>>

StoreCol ==
    /\ pc = "col"
    /\ col' \in IF c = "tab" THEN {NextTab(colReg)} ELSE {colReg + 1, col + 1}
    /\ pc' = "wrap"
    /\ UNCHANGED <<vga, line, todo, c, regs, ghosts>>

ColAtEnd ==
    /\ pc = "wrap"
    /\ IF AtEndOfLine(col) THEN col' = 0 /\ pc' = "line"
                           ELSE pc' = "bottom" /\ UNCHANGED col
    /\ UNCHANGED <<vga, line, todo, c, regs, ghosts>>

NextLine ==
    /\ pc = "line"
    /\ line' = line + 1
    /\ pc' = "bottom"
    /\ UNCHANGED <<vga, col, todo, c, regs, ghosts>>

\* Past the bottom the screen scrolls.
LineAtEnd ==
    /\ pc = "bottom"
    /\ IF line = H
       THEN /\ pc' = "copy" /\ i' = 0
            /\ scrolled' = [a \in 0..(W * H - 1) |-> vga[a]]
       ELSE pc' = "next" /\ UNCHANGED <<i, scrolled>>
    /\ UNCHANGED <<screen, todo, c, lineReg, colReg, mixed, printed, count>>

\* vga_console_scrup: the memcpy, a row at a time, then the last row.
CopyRow ==
    /\ pc = "copy" /\ i < H - 1
    /\ vga' = [a \in Memory |-> IF a \div W = i THEN vga[a + W] ELSE vga[a]]
    /\ i' = i + 1
    /\ UNCHANGED <<col, line, todo, c, lineReg, colReg, pc, ghosts>>

\* Mutant: the row after the last is cleared.
ClearRow_Next ==
    /\ pc = "copy" /\ i = H - 1
    /\ vga' = [a \in Memory |-> IF a \div W = H THEN Blank ELSE vga[a]]
    /\ pc' = "back"
    /\ UNCHANGED <<col, line, todo, c, regs, ghosts>>

ClearRow ==
    /\ pc = "copy" /\ i = H - 1
    /\ vga' = [a \in Memory |-> IF a \div W = H - 1 THEN Blank ELSE vga[a]]
    /\ pc' = "back"
    /\ UNCHANGED <<col, line, todo, c, regs, ghosts>>

\* line--: as a decrement, or as a store of the value line is known to have
\* reached, which is what gcc -Os makes of it.
LineBack ==
    /\ pc = "back"
    /\ line' \in {line - 1, H - 1}
    /\ pc' = "next"
    /\ UNCHANGED <<vga, col, todo, c, regs, ghosts>>

-----------------------------------------------------------------------------
(* A key is echoed: keyboard_irq gets to console_input *)

ConsoleInput(key) ==
    /\ LET s0 == Scr(vga, line, col)
           s1 == IF key = "newline" THEN PutChar(s0, "return") ELSE s0
           s  == PutChar(s1, key)
       IN  vga' = s.vga /\ line' = s.line /\ col' = s.col
    /\ Room(IF key = "newline" THEN 2 ELSE 1)
    /\ mixed' = (mixed \/ pc # "idle")
    /\ printed' = IF mixed' THEN printed ELSE Printed(printed, key)
    /\ UNCHANGED <<todo, c, regs, pc, scrolled>>

-----------------------------------------------------------------------------
TaskStep ==
    \/ NextChar \/ ConsoleWriteReturns
    \/ PutNewline \/ PutReturn \/ PutOther \/ LoadCol \/ StoreCell \/ StoreCol
    \/ ColAtEnd \/ NextLine \/ LineAtEnd \/ CopyRow \/ ClearRow \/ LineBack

Next ==
    \/ TaskStep \/ Idle
    \/ \E s \in Strings : ConsoleWrite(s)
    \/ \E key \in Keys : ConsoleInput(key)

Spec == Init /\ [][Next]_vars

-----------------------------------------------------------------------------
(* Properties *)

TypeOK ==
    /\ vga \in [Memory -> Printable \cup {Blank}]
    /\ col \in 0..(W + 1)
    /\ line \in 0..(H + MaxChars)
    /\ todo \in Seq(Chars) /\ c \in Chars
    /\ lineReg \in 0..(H + MaxChars) /\ colReg \in 0..(W + 1)
    /\ i \in 0..(H - 1)
    /\ pc \in {"idle", "next", "switch", "cell", "col", "wrap", "line", "bottom",
               "copy", "back"}
    /\ printed.col \in 0..(W - 1)
    /\ \A r \in DOMAIN printed.rows : printed.rows[r] \in [0..(W - 1) -> Printable \cup {Blank}]
    /\ scrolled \in [0..(W * H - 1) -> Printable \cup {Blank}]
    /\ count \in 0..MaxChars /\ mixed \in BOOLEAN

\* As long as keys and printing keep out of each other's way, the screen shows
\* the last rows of all that was printed, rows not yet used blank, and the
\* cursor is where the text goes on, on the screen.
ShowsTheTail ==
    pc = "idle" /\ ~mixed =>
        LET n     == Len(printed.rows)
            above == IF n > H THEN n - H ELSE 0
        IN  /\ \A r \in 0..(H - 1), k \in 0..(W - 1) :
                  vga[r * W + k] =
                      IF above + r + 1 <= n THEN printed.rows[above + r + 1][k] ELSE Blank
            /\ line = n - above - 1
            /\ col = printed.col

\* A console_write no key comes into writes nothing behind the screen, even
\* while it scrolls.
OffScreenUntouched == ~mixed => \A a \in Memory : a >= W * H => vga[a] = Blank

\* Wherever a key comes between, the column is on the screen again when the
\* task's putchar is done: every path to there tests it.
ColumnOnScreen == pc \in {"idle", "next"} => col < W

\* vga.c:52: a scroll copies each line to the one above, and the last line is
\* clear after it.
ScrollMovesUpOne ==
    pc = "back" =>
        \A a \in 0..(W * H - 1) :
            vga[a] = IF a < W * (H - 1) THEN scrolled[a + W] ELSE Blank
=============================================================================
