--------------------------- MODULE KeyboardProofs ---------------------------
(* Proofs that keyboard_init overruns no controller, that no byte waits       *)
(* without its interrupt, that what is echoed follows the shift keys and that *)
(* shift is never stuck, for every keyboard, every time-out and every state   *)
(* the BIOS may leave.                                                        *)
EXTENDS Keyboard, FiniteSetTheorems, SequenceTheorems, TLAPS

\* While a wait lasts its polls are within the time-out, and what comes after
\* it finds the controller ready.
Polled ==
    /\ pc = "wait" => i \in 0..Timeout
    /\ pc = "write" => ~ibf

KInv == Polled /\ NoSilentByte

\* The request line follows the output buffer through every change of it.
LEMMA LatchKeeps ==
    ASSUME NoSilentByte, Latch(out', kctr')
    PROVE  NoSilentByte'
  BY DEF NoSilentByte, Latch

\* The controller and the keyboard run, or an interrupt is taken.
LEMMA BesideInit ==
    ASSUME KInv, \/ KeyboardIrq \/ TakeInput \/ UNCHANGED vars
                 \/ \E k \in Keys : Press(k) \/ Release(k)
    PROVE  KInv'
  <1>1. CASE KeyboardIrq
    <2>1. UNCHANGED <<pc, i, ibf, kctr>>
      BY <1>1 DEF KeyboardIrq, ReadData, init
    <2>2. CASE out # <<>>
      BY <1>1, <2>1, <2>2 DEF KInv, Polled, NoSilentByte, KeyboardIrq, ReadData, Line
    <2>3. CASE out = <<>>
      BY <1>1, <2>1, <2>3 DEF KInv, Polled, NoSilentByte, KeyboardIrq, Line
    <2> QED BY <2>2, <2>3
  <1>2. CASE TakeInput
    <2>1. UNCHANGED <<pc, i>> /\ ibf' = FALSE /\ Latch(out', kctr')
      BY <1>2 DEF TakeInput, init
    <2> QED BY <2>1, LatchKeeps DEF KInv, Polled
  <1>3. ASSUME NEW k \in Keys, Press(k) \/ Release(k) PROVE KInv'
    <2>1. UNCHANGED <<pc, i, ibf, kctr>> /\ Latch(out', kctr)
      BY <1>3 DEF Press, Release, Send, init
    <2>2. Latch(out', kctr')
      BY <2>1
    <2> QED BY <2>1, <2>2, LatchKeeps DEF KInv, Polled
  <1>4. CASE UNCHANGED vars
    BY <1>4 DEF vars, controller, init, KInv, Polled, NoSilentByte
  <1> QED BY <1>1, <1>2, <1>3, <1>4

\* keyboard_init goes on.
LEMMA InitSteps ==
    ASSUME KInv, InitStep
    PROVE  KInv'
  <1>1. CASE Flush
    BY <1>1 DEF Flush, ReadData, Line, KInv, Polled, NoSilentByte
  <1>2. CASE FlushDone
    BY <1>2, KeyboardAssumption
       DEF FlushDone, BeginCommand, controller, KInv, Polled, NoSilentByte
  <1>3. CASE WaitWrite
    BY <1>3, KeyboardAssumption
       DEF WaitWrite, StillWaiting, controller, KInv, Polled, NoSilentByte
  <1>4. CASE WaitDone
    BY <1>4, KeyboardAssumption
       DEF WaitDone, StillWaiting, WaitResult, controller, KInv, Polled, NoSilentByte
  <1>5. CASE WriteByte
    <2>1. UNCHANGED <<out, kctr, irr>> /\ pc' \in {"wait", "unmask"}
      BY <1>5 DEF WriteByte, BeginCommand
    <2>2. pc' = "wait" => i' = 0
      BY <1>5 DEF WriteByte, BeginCommand
    <2> QED BY <2>1, <2>2, KeyboardAssumption DEF KInv, Polled, NoSilentByte
  <1>6. CASE Unmask
    BY <1>6 DEF Unmask, controller, KInv, Polled, NoSilentByte
  <1> QED BY <1>1, <1>2, <1>3, <1>4, <1>5, <1>6 DEF InitStep

\* Every reachable state satisfies the invariant.
THEOREM KeyboardInvariance == Spec => []KInv
  <1>1. Init => KInv
    BY DEF Init, KInv, Polled, NoSilentByte
  <1>2. KInv /\ [Next]_vars => KInv'
    BY BesideInit, InitSteps DEF Next, Idle
  <1> QED BY <1>1, <1>2, PTL DEF Spec

\* No byte is written to a controller that is still busy with the one before,
\* for every time-out, whatever the keyboard sends meanwhile.
THEOREM NeverOverrun == Spec => []NoOverrun
  <1>1. KInv => NoOverrun
    BY DEF KInv, Polled, NoOverrun
  <1> QED BY <1>1, KeyboardInvariance, PTL

\* A byte in the output buffer of an enabled keyboard has its request latched,
\* for every keyboard and every leftover of the BIOS.
THEOREM EveryByteAsks == Spec => []NoSilentByte
  <1>1. KInv => NoSilentByte
    BY DEF KInv
  <1> QED BY <1>1, KeyboardInvariance, PTL

-----------------------------------------------------------------------------
(* The variables keep their ranges *)

Chars == {Lower[c] : c \in DOMAIN Lower} \cup {Upper[c] : c \in DOMAIN Lower}

Typed == TypeOK /\ console \in Seq(Chars)

LEMMA ControlByteIsByte ==
    ASSUME NEW bits
    PROVE  ControlByte(bits) \in 0..127
  <1> DEFINE Bit(b) == IF b \in bits THEN b ELSE 0
  <1>1. /\ Bit(1) \in {0, 1} /\ Bit(2) \in {0, 2} /\ Bit(4) \in {0, 4} /\ Bit(8) \in {0, 8}
        /\ Bit(16) \in {0, 16} /\ Bit(32) \in {0, 32} /\ Bit(64) \in {0, 64}
    BY Zenon
  <1>2. ControlByte(bits) = Bit(1) + Bit(2) + Bit(4) + Bit(8) + Bit(16) + Bit(32) + Bit(64)
    BY Zenon DEF ControlByte
  <1> HIDE DEF Bit
  <1> QED BY <1>1, <1>2

\* A byte is taken from the controller.
LEMMA ReadKeepsBytes ==
    ASSUME out \in Seq(0..255), out # <<>>
    PROVE  Tail(out) \in Seq(0..255) /\ Head(out) \in 0..255
  BY HeadTailProperties

\* One byte of the keyboard, whatever it is.
LEMMA ScodeTyped ==
    ASSUME Typed, NEW scode \in 0..255, ProcessScode(scode)
    PROVE  /\ lshift' \in BOOLEAN /\ rshift' \in BOOLEAN /\ lastCode' \in 0..127
           /\ received' \in Seq(0..255) /\ console' \in Seq(Chars)
  <1>1. lshift' \in BOOLEAN /\ rshift' \in BOOLEAN
    BY DEF ProcessScode, ShiftState, KeyUp, Typed, TypeOK
  <1>2. lastCode' \in 0..127 /\ received' \in Seq(0..255)
    BY DEF ProcessScode, Code, Typed, TypeOK
  <1>3. ASSUME NEW shift, NEW multi PROVE CharOf(scode, shift, multi) \in Seq(Chars)
    <2>1. CASE multi \/ Code(scode) \notin DOMAIN Lower
      BY <2>1 DEF CharOf
    <2>2. CASE ~multi /\ Code(scode) \in DOMAIN Lower
      <3>1. (IF shift THEN Upper ELSE Lower)[Code(scode)] \in Chars
        BY <2>2 DEF Chars
      <3>2. CharOf(scode, shift, multi) = <<(IF shift THEN Upper ELSE Lower)[Code(scode)]>>
        BY <2>2, Zenon DEF CharOf
      <3> QED BY <3>1, <3>2
    <2> QED BY <2>1, <2>2
  <1>4. console' \in Seq(Chars)
    <2>1. PICK e : e \in Seq(Chars) /\ console' = console \o e
      <3>1. CASE KeyUp(scode)
        <4>1. <<>> \in Seq(Chars)
          OBVIOUS
        <4> QED BY <3>1, <4>1 DEF ProcessScode
      <3>2. CASE ~KeyUp(scode)
        BY <3>2, <1>3 DEF ProcessScode
      <3> QED BY <3>1, <3>2
    <2> QED BY <2>1 DEF Typed
  <1> QED BY <1>1, <1>2, <1>4

\* What the CPU has read, and what was done with it, is as it was; or it has
\* read one byte more.
LEMMA OneByteAtATime ==
    ASSUME Typed, [Next]_vars
    PROVE  \/ UNCHANGED driver
           \/ /\ KeyboardIrq /\ out # <<>> /\ Head(out) \in 0..255
              /\ ProcessScode(Head(out))
  <1>1. CASE InitStep
    BY <1>1 DEF InitStep, Flush, FlushDone, WaitWrite, WaitDone, WriteByte, Unmask
  <1>2. CASE KeyboardIrq
    <2>1. CASE out # <<>>
      BY <1>2, <2>1, ReadKeepsBytes DEF KeyboardIrq, Typed, TypeOK
    <2>2. CASE out = <<>>
      BY <1>2, <2>2 DEF KeyboardIrq
    <2> QED BY <2>1, <2>2
  <1>3. CASE TakeInput
    BY <1>3 DEF TakeInput
  <1>4. ASSUME NEW k \in Keys, Press(k) \/ Release(k) PROVE UNCHANGED driver
    BY <1>4 DEF Press, Release, Send
  <1>5. CASE UNCHANGED vars
    BY <1>5 DEF vars
  <1> QED BY <1>1, <1>2, <1>3, <1>4, <1>5 DEF Next, Idle

LEMMA TypedSteps ==
    ASSUME Typed, [Next]_vars
    PROVE  Typed'
  <1> USE KeyboardAssumption
  <1>1. CASE Flush
    <2>1. i' \in 0..FlushLength
      BY <1>1 DEF Flush, Typed, TypeOK
    <2> QED BY <1>1, <2>1, ReadKeepsBytes
         DEF Flush, ReadData, Line, KBDINT, keyboard, driver, Typed, TypeOK
  <1>2. CASE FlushDone
    BY <1>2 DEF FlushDone, BeginCommand, controller, keyboard, driver, Typed, TypeOK
  <1>3. CASE WaitWrite
    <2>1. i' \in 0..Timeout
      BY <1>3 DEF WaitWrite, StillWaiting, Typed, TypeOK
    <2> QED BY <1>3, <2>1 DEF WaitWrite, controller, keyboard, driver, Typed, TypeOK
  <1>4. CASE WaitDone
    BY <1>4 DEF WaitDone, WaitResult, controller, keyboard, driver, Typed, TypeOK
  <1>5. CASE WriteByte
    <2>1. /\ i' = 0 \/ i' = i
          /\ pc' \in {"wait", "unmask"} /\ command' \in {RCTR, WCTR}
      BY <1>5 DEF WriteByte, BeginCommand, Typed, TypeOK
    <2>2. written' \in 0..1
      <3>1. (288 \div 4096) % 16 = 0 /\ (4192 \div 4096) % 16 = 1
        OBVIOUS
      <3>2. Params(RCTR) = 0 /\ Params(WCTR) = 1
        BY <3>1 DEF Params, RCTR, WCTR
      <3>3. command \in {RCTR, WCTR} /\ written \in 0..1
        BY DEF Typed, TypeOK
      <3>4. written' = written \/ written' = 0 \/ (written < Params(command) /\ written' = written + 1)
        BY <1>5 DEF WriteByte, BeginCommand
      <3> QED BY <3>2, <3>3, <3>4
    <2>3. ctr' \subseteq CtrBits
      <3>1. ctr' = ctr \/ ctr' = EnableKeyboard(ctr)
        BY <1>5 DEF WriteByte, BeginCommand
      <3>2. ctr \subseteq CtrBits /\ XLATE \in CtrBits /\ KBDINT \in CtrBits
        BY DEF Typed, TypeOK, CtrBits, XLATE, KBDINT
      <3> QED BY <3>1, <3>2 DEF EnableKeyboard
    <2>4. port' \in [command : {RCTR, WCTR}, bits : SUBSET CtrBits] /\ ibf' = TRUE
      BY <1>5 DEF WriteByte, Typed, TypeOK
    <2>5. UNCHANGED <<out, awaiting, kctr, irr, masked, keyboard, driver>>
      BY <1>5 DEF WriteByte
    <2> QED BY <2>1, <2>2, <2>3, <2>4, <2>5 DEF keyboard, driver, Typed, TypeOK
  <1>6. CASE Unmask
    BY <1>6, ZenonT(60) DEF Unmask, controller, keyboard, driver, Typed, TypeOK
  <1>7. CASE KeyboardIrq
    <2>1. UNCHANGED <<ibf, port, awaiting, kctr, masked, keyboard, init>>
      BY <1>7 DEF KeyboardIrq, ReadData
    <2>2. out' \in Seq(0..255) /\ irr' \in BOOLEAN
      BY <1>7, ReadKeepsBytes, ZenonT(60) DEF KeyboardIrq, ReadData, Line, Typed, TypeOK
    <2>3. /\ lshift' \in BOOLEAN /\ rshift' \in BOOLEAN /\ lastCode' \in 0..127
          /\ received' \in Seq(0..255) /\ console' \in Seq(Chars)
      BY OneByteAtATime, ScodeTyped, ZenonT(60) DEF driver, Typed, TypeOK
    <2> QED BY <2>1, <2>2, <2>3 DEF keyboard, init, Typed, TypeOK
  <1>8. CASE TakeInput
    <2>1. out' \in Seq(0..255)
      <3>1. Reply \in 0..255
        BY ControlByteIsByte DEF Reply
      <3>2. out' = out \/ out' = Append(out, Reply)
        BY <1>8 DEF TakeInput
      <3>3. out \in Seq(0..255)
        BY DEF Typed, TypeOK
      <3>4. Append(out, Reply) \in Seq(0..255)
        BY <3>1, <3>3, AppendProperties
      <3> QED BY <3>2, <3>3, <3>4
    <2>2. kctr' \subseteq CtrBits /\ awaiting' \in BOOLEAN /\ ibf' \in BOOLEAN
      BY <1>8 DEF TakeInput, Typed, TypeOK
    <2>3. irr' \in BOOLEAN
      BY <1>8 DEF TakeInput, Latch, Line, Typed, TypeOK
    <2>4. UNCHANGED <<port, masked, keyboard, init, driver>>
      BY <1>8 DEF TakeInput
    <2> QED BY <2>1, <2>2, <2>3, <2>4 DEF keyboard, init, driver, Typed, TypeOK
  <1>9. ASSUME NEW k \in Keys, Press(k) \/ Release(k) PROVE Typed'
    <2>1. PICK bytes : bytes \in Seq(0..255) /\ Send(bytes)
      BY <1>9 DEF Press, Release
    <2>2. held' \subseteq Keys
      BY <1>9 DEF Press, Release, Typed, TypeOK
    <2>3. out' \in Seq(0..255) /\ irr' \in BOOLEAN /\ events' \in 0..MaxEvents
      BY <2>1 DEF Send, Latch, Line, Typed, TypeOK
    <2>4. UNCHANGED <<ibf, port, awaiting, kctr, masked, init, driver>>
      BY <2>1 DEF Send
    <2> QED BY <2>2, <2>3, <2>4 DEF init, driver, Typed, TypeOK
  <1>10. CASE UNCHANGED vars
    BY <1>10 DEF vars, controller, keyboard, init, driver, Typed, TypeOK
  <1> QED BY <1>1, <1>2, <1>3, <1>4, <1>5, <1>6, <1>7, <1>8, <1>9, <1>10 DEF Next, InitStep, Idle

LEMMA TypedInit == Init => Typed
  <1> SUFFICES ASSUME Init PROVE Typed
    OBVIOUS
  <1>1. console \in Seq(Chars) /\ received \in Seq(0..255) /\ out \in Seq(0..255)
    BY KeyboardAssumption DEF Init
  <1>2. /\ ibf \in BOOLEAN /\ awaiting \in BOOLEAN /\ irr \in BOOLEAN /\ masked \in BOOLEAN
        /\ lshift \in BOOLEAN /\ rshift \in BOOLEAN
    BY DEF Init, Line
  <1>3. port \in [command : {RCTR, WCTR}, bits : SUBSET CtrBits]
    BY DEF Init
  <1> QED BY <1>1, <1>2, <1>3, KeyboardAssumption DEF Init, Typed, TypeOK

\* Every variable of the driver and of the controller keeps its range.
THEOREM KeyboardTyped == Spec => []TypeOK
  <1>1. Typed /\ [Next]_vars => Typed'
    BY TypedSteps
  <1>2. Typed => TypeOK
    BY DEF Typed
  <1> QED BY <1>1, <1>2, TypedInit, PTL DEF Spec

-----------------------------------------------------------------------------
(* What is echoed follows the shift keys *)

ShiftsFollow ==
    /\ lshift <=> Down(LSHIFT, Len(received))
    /\ rshift <=> Down(RSHIFT, Len(received))

EInv == Typed /\ ShiftsFollow /\ EchoFollowsShift

\* A shift key is down after the first n bytes of a history.
DownIn(hist, key, n) ==
    \E m \in 1..n : /\ hist[m] = key
                    /\ \A l \in (m + 1)..n : hist[l] # key + 128

LEMMA DownOf ==
    ASSUME NEW n
    PROVE  /\ Down(LSHIFT, n) <=> DownIn(received, LSHIFT, n)
           /\ Down(RSHIFT, n) <=> DownIn(received, RSHIFT, n)
           /\ Down(LSHIFT, n)' <=> DownIn(received', LSHIFT, n)
           /\ Down(RSHIFT, n)' <=> DownIn(received', RSHIFT, n)
  BY DEF Down, DownIn

\* One byte more in the history: what was down before is as it was, and the
\* byte decides about its own key only.
LEMMA DownAfter ==
    ASSUME NEW hist \in Seq(0..255), NEW scode \in 0..255,
           NEW next, next = Append(hist, scode), NEW key \in Nat,
           NEW n \in Nat, n = Len(hist)
    PROVE  /\ \A m \in 0..n : DownIn(next, key, m) <=> DownIn(hist, key, m)
           /\ DownIn(next, key, n + 1)
                 <=> scode = key \/ (DownIn(hist, key, n) /\ scode # key + 128)
  <1>1. next[n + 1] = scode /\ \A m \in 1..n : next[m] = hist[m]
    BY AppendProperties
  <1>2. ASSUME NEW m \in 0..n PROVE DownIn(next, key, m) <=> DownIn(hist, key, m)
    <2>1. \A j \in 1..m : next[j] = hist[j] /\ \A l \in (j + 1)..m : next[l] = hist[l]
      BY <1>1
    <2>2. ASSUME NEW j \in 1..m
          PROVE  (\A l \in (j + 1)..m : next[l] # key + 128)
                    <=> (\A l \in (j + 1)..m : hist[l] # key + 128)
      BY <2>1, Zenon
    <2> QED BY <2>1, <2>2, ZenonT(60) DEF DownIn
  <1>4. ASSUME scode = key PROVE DownIn(next, key, n + 1)
    <2>1. n + 1 \in 1..(n + 1) /\ \A l \in (n + 1 + 1)..(n + 1) : next[l] # key + 128
      OBVIOUS
    <2> QED BY <2>1, <1>1, <1>4 DEF DownIn
  <1>5. ASSUME DownIn(hist, key, n), scode # key + 128 PROVE DownIn(next, key, n + 1)
    <2>1. PICK m \in 1..n : hist[m] = key /\ \A l \in (m + 1)..n : hist[l] # key + 128
      BY <1>5 DEF DownIn
    <2>2. \A l \in (m + 1)..(n + 1) : next[l] # key + 128
      BY <2>1, <1>1, <1>5
    <2>3. m \in 1..(n + 1) /\ next[m] = key
      BY <2>1, <1>1
    <2> QED BY <2>2, <2>3 DEF DownIn
  <1>6. ASSUME DownIn(next, key, n + 1), scode # key
        PROVE  DownIn(hist, key, n) /\ scode # key + 128
    <2>1. PICK m \in 1..(n + 1) :
             next[m] = key /\ \A l \in (m + 1)..(n + 1) : next[l] # key + 128
      BY <1>6 DEF DownIn
    <2>2. m \in 1..n
      BY <2>1, <1>1, <1>6
    <2>3. scode # key + 128
      BY <2>1, <2>2, <1>1
    <2>4. hist[m] = key /\ \A l \in (m + 1)..n : hist[l] # key + 128
      BY <2>1, <2>2, <1>1
    <2> QED BY <2>2, <2>3, <2>4 DEF DownIn
  <1>7. scode = key => scode # key + 128
    OBVIOUS
  <1> QED BY <1>2, <1>4, <1>5, <1>6, <1>7

\* The two variables follow the history.
LEMMA ShiftsFollowStep ==
    ASSUME Typed, ShiftsFollow, NEW scode \in 0..255, ProcessScode(scode)
    PROVE  ShiftsFollow'
  <1>1. received \in Seq(0..255) /\ received' = Append(received, scode)
    BY DEF Typed, TypeOK, ProcessScode
  <1>2. PICK n \in Nat : n = Len(received)
    BY <1>1, LenProperties
  <1>3. Len(received') = n + 1
    BY <1>1, <1>2, AppendProperties
  <1>4. ASSUME NEW key \in Nat, key < 128, NEW now, now \in BOOLEAN,
               now <=> DownIn(received, key, n)
        PROVE  ShiftState(key, now, scode) <=> DownIn(received', key, n + 1)
    <2>1. key \in 0..127
      BY <1>4
    <2>2. DownIn(received', key, n + 1)
             <=> scode = key \/ (DownIn(received, key, n) /\ scode # key + 128)
      BY <1>1, <1>2, DownAfter, ZenonT(60)
    <2>3. CASE scode % 128 = key
      <3>1. scode = key \/ scode = key + 128
        BY <2>1, <2>3
      <3>2. ShiftState(key, now, scode) <=> ~(scode >= 128)
        BY <2>3 DEF ShiftState, Code, KeyUp
      <3>3. ~(scode >= 128) <=> scode = key
        BY <2>1, <3>1
      <3> QED BY <2>1, <2>2, <3>1, <3>2, <3>3
    <2>4. CASE scode % 128 # key
      <3>1. scode # key /\ scode # key + 128
        BY <2>1, <2>4
      <3>2. ShiftState(key, now, scode) <=> now
        BY <2>4 DEF ShiftState, Code
      <3> QED BY <1>4, <2>2, <3>1, <3>2
    <2> QED BY <2>3, <2>4
  <1>5. /\ lshift \in BOOLEAN /\ rshift \in BOOLEAN
        /\ lshift <=> DownIn(received, LSHIFT, n)
        /\ rshift <=> DownIn(received, RSHIFT, n)
    BY <1>2, DownOf DEF Typed, TypeOK, ShiftsFollow
  <1>6. /\ lshift' = ShiftState(LSHIFT, lshift, scode)
        /\ rshift' = ShiftState(RSHIFT, rshift, scode)
    BY DEF ProcessScode
  <1>7. ShiftState(LSHIFT, lshift, scode) <=> DownIn(received', LSHIFT, n + 1)
    BY <1>4, <1>5 DEF LSHIFT
  <1>8. ShiftState(RSHIFT, rshift, scode) <=> DownIn(received', RSHIFT, n + 1)
    BY <1>4, <1>5 DEF RSHIFT
  <1>9. /\ Down(LSHIFT, Len(received))' <=> DownIn(received', LSHIFT, n + 1)
        /\ Down(RSHIFT, Len(received))' <=> DownIn(received', RSHIFT, n + 1)
    BY <1>3 DEF Down, DownIn
  <1> QED BY <1>6, <1>7, <1>8, <1>9 DEF ShiftsFollow

\* The make codes with a character among the first bytes, and how many.
LEMMA MakesCount ==
    ASSUME NEW m \in Nat
    PROVE  /\ IsFiniteSet(Makes(m)) /\ Cardinality(Makes(m)) \in Nat
           /\ Makes(m) \subseteq 1..m
  <1>1. Makes(m) \in SUBSET (1..m)
    BY DEF Makes
  <1>2. IsFiniteSet(1..m)
    BY FS_Interval
  <1>3. IsFiniteSet(Makes(m))
    BY <1>1, <1>2, FS_Subset
  <1> QED BY <1>1, <1>3, FS_CardinalityType

\* Each has its place among them.
LEMMA MakesPlace ==
    ASSUME NEW n \in Nat, NEW m \in Makes(n)
    PROVE  Cardinality(Makes(m)) \in 1..Cardinality(Makes(n))
  <1>1. m \in 1..n /\ Makes(m) \in SUBSET Makes(n) /\ m \in Makes(m)
    BY DEF Makes
  <1>2. IsFiniteSet(Makes(n)) /\ IsFiniteSet(Makes(m)) /\ Cardinality(Makes(m)) \in Nat
        /\ Cardinality(Makes(n)) \in Nat
    BY <1>1, MakesCount
  <1>3. Cardinality(Makes(m)) <= Cardinality(Makes(n))
    BY <1>1, <1>2, FS_Subset
  <1>4. Cardinality(Makes(m)) # 0
    BY <1>1, <1>2, FS_EmptySet
  <1> QED BY <1>2, <1>3, <1>4

\* A byte that is no character's leaves the console alone, the code of one adds
\* that character.
LEMMA CharStep ==
    ASSUME Typed, NEW scode \in 0..255, ProcessScode(scode)
    PROVE  IF scode \in DOMAIN Lower
           THEN console' = Append(console, (IF lshift' \/ rshift' THEN Upper ELSE Lower)[scode])
           ELSE console' = console
  <1>1. DOMAIN Lower \subseteq 0..127 /\ lastCode # 224 /\ console \in Seq(Chars)
    BY KeyboardAssumption DEF Typed, TypeOK
  <1>2. CASE scode \in DOMAIN Lower
    <2>1. Code(scode) = scode /\ ~KeyUp(scode)
      <3>1. scode \in 0..127
        BY <1>1, <1>2, ZenonT(60)
      <3>2. scode % 128 = scode
        BY <3>1
      <3> QED BY <3>1, <3>2 DEF Code, KeyUp
    <2>2. console' = console \o <<(IF lshift' \/ rshift' THEN Upper ELSE Lower)[scode]>>
      BY <1>1, <1>2, <2>1, Zenon DEF ProcessScode, CharOf
    <2>3. (IF lshift' \/ rshift' THEN Upper ELSE Lower)[scode] \in Chars
      BY <1>2, KeyboardAssumption DEF Chars
    <2> QED BY <1>1, <1>2, <2>2, <2>3
  <1>3. CASE scode \notin DOMAIN Lower
    <2>1. CASE KeyUp(scode)
      <3>1. console' = console \o <<>>
        BY <2>1 DEF ProcessScode
      <3> QED BY <1>1, <1>3, <3>1
    <2>2. CASE ~KeyUp(scode)
      <3>1. Code(scode) = scode
        BY <2>2 DEF Code, KeyUp
      <3>2. console' = console \o <<>>
        BY <1>3, <2>2, <3>1, Zenon DEF ProcessScode, CharOf
      <3> QED BY <1>1, <1>3, <3>2
    <2> QED BY <2>1, <2>2
  <1> QED BY <1>2, <1>3

\* One byte more in the history: the places of the characters before stay.
LEMMA MakesAfter ==
    ASSUME received \in Seq(0..255), NEW scode \in 0..255,
           received' = Append(received, scode), NEW n \in Nat, n = Len(received)
    PROVE  /\ \A m \in 0..n : Makes(m)' = Makes(m)
           /\ Makes(n + 1)' = Makes(n) \cup (IF scode \in DOMAIN Lower THEN {n + 1} ELSE {})
           /\ Cardinality(Makes(n + 1)')
                 = Cardinality(Makes(n)) + (IF scode \in DOMAIN Lower THEN 1 ELSE 0)
  <1>1. /\ Len(received') = n + 1 /\ received'[n + 1] = scode
        /\ \A m \in 1..n : received'[m] = received[m]
    BY AppendProperties
  <1>2. \A m \in 0..n : Makes(m)' = Makes(m)
    BY <1>1 DEF Makes
  <1>3. CASE scode \in DOMAIN Lower
    <2>1. Makes(n + 1)' = Makes(n) \cup {n + 1} /\ n + 1 \notin Makes(n)
      BY <1>1, <1>3 DEF Makes
    <2>2. Cardinality(Makes(n) \cup {n + 1}) = Cardinality(Makes(n)) + 1
      BY <2>1, MakesCount, FS_AddElement
    <2> QED BY <1>2, <1>3, <2>1, <2>2
  <1>4. CASE scode \notin DOMAIN Lower
    <2>1. Makes(n + 1)' = Makes(n)
      BY <1>1, <1>4 DEF Makes
    <2>2. Cardinality(Makes(n)) \in Nat
      BY MakesCount
    <2> QED BY <1>2, <1>4, <2>1, <2>2
  <1> QED BY <1>3, <1>4

\* What the console shows for the n-th byte.
Shown(n) == (IF Down(LSHIFT, n) \/ Down(RSHIFT, n) THEN Upper ELSE Lower)[received[n]]

LEMMA EchoStep ==
    ASSUME EInv, NEW scode \in 0..255, ProcessScode(scode)
    PROVE  EchoFollowsShift'
  <1>1. /\ received \in Seq(0..255) /\ received' = Append(received, scode)
        /\ console \in Seq(Chars) /\ console' \in Seq(Chars)
    BY ScodeTyped DEF EInv, Typed, TypeOK, ProcessScode
  <1>2. PICK n \in Nat : n = Len(received)
    BY <1>1, LenProperties
  <1>3. /\ Len(received') = n + 1 /\ received'[n + 1] = scode
        /\ \A m \in 1..n : received'[m] = received[m]
    BY <1>1, <1>2, AppendProperties
  <1>4. Len(console) = Cardinality(Makes(n))
    BY <1>2 DEF EInv, EchoFollowsShift
  <1>5. \A m \in Makes(n) : console[Cardinality(Makes(m))] = Shown(m)
    BY <1>2 DEF EInv, EchoFollowsShift, Shown
  <1>6. /\ \A m \in 0..n : Makes(m)' = Makes(m)
        /\ Makes(n + 1)' = Makes(n) \cup (IF scode \in DOMAIN Lower THEN {n + 1} ELSE {})
        /\ Cardinality(Makes(n + 1)')
              = Cardinality(Makes(n)) + (IF scode \in DOMAIN Lower THEN 1 ELSE 0)
    BY <1>1, <1>2, MakesAfter
  <1>7. \A m \in Makes(n) : console'[Cardinality(Makes(m))] = console[Cardinality(Makes(m))]
    <2>1. CASE scode \in DOMAIN Lower
      <3>1. (IF lshift' \/ rshift' THEN Upper ELSE Lower)[scode] \in Chars
        BY <2>1, KeyboardAssumption DEF Chars
      <3>2. console' = Append(console, (IF lshift' \/ rshift' THEN Upper ELSE Lower)[scode])
        BY <2>1, CharStep DEF EInv
      <3>3. \A k \in 1..Len(console) : console'[k] = console[k]
        BY <1>1, <3>1, <3>2, AppendProperties
      <3> QED BY <1>4, <3>3, MakesPlace
    <2>2. CASE scode \notin DOMAIN Lower
      BY <2>2, CharStep DEF EInv
    <2> QED BY <2>1, <2>2
  <1>8. \A m \in Makes(n) : Shown(m)' = Shown(m)
    <2>1. ASSUME NEW m \in Makes(n) PROVE Shown(m)' = Shown(m)
      <3>1. m \in 1..n /\ received'[m] = received[m]
        BY <1>3 DEF Makes
      <3>2. /\ Down(LSHIFT, m)' <=> Down(LSHIFT, m)
            /\ Down(RSHIFT, m)' <=> Down(RSHIFT, m)
        <4>1. /\ DownIn(received', LSHIFT, m) <=> DownIn(received, LSHIFT, m)
              /\ DownIn(received', RSHIFT, m) <=> DownIn(received, RSHIFT, m)
          <5>1. LSHIFT \in Nat /\ RSHIFT \in Nat /\ m \in 0..n
            BY <3>1 DEF LSHIFT, RSHIFT
          <5>2. \A key \in Nat : DownIn(received', key, m) <=> DownIn(received, key, m)
            BY <1>1, <1>2, <5>1, DownAfter, ZenonT(60)
          <5> QED BY <5>1, <5>2
        <4> QED BY <4>1, DownOf
      <3> QED BY <3>1, <3>2, Zenon DEF Shown
    <2> QED BY <2>1
  <1>9. ASSUME scode \in DOMAIN Lower
        PROVE  Len(console') = Len(console) + 1 /\ console'[Len(console) + 1] = Shown(n + 1)'
    <2>1. console' = Append(console, (IF lshift' \/ rshift' THEN Upper ELSE Lower)[scode])
      BY <1>9, CharStep DEF EInv
    <2>2. (IF lshift' \/ rshift' THEN Upper ELSE Lower)[scode] \in Chars
      BY <1>9, KeyboardAssumption DEF Chars
    <2>3. /\ Len(console') = Len(console) + 1
          /\ console'[Len(console) + 1] = (IF lshift' \/ rshift' THEN Upper ELSE Lower)[scode]
      BY <1>1, <2>1, <2>2, AppendProperties
    <2>4. ShiftsFollow'
      BY ShiftsFollowStep DEF EInv
    <2>5. /\ lshift' <=> Down(LSHIFT, n + 1)'
          /\ rshift' <=> Down(RSHIFT, n + 1)'
      BY <1>3, <2>4, Zenon DEF ShiftsFollow
    <2>6. Shown(n + 1)' = (IF lshift' \/ rshift' THEN Upper ELSE Lower)[scode]
      BY <1>3, <2>5, Zenon DEF Shown
    <2> QED BY <2>3, <2>6
  <1>10. Len(console') = Cardinality(Makes(n + 1)')
    <2>1. CASE scode \in DOMAIN Lower
      BY <2>1, <1>4, <1>6, <1>9
    <2>2. CASE scode \notin DOMAIN Lower
      BY <2>2, <1>4, <1>6, CharStep, MakesCount DEF EInv
    <2> QED BY <2>1, <2>2
  <1>11. ASSUME NEW m \in Makes(n + 1)'
         PROVE  console'[Cardinality(Makes(m)')] = Shown(m)'
    <2>1. CASE m \in Makes(n)
      <3>1. Makes(m)' = Makes(m)
        BY <1>6, <2>1 DEF Makes
      <3> QED BY <1>5, <1>7, <1>8, <2>1, <3>1
    <2>2. CASE m \notin Makes(n)
      <3>1. scode \in DOMAIN Lower /\ m = n + 1
        BY <1>6, <2>2
      <3>2. Cardinality(Makes(n + 1)') = Len(console) + 1
        BY <1>4, <1>6, <3>1
      <3> QED BY <1>9, <3>1, <3>2
    <2> QED BY <2>1, <2>2
  <1>12. Len(received)' = n + 1
    BY <1>3
  <1> QED BY <1>10, <1>11, <1>12 DEF EchoFollowsShift, Shown

LEMMA EInit == Init => EInv
  <1> SUFFICES ASSUME Init PROVE EInv
    OBVIOUS
  <1>1. received = <<>> /\ console = <<>> /\ lshift = FALSE /\ rshift = FALSE
    BY DEF Init
  <1>2. Len(received) = 0 /\ Len(console) = 0
    BY <1>1
  <1>3. Makes(0) = {} /\ ~Down(LSHIFT, 0) /\ ~Down(RSHIFT, 0)
    BY DEF Makes, Down
  <1>4. EchoFollowsShift
    BY <1>2, <1>3, FS_EmptySet DEF EchoFollowsShift
  <1>5. ShiftsFollow
    BY <1>1, <1>2, <1>3 DEF ShiftsFollow
  <1> QED BY <1>4, <1>5, TypedInit DEF EInv

LEMMA EStep ==
    ASSUME EInv, [Next]_vars
    PROVE  EInv'
  <1>1. Typed'
    BY TypedSteps DEF EInv
  <1>2. CASE UNCHANGED driver
    <2>1. UNCHANGED <<received, console, lshift, rshift>>
      BY <1>2 DEF driver
    <2>2. ShiftsFollow'
      BY <2>1 DEF EInv, ShiftsFollow, Down
    <2>3. EchoFollowsShift'
      BY <2>1 DEF EInv, EchoFollowsShift, Makes, Down
    <2> QED BY <1>1, <2>2, <2>3 DEF EInv
  <1>3. CASE Head(out) \in 0..255 /\ ProcessScode(Head(out))
    BY <1>1, <1>3, ShiftsFollowStep, EchoStep DEF EInv
  <1> QED BY <1>2, <1>3, OneByteAtATime DEF EInv

\* The console gets one character for every make code that has one, in order,
\* in upper case exactly while a shift key is down, for every table of
\* characters and whatever bytes the controller gives keyboard_irq.
THEOREM EchoIsRight == Spec => []EchoFollowsShift
  <1>1. EInv /\ [Next]_vars => EInv'
    BY EStep
  <1>2. EInv => EchoFollowsShift
    BY DEF EInv
  <1> QED BY <1>1, <1>2, EInit, PTL DEF Spec

-----------------------------------------------------------------------------
(* Shift is not stuck *)

\* What the proof asks of the keyboard: a shift key sends its code and its break
\* code, and no other key sends either.
PlainKeys ==
    \A k \in Keys, key \in {LSHIFT, RSHIFT} :
        IF k.make = <<key>>
        THEN k.break = <<key + 128>>
        ELSE /\ \A j \in DOMAIN k.make : Code(k.make[j]) # key
             /\ \A j \in DOMAIN k.break : Code(k.break[j]) # key

\* What it asks of the BIOS: the flush of keyboard_init reaches past the bytes
\* left in the controller, and the control register, which the controller sends
\* in answer to RCTR and keyboard_irq takes for a scan code, is not the code of
\* a shift key.
QuietStart ==
    /\ \A bytes \in Leftovers : Len(bytes) <= FlushLength
    /\ \A bits \in InitialCtrs : ControlByte(bits) \notin {LSHIFT, RSHIFT}

Held(key) == \E k \in held : k.make = <<key>>

\* Bytes at the front of the output buffer that the flush has still to drop.
Stale == IF pc = "flush" THEN FlushLength - i ELSE 0

\* The last of some bytes that is a shift key's, past the first d, is a make
\* code; and none of them is the key's.
MakeLast(bytes, d, key) ==
    \E m \in (d + 1)..Len(bytes) :
        /\ Code(bytes[m]) = key /\ ~KeyUp(bytes[m])
        /\ \A l \in (m + 1)..Len(bytes) : Code(bytes[l]) # key

NoneOf(bytes, key) == \A m \in 1..Len(bytes) : Code(bytes[m]) # key

\* The key is held when the last of its bytes that waits is its make code; when
\* none waits, it is held if the driver has it so.
ToldLast(key) == MakeLast(out, Stale, key) => Held(key)

ToldNow ==
    /\ lshift /\ NoneOf(out, LSHIFT) => Held(LSHIFT)
    /\ rshift /\ NoneOf(out, RSHIFT) => Held(RSHIFT)

ToldAll == ToldLast(LSHIFT) /\ ToldLast(RSHIFT) /\ ToldNow

\* The answer to RCTR is the control register as the BIOS left it.
FirstAnswer ==
    /\ command = RCTR \/ (ibf /\ port.command = RCTR) => kctr \in InitialCtrs /\ ~awaiting
    /\ awaiting \/ (ibf /\ port.command = WCTR) => command = WCTR

\* No byte is read as a scan code before the interrupt is let through.
Flushing ==
    /\ pc = "flush" => command = RCTR /\ i \in 0..FlushLength
    /\ pc # "done" => masked
    /\ masked => ~lshift /\ ~rshift

SInv == /\ Typed /\ Flushing /\ FirstAnswer
        /\ ToldAll

\* Bytes of other keys change nothing.
LEMMA MoreBytes ==
    ASSUME NEW S, NEW bytes \in Seq(S), NEW more \in Seq(S), NEW d \in Nat, NEW key,
           \A j \in 1..Len(more) : Code(more[j]) # key
    PROVE  /\ MakeLast(bytes \o more, d, key) => MakeLast(bytes, d, key)
           /\ NoneOf(bytes \o more, key) => NoneOf(bytes, key)
  <1> DEFINE all == bytes \o more
  <1>1. /\ Len(all) = Len(bytes) + Len(more) /\ Len(bytes) \in Nat /\ Len(more) \in Nat
        /\ \A j \in 1..Len(bytes) : all[j] = bytes[j]
        /\ \A j \in (Len(bytes) + 1)..Len(all) : all[j] = more[j - Len(bytes)]
    BY ConcatProperties, LenProperties
  <1>2. \A j \in (Len(bytes) + 1)..Len(all) : Code(all[j]) # key
    <2>1. ASSUME NEW j \in (Len(bytes) + 1)..Len(all) PROVE Code(all[j]) # key
      <3>1. j - Len(bytes) \in 1..Len(more)
        BY <1>1
      <3> QED BY <1>1, <3>1
    <2> QED BY <2>1
  <1> HIDE DEF all
  <1>3. ASSUME MakeLast(all, d, key) PROVE MakeLast(bytes, d, key)
    <2>1. PICK m \in (d + 1)..Len(all) :
             /\ Code(all[m]) = key /\ ~KeyUp(all[m])
             /\ \A l \in (m + 1)..Len(all) : Code(all[l]) # key
      BY <1>3 DEF MakeLast
    <2>2. m \in (d + 1)..Len(bytes) /\ m \in 1..Len(bytes)
      BY <1>1, <1>2, <2>1
    <2>3. \A l \in (m + 1)..Len(bytes) : Code(bytes[l]) # key
      <3>1. \A l \in (m + 1)..Len(bytes) : l \in 1..Len(bytes) /\ l \in (m + 1)..Len(all)
        BY <1>1, <2>2
      <3> QED BY <1>1, <2>1, <3>1, Zenon
    <2>4. all[m] = bytes[m]
      BY <1>1, <2>2
    <2> QED BY <2>1, <2>2, <2>3, <2>4, Zenon DEF MakeLast
  <1>4. ASSUME NoneOf(all, key) PROVE NoneOf(bytes, key)
    <2>1. \A m \in 1..Len(bytes) : m \in 1..Len(all) /\ all[m] = bytes[m]
      BY <1>1
    <2> QED BY <1>4, <2>1, Zenon DEF NoneOf
  <1> QED BY <1>3, <1>4 DEF all

\* A break code at the end.
LEMMA BreakLast ==
    ASSUME NEW bytes \in Seq(0..255), NEW b \in 0..255, NEW d \in Nat, NEW key,
           Code(b) = key, KeyUp(b)
    PROVE  ~MakeLast(bytes \o <<b>>, d, key) /\ ~NoneOf(bytes \o <<b>>, key)
  <1> DEFINE all == bytes \o <<b>>
             n == Len(bytes) + 1
  <1>1. Len(bytes) \in Nat /\ Len(all) = n /\ all[n] = b
    <2>1. <<b>> \in Seq(0..255) /\ Len(<<b>>) = 1 /\ <<b>>[1] = b
      OBVIOUS
    <2> QED BY <2>1, ConcatProperties, LenProperties
  <1> HIDE DEF all
  <1>2. ~NoneOf(all, key)
    <2>1. n \in 1..Len(all)
      BY <1>1
    <2> QED BY <1>1, <2>1 DEF NoneOf
  <1>3. ASSUME MakeLast(all, d, key) PROVE FALSE
    <2>1. PICK m \in (d + 1)..Len(all) :
             /\ Code(all[m]) = key /\ ~KeyUp(all[m])
             /\ \A l \in (m + 1)..Len(all) : Code(all[l]) # key
      BY <1>3 DEF MakeLast
    <2>2. m # n
      BY <1>1, <2>1
    <2>3. n \in (m + 1)..Len(all)
      BY <1>1, <2>1, <2>2
    <2> QED BY <1>1, <2>1, <2>3
  <1> QED BY <1>2, <1>3 DEF all

\* The first byte is taken.
LEMMA OneByteLess ==
    ASSUME NEW bytes \in Seq(0..255), bytes # <<>>, NEW d \in Nat, NEW e \in Nat,
           d = e + 1 \/ (d = e /\ e = 0), NEW key
    PROVE  /\ MakeLast(Tail(bytes), e, key) => MakeLast(bytes, d, key)
           /\ NoneOf(Tail(bytes), key) /\ Code(Head(bytes)) # key => NoneOf(bytes, key)
           /\ (NoneOf(Tail(bytes), key) /\ Code(Head(bytes)) = key /\ ~KeyUp(Head(bytes)))
                 => MakeLast(bytes, 0, key)
  <1> DEFINE rest == Tail(bytes)
  <1>1. /\ Len(bytes) \in Nat \ {0} /\ Len(rest) = Len(bytes) - 1
        /\ \A j \in 1..Len(rest) : rest[j] = bytes[j + 1]
        /\ Head(bytes) = bytes[1]
    BY HeadTailProperties, LenProperties, EmptySeq
  <1> HIDE DEF rest
  <1>2. \A j \in 2..Len(bytes) : j - 1 \in 1..Len(rest) /\ rest[j - 1] = bytes[j]
    BY <1>1
  <1>3. ASSUME MakeLast(rest, e, key) PROVE MakeLast(bytes, d, key)
    <2>1. PICK m \in (e + 1)..Len(rest) :
             /\ Code(rest[m]) = key /\ ~KeyUp(rest[m])
             /\ \A l \in (m + 1)..Len(rest) : Code(rest[l]) # key
      BY <1>3 DEF MakeLast
    <2>2. m + 1 \in (d + 1)..Len(bytes) /\ bytes[m + 1] = rest[m]
      BY <1>1, <2>1
    <2>3. ASSUME NEW l \in ((m + 1) + 1)..Len(bytes) PROVE Code(bytes[l]) # key
      <3>1. l \in 2..Len(bytes) /\ l - 1 \in (m + 1)..Len(rest)
        BY <1>1, <2>1
      <3>2. Code(rest[l - 1]) # key
        BY <2>1, <3>1
      <3> QED BY <1>2, <3>1, <3>2
    <2> QED BY <2>1, <2>2, <2>3 DEF MakeLast
  <1>4. ASSUME NoneOf(rest, key) PROVE \A j \in 2..Len(bytes) : Code(bytes[j]) # key
    <2>1. ASSUME NEW j \in 2..Len(bytes) PROVE Code(bytes[j]) # key
      <3>1. Code(rest[j - 1]) # key
        BY <1>2, <1>4 DEF NoneOf
      <3> QED BY <1>2, <3>1
    <2> QED BY <2>1
  <1>5. ASSUME NoneOf(rest, key), Code(Head(bytes)) # key PROVE NoneOf(bytes, key)
    <2>1. \A j \in 1..Len(bytes) : j = 1 \/ j \in 2..Len(bytes)
      BY <1>1
    <2> QED BY <1>1, <1>4, <1>5, <2>1, Zenon DEF NoneOf
  <1>6. ASSUME NoneOf(rest, key), Code(Head(bytes)) = key, ~KeyUp(Head(bytes))
        PROVE  MakeLast(bytes, 0, key)
    <2>1. 1 \in (0 + 1)..Len(bytes) /\ \A l \in (1 + 1)..Len(bytes) : l \in 2..Len(bytes)
      BY <1>1
    <2> QED BY <1>1, <1>4, <1>6, <2>1 DEF MakeLast
  <1> QED BY <1>3, <1>5, <1>6 DEF rest

\* The keyboard sends the code of a shift key, or of another.
LEMMA PlainMake ==
    ASSUME PlainKeys, NEW k \in Keys, NEW key \in Nat, key \in {LSHIFT, RSHIFT}
    PROVE  /\ k.make \in Seq(0..255) /\ k.break \in Seq(0..255)
           /\ k.make = <<key>> => k.break = <<key + 128>>
           /\ k.make # <<key>> => /\ \A j \in 1..Len(k.make) : Code(k.make[j]) # key
                                  /\ \A j \in 1..Len(k.break) : Code(k.break[j]) # key
  <1>1. k.make \in Seq(0..255) /\ k.break \in Seq(0..255)
    BY KeyboardAssumption
  <1>2. DOMAIN k.make = 1..Len(k.make) /\ DOMAIN k.break = 1..Len(k.break)
    BY <1>1
  <1> QED BY <1>1, <1>2 DEF PlainKeys

\* A key is pressed or released: what waits tells of it.
LEMMA SendKeepsTold ==
    ASSUME PlainKeys, Typed, NEW k \in Keys, Press(k) \/ Release(k),
           NEW key \in Nat, key \in {LSHIFT, RSHIFT}, NEW d \in Nat
    PROVE  /\ (MakeLast(out, d, key) => Held(key)) => (MakeLast(out', d, key) => Held(key)')
           /\ (NoneOf(out, key) => Held(key)) => (NoneOf(out', key) => Held(key)')
  <1>1. out \in Seq(0..255)
    BY DEF Typed, TypeOK
  <1>2. /\ k.make \in Seq(0..255) /\ k.break \in Seq(0..255)
        /\ k.make = <<key>> => k.break = <<key + 128>>
        /\ k.make # <<key>> => /\ \A j \in 1..Len(k.make) : Code(k.make[j]) # key
                               /\ \A j \in 1..Len(k.break) : Code(k.break[j]) # key
    BY PlainMake, ZenonT(60)
  <1>3. CASE Press(k)
    <2>1. out' = out \o k.make /\ held' = held \cup {k}
      BY <1>3 DEF Press, Send
    <2>2. CASE k.make = <<key>>
      <3>1. Held(key)'
        BY <2>1, <2>2 DEF Held
      <3> QED BY <3>1
    <2>3. CASE k.make # <<key>>
      <3>1. Held(key) => Held(key)'
        BY <2>1 DEF Held
      <3>2. /\ MakeLast(out', d, key) => MakeLast(out, d, key)
            /\ NoneOf(out', key) => NoneOf(out, key)
        BY <1>1, <1>2, <2>1, <2>3, MoreBytes
      <3> QED BY <3>1, <3>2
    <2> QED BY <2>2, <2>3
  <1>4. CASE Release(k)
    <2>1. out' = out \o k.break /\ held' = held \ {k}
      BY <1>4 DEF Release, Send
    <2>2. CASE k.make = <<key>>
      <3>1. key \in 0..127 /\ key + 128 \in 0..255
        BY DEF LSHIFT, RSHIFT
      <3>2. Code(key + 128) = key /\ KeyUp(key + 128)
        <4>1. (key + 128) % 128 = key /\ key + 128 >= 128
          BY <3>1
        <4> QED BY <4>1 DEF Code, KeyUp
      <3>3. out' = out \o <<key + 128>>
        BY <1>2, <2>1, <2>2
      <3>4. ~MakeLast(out', d, key) /\ ~NoneOf(out', key)
        BY <1>1, <3>1, <3>2, <3>3, BreakLast, ZenonT(60)
      <3> QED BY <3>4
    <2>3. CASE k.make # <<key>>
      <3>1. Held(key) => Held(key)'
        BY <2>1, <2>3 DEF Held
      <3>2. /\ MakeLast(out', d, key) => MakeLast(out, d, key)
            /\ NoneOf(out', key) => NoneOf(out, key)
        BY <1>1, <1>2, <2>1, <2>3, MoreBytes
      <3> QED BY <3>1, <3>2
    <2> QED BY <2>2, <2>3
  <1> QED BY <1>3, <1>4

\* keyboard_init and the commands it sends.
LEMMA FlowSteps ==
    ASSUME Typed, Flushing, FirstAnswer, [Next]_vars
    PROVE  Flushing' /\ FirstAnswer'
  <1> USE KeyboardAssumption
  <1>0. RCTR # WCTR /\ pc \in {"flush", "wait", "write", "unmask", "done", "failed"}
    BY DEF RCTR, WCTR, Typed, TypeOK
  <1>1. CASE Flush
    <2>1. UNCHANGED <<ibf, port, awaiting, kctr, masked, keyboard, pc, command, driver>>
      BY <1>1 DEF Flush, ReadData
    <2>2. i' \in 0..FlushLength
      BY <1>1 DEF Flush, Flushing
    <2> QED BY <2>1, <2>2 DEF driver, Flushing, FirstAnswer
  <1>2. CASE FlushDone
    BY <1>2 DEF FlushDone, BeginCommand, controller, driver, Flushing, FirstAnswer
  <1>3. CASE WaitWrite
    BY <1>3 DEF WaitWrite, controller, driver, Flushing, FirstAnswer
  <1>4. CASE WaitDone
    BY <1>4 DEF WaitDone, WaitResult, controller, driver, Flushing, FirstAnswer
  <1>5. CASE WriteByte
    <2>1. /\ pc = "write" /\ ibf' = TRUE /\ port'.command = command
          /\ pc' \in {"wait", "unmask"}
          /\ UNCHANGED <<awaiting, kctr, masked, lshift, rshift>>
      BY <1>5 DEF WriteByte, BeginCommand, driver
    <2>2. command = RCTR => command' = WCTR
      <3>1. (288 \div 4096) % 16 = 0
        OBVIOUS
      <3>2. Params(RCTR) = 0
        BY <3>1 DEF Params, RCTR
      <3>3. command = RCTR => ~(written < Params(command))
        BY <3>2 DEF Typed, TypeOK
      <3> QED BY <1>5, <3>3 DEF WriteByte, BeginCommand
    <2>3. command = WCTR => command' = WCTR
      BY <1>0, <1>5 DEF WriteByte, BeginCommand
    <2>4. command \in {RCTR, WCTR}
      BY DEF Typed, TypeOK
    <2>5. Flushing'
      BY <2>1 DEF Flushing
    <2> QED BY <1>0, <2>1, <2>2, <2>3, <2>4, <2>5 DEF FirstAnswer
  <1>6. CASE Unmask
    BY <1>6 DEF Unmask, controller, driver, Flushing, FirstAnswer
  <1>7. CASE KeyboardIrq
    <2>1. ~masked /\ UNCHANGED <<ibf, port, awaiting, kctr, masked, init>>
      BY <1>7 DEF KeyboardIrq, ReadData
    <2>2. Flushing'
      BY <2>1 DEF init, Flushing
    <2>3. FirstAnswer'
      BY <2>1 DEF init, FirstAnswer
    <2> QED BY <2>2, <2>3
  <1>8. CASE TakeInput
    <2>1. ibf /\ ibf' = FALSE /\ UNCHANGED <<port, masked, init, driver>>
      BY <1>8 DEF TakeInput
    <2>2. Flushing'
      BY <2>1 DEF init, driver, Flushing
    <2>3. CASE awaiting
      <3>1. awaiting' = FALSE /\ command = WCTR
        BY <1>8, <2>3 DEF TakeInput, FirstAnswer
      <3> QED BY <1>0, <2>1, <2>2, <3>1 DEF init, FirstAnswer
    <2>4. CASE ~awaiting /\ port.command = WCTR
      <3>1. command = WCTR
        BY <2>1, <2>4 DEF FirstAnswer
      <3> QED BY <1>0, <2>1, <2>2, <3>1 DEF init, FirstAnswer
    <2>5. CASE ~awaiting /\ port.command # WCTR
      <3>1. UNCHANGED <<awaiting, kctr>>
        BY <1>8, <2>5 DEF TakeInput
      <3> QED BY <2>1, <2>2, <2>5, <3>1 DEF init, FirstAnswer
    <2> QED BY <2>3, <2>4, <2>5
  <1>9. ASSUME NEW k \in Keys, Press(k) \/ Release(k) PROVE Flushing' /\ FirstAnswer'
    <2>1. UNCHANGED <<ibf, port, awaiting, kctr, masked, init, driver>>
      BY <1>9 DEF Press, Release, Send
    <2> QED BY <2>1 DEF init, driver, Flushing, FirstAnswer
  <1>10. CASE UNCHANGED vars
    BY <1>10 DEF vars, controller, keyboard, init, driver, Flushing, FirstAnswer
  <1> QED BY <1>1, <1>2, <1>3, <1>4, <1>5, <1>6, <1>7, <1>8, <1>9, <1>10 DEF Next, InitStep, Idle

LEMMA ShiftCodes == LSHIFT \in Nat /\ RSHIFT \in Nat
  BY DEF LSHIFT, RSHIFT

LEMMA StaleCount ==
    ASSUME Typed, Flushing
    PROVE  Stale \in Nat /\ (pc # "flush" => Stale = 0)
  BY KeyboardAssumption DEF Flushing, Stale

\* What waits does not change, or there is nothing.
LEMMA SameOut ==
    ASSUME ToldAll, UNCHANGED <<out, held, lshift, rshift>>,
           Stale' = Stale \/ (out = <<>> /\ Stale' \in Nat)
    PROVE  ToldAll'
  <1>1. /\ Held(LSHIFT)' <=> Held(LSHIFT)
        /\ Held(RSHIFT)' <=> Held(RSHIFT)
    BY DEF Held
  <1>2. ToldNow'
    BY <1>1 DEF ToldAll, ToldNow
  <1>3. CASE out = <<>> /\ Stale' \in Nat
    <2>1. Len(out') = 0
      BY <1>3
    <2>2. \A key : ~MakeLast(out', Stale', key)
      <3>1. PICK d \in Nat : d = Stale'
        BY <1>3
      <3>2. \A m \in (d + 1)..Len(out') : FALSE
        BY <2>1
      <3> QED BY <3>1, <3>2, Zenon DEF MakeLast
    <2> QED BY <1>2, <2>2 DEF ToldAll, ToldLast
  <1>4. CASE Stale' = Stale
    BY <1>1, <1>2, <1>4 DEF ToldAll, ToldLast
  <1> QED BY <1>3, <1>4

\* keyboard_init drops a byte.
LEMMA FlushTold ==
    ASSUME Typed, Flushing, ToldAll, Flush
    PROVE  ToldAll'
  <1>1. /\ out \in Seq(0..255) /\ out # <<>> /\ out' = Tail(out)
        /\ UNCHANGED <<held, lshift, rshift, pc>> /\ ~lshift /\ ~rshift
    BY DEF Flush, ReadData, keyboard, driver, Typed, TypeOK, Flushing
  <1>2. Stale \in Nat /\ Stale' \in Nat /\ Stale = Stale' + 1
    <2>1. pc = "flush" /\ pc' = "flush" /\ i' = i + 1 /\ i < FlushLength
      BY DEF Flush
    <2>2. Stale = FlushLength - i /\ Stale' = FlushLength - i'
      BY <2>1 DEF Stale
    <2>3. i \in Nat /\ FlushLength \in Nat
      BY <2>1, KeyboardAssumption DEF Flushing
    <2> QED BY <2>1, <2>2, <2>3
  <1>3. \A key : MakeLast(out', Stale', key) => MakeLast(out, Stale, key)
    BY <1>1, <1>2, OneByteLess
  <1>4. /\ Held(LSHIFT)' <=> Held(LSHIFT)
        /\ Held(RSHIFT)' <=> Held(RSHIFT)
    BY <1>1 DEF Held
  <1> QED BY <1>1, <1>3, <1>4 DEF ToldAll, ToldLast, ToldNow

\* The handler takes a byte.
LEMMA IrqTold ==
    ASSUME Typed, Flushing, ToldAll, KeyboardIrq, out # <<>>
    PROVE  ToldAll'
  <1>1. /\ out \in Seq(0..255) /\ out # <<>> /\ out' = Tail(out)
        /\ ProcessScode(Head(out)) /\ UNCHANGED <<held, pc>> /\ pc = "done"
    BY DEF KeyboardIrq, ReadData, keyboard, init, Typed, TypeOK, Flushing
  <1>2. Stale = 0 /\ Stale' = 0
    BY <1>1 DEF Stale
  <1>3. \A key : /\ MakeLast(out', Stale', key) => MakeLast(out, Stale, key)
                 /\ NoneOf(out', key) /\ Code(Head(out)) # key => NoneOf(out, key)
                 /\ (NoneOf(out', key) /\ Code(Head(out)) = key /\ ~KeyUp(Head(out)))
                       => MakeLast(out, Stale, key)
    BY <1>1, <1>2, OneByteLess
  <1>4. /\ Held(LSHIFT)' <=> Held(LSHIFT)
        /\ Held(RSHIFT)' <=> Held(RSHIFT)
    BY <1>1 DEF Held
  <1>5. /\ lshift' = ShiftState(LSHIFT, lshift, Head(out))
        /\ rshift' = ShiftState(RSHIFT, rshift, Head(out))
    BY <1>1 DEF ProcessScode
  <1>6. /\ Code(Head(out)) = LSHIFT => (lshift' <=> ~KeyUp(Head(out)))
        /\ Code(Head(out)) # LSHIFT => (lshift' <=> lshift)
        /\ Code(Head(out)) = RSHIFT => (rshift' <=> ~KeyUp(Head(out)))
        /\ Code(Head(out)) # RSHIFT => (rshift' <=> rshift)
    BY <1>5 DEF ShiftState
  <1>7. lshift' /\ NoneOf(out', LSHIFT) => Held(LSHIFT)
    BY <1>3, <1>6 DEF ToldAll, ToldLast, ToldNow
  <1>8. rshift' /\ NoneOf(out', RSHIFT) => Held(RSHIFT)
    BY <1>3, <1>6 DEF ToldAll, ToldLast, ToldNow
  <1> QED BY <1>3, <1>4, <1>7, <1>8 DEF ToldAll, ToldLast, ToldNow

\* The controller answers RCTR.
LEMMA AnswerTold ==
    ASSUME QuietStart, Typed, Flushing, FirstAnswer, ToldAll, TakeInput
    PROVE  ToldAll'
  <1>1. /\ out \in Seq(0..255) /\ UNCHANGED <<held, pc, i, lshift, rshift>>
        /\ out' = out \/ out' = Append(out, Reply)
    BY DEF TakeInput, keyboard, init, driver, Typed, TypeOK
  <1>2. Stale' = Stale
    BY <1>1 DEF Stale
  <1>3. CASE out' = out
    BY <1>1, <1>2, <1>3, SameOut
  <1>4. CASE out' # out
    <2>1. ibf /\ port.command = RCTR /\ out' = Append(out, Reply)
      BY <1>1, <1>4 DEF TakeInput
    <2>2. kctr \in InitialCtrs
      BY <2>1 DEF FirstAnswer
    <2>3. Reply \in 0..127 /\ Reply \notin {LSHIFT, RSHIFT}
      BY <2>2, ControlByteIsByte DEF Reply, QuietStart
    <2>4. Code(Reply) = Reply
      BY <2>3 DEF Code
    <2>5. out' = out \o <<Reply>>
      BY <2>1, <1>1
    <2>6. <<Reply>> \in Seq(0..255) /\ Len(<<Reply>>) = 1 /\ <<Reply>>[1] = Reply
      BY <2>3
    <2>7. ASSUME NEW key, key \in {LSHIFT, RSHIFT}, NEW d \in Nat
          PROVE  /\ MakeLast(out', d, key) => MakeLast(out, d, key)
                 /\ NoneOf(out', key) => NoneOf(out, key)
      <3>1. \A j \in 1..Len(<<Reply>>) : Code(<<Reply>>[j]) # key
        BY <2>3, <2>4, <2>6, <2>7
      <3> QED BY <1>1, <2>5, <2>6, <3>1, MoreBytes, ZenonT(60)
    <2>8. Stale \in Nat
      BY StaleCount
    <2>9. /\ Held(LSHIFT)' <=> Held(LSHIFT)
          /\ Held(RSHIFT)' <=> Held(RSHIFT)
      BY <1>1 DEF Held
    <2>10. /\ MakeLast(out', Stale, LSHIFT) => MakeLast(out, Stale, LSHIFT)
           /\ NoneOf(out', LSHIFT) => NoneOf(out, LSHIFT)
      BY <2>7, <2>8
    <2>11. /\ MakeLast(out', Stale, RSHIFT) => MakeLast(out, Stale, RSHIFT)
           /\ NoneOf(out', RSHIFT) => NoneOf(out, RSHIFT)
      BY <2>7, <2>8
    <2> QED BY <1>1, <1>2, <2>9, <2>10, <2>11 DEF ToldAll, ToldLast, ToldNow
  <1> QED BY <1>3, <1>4

\* Keys.
LEMMA KeyTold ==
    ASSUME PlainKeys, Typed, Flushing, ToldAll, NEW k \in Keys, Press(k) \/ Release(k)
    PROVE  ToldAll'
  <1>1. UNCHANGED <<pc, i, lshift, rshift>>
    BY DEF Press, Release, Send, init, driver
  <1>2. Stale' = Stale /\ Stale \in Nat
    BY <1>1, StaleCount DEF Stale
  <1>3. ASSUME NEW key \in Nat, key \in {LSHIFT, RSHIFT}
        PROVE  /\ (MakeLast(out, Stale, key) => Held(key)) => (MakeLast(out', Stale, key) => Held(key)')
               /\ (NoneOf(out, key) => Held(key)) => (NoneOf(out', key) => Held(key)')
    BY <1>2, <1>3, SendKeepsTold
  <1>4. /\ (MakeLast(out, Stale, LSHIFT) => Held(LSHIFT)) => (MakeLast(out', Stale, LSHIFT) => Held(LSHIFT)')
        /\ (NoneOf(out, LSHIFT) => Held(LSHIFT)) => (NoneOf(out', LSHIFT) => Held(LSHIFT)')
    BY <1>3, ShiftCodes
  <1>5. /\ (MakeLast(out, Stale, RSHIFT) => Held(RSHIFT)) => (MakeLast(out', Stale, RSHIFT) => Held(RSHIFT)')
        /\ (NoneOf(out, RSHIFT) => Held(RSHIFT)) => (NoneOf(out', RSHIFT) => Held(RSHIFT)')
    BY <1>3, ShiftCodes
  <1> QED BY <1>1, <1>2, <1>4, <1>5 DEF ToldAll, ToldLast, ToldNow

LEMMA SSteps ==
    ASSUME PlainKeys, QuietStart, SInv, [Next]_vars
    PROVE  SInv'
  <1>1. Typed' /\ Flushing' /\ FirstAnswer'
    BY TypedSteps, FlowSteps DEF SInv
  <1>2. CASE Flush
    BY <1>1, <1>2, FlushTold DEF SInv
  <1>3. CASE FlushDone
    <2>1. UNCHANGED <<out, held, lshift, rshift>> /\ Stale' = 0
      BY <1>3 DEF FlushDone, BeginCommand, controller, keyboard, driver, Stale
    <2>2. Stale = 0 \/ out = <<>>
      BY <1>3, KeyboardAssumption DEF FlushDone, Stale, SInv, Flushing
    <2> QED BY <1>1, <2>1, <2>2, SameOut DEF SInv
  <1>4. CASE WaitWrite \/ WaitDone \/ WriteByte \/ Unmask
    <2>1. UNCHANGED <<out, held, lshift, rshift>> /\ pc # "flush" /\ pc' # "flush"
      BY <1>4 DEF WaitWrite, WaitDone, WaitResult, WriteByte, BeginCommand, Unmask,
                  controller, keyboard, driver
    <2>2. Stale' = Stale
      BY <2>1 DEF Stale
    <2> QED BY <1>1, <2>1, <2>2, SameOut DEF SInv
  <1>5. CASE KeyboardIrq
    <2>1. CASE out # <<>>
      BY <1>1, <1>5, <2>1, IrqTold DEF SInv
    <2>2. CASE out = <<>>
      <3>1. UNCHANGED <<out, held, lshift, rshift, pc, i>>
        BY <1>5, <2>2 DEF KeyboardIrq, keyboard, init, driver
      <3>2. Stale' = Stale
        BY <3>1 DEF Stale
      <3> QED BY <1>1, <3>1, <3>2, SameOut DEF SInv
    <2> QED BY <2>1, <2>2
  <1>6. CASE TakeInput
    BY <1>1, <1>6, AnswerTold DEF SInv
  <1>7. ASSUME NEW k \in Keys, Press(k) \/ Release(k) PROVE SInv'
    BY <1>1, <1>7, KeyTold DEF SInv
  <1>8. CASE UNCHANGED vars
    <2>1. UNCHANGED <<out, held, lshift, rshift, pc, i>>
      BY <1>8 DEF vars, controller, keyboard, init, driver
    <2>2. Stale' = Stale
      BY <2>1 DEF Stale
    <2> QED BY <1>1, <2>1, <2>2, SameOut DEF SInv
  <1> QED BY <1>2, <1>3, <1>4, <1>5, <1>6, <1>7, <1>8 DEF Next, InitStep, Idle

LEMMA SInit ==
    ASSUME QuietStart, Init
    PROVE  SInv
  <1>1. Flushing /\ FirstAnswer
    BY KeyboardAssumption DEF Init, Flushing, FirstAnswer, RCTR, WCTR
  <1>2. out \in Leftovers /\ out \in Seq(0..255) /\ Stale = FlushLength
    BY KeyboardAssumption DEF Init, Stale
  <1>3. Len(out) \in Nat /\ Len(out) <= Stale /\ Stale \in Nat
    BY <1>2, KeyboardAssumption DEF QuietStart
  <1>4. \A key : ~MakeLast(out, Stale, key)
    BY <1>3 DEF MakeLast
  <1>5. ToldAll
    BY <1>4 DEF Init, ToldAll, ToldLast, ToldNow
  <1> QED BY <1>1, <1>5, TypedInit DEF SInv

\* Shift is on, once everything is read, only while a shift key is held, for
\* every keyboard whose other keys send no shift code and every start with no
\* more than the flush can drop: the break code can be late but is never lost.
THEOREM ShiftReleased ==
    ASSUME PlainKeys, QuietStart
    PROVE  Spec => []ShiftNotStuck
  <1>1. Init => SInv
    BY SInit
  <1>2. SInv /\ [Next]_vars => SInv'
    BY SSteps
  <1>3. SInv => ShiftNotStuck
    <2>1. out = <<>> => NoneOf(out, LSHIFT) /\ NoneOf(out, RSHIFT)
      BY DEF NoneOf
    <2> QED BY <2>1 DEF SInv, ToldAll, ToldNow, Held, ShiftNotStuck
  <1> QED BY <1>1, <1>2, <1>3, PTL DEF Spec
=============================================================================
