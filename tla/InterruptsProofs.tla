-------------------------- MODULE InterruptsProofs --------------------------
(* Proofs that interrupts do not nest, that the masks are the ones the        *)
(* drivers asked for, that the timer is read in one piece, that the handlers  *)
(* end every interrupt in each controller it is in service in, that they find *)
(* the frame they expect, and that Interrupts implements IrqService, for      *)
(* every set of devices, drivers and faults and every countdown.              *)
EXTENDS Interrupts, SequenceTheorems, TLAPS

ChipState == [irr : SUBSET Lines, isr : SUBSET Lines, imr : SUBSET Lines,
              icw : Seq(SUBSET Lines)]
PicState  == [1..2 -> ChipState]

\* p and q have the same masks and the same initialisation words.
SameSetup(p, q) == \A c \in 1..2 : q[c].imr = p[c].imr /\ q[c].icw = p[c].icw

-----------------------------------------------------------------------------
(* The operators of Pic *)

\* Lines and chips.
LEMMA LineAndChip ==
    ASSUME NEW i \in Irqs
    PROVE  Chip(i) \in 1..2 /\ Line(i) \in Lines /\ MaskBit(i) = Line(i)
  BY DEF Irqs, Chip, Line, Lines, MaskBit

\* An interrupt is told by its chip and its line.
LEMMA LineOfOne ==
    ASSUME NEW i \in Irqs, NEW j \in Irqs, Chip(i) = Chip(j), Line(i) = Line(j)
    PROVE  i = j
  BY DEF Irqs, Chip, Line

\* A device's request leaves the setup alone.
LEMMA RequestKeeps ==
    ASSUME NEW p \in PicState, NEW i \in Irqs
    PROVE  Request(p, i) \in PicState /\ SameSetup(p, Request(p, i))
  BY LineAndChip DEF Request, PicState, ChipState, SameSetup

\* So does taking it back.
LEMMA WithdrawKeeps ==
    ASSUME NEW p \in PicState, NEW i \in Irqs
    PROVE  Withdraw(p, i) \in PicState /\ SameSetup(p, Withdraw(p, i))
  BY LineAndChip DEF Withdraw, PicState, ChipState, SameSetup

\* And an interrupt that goes into service.
LEMMA ServeKeeps ==
    ASSUME NEW p \in PicState, NEW i \in Irqs
    PROVE  Serve(p, i) \in PicState /\ SameSetup(p, Serve(p, i))
  BY LineAndChip DEF Serve, PicState, ChipState, SameSetup

\* Both kinds of acknowledge cycle.
LEMMA AcknowledgeKeeps ==
    ASSUME NEW p \in PicState, NEW i \in Irqs
    PROVE  /\ Acknowledge(p, i) \in PicState /\ SameSetup(p, Acknowledge(p, i))
           /\ AcknowledgeLate(p, i) \in PicState /\ SameSetup(p, AcknowledgeLate(p, i))
  <1> DEFINE w == Withdraw(p, i)
             s == Serve(w, CascadeLine)
  <1>1. CascadeLine \in Irqs
    BY DEF CascadeLine, Irqs
  <1>2. w \in PicState /\ SameSetup(p, w)
    BY WithdrawKeeps
  <1> HIDE DEF w
  <1>3. s \in PicState /\ SameSetup(w, s)
    BY <1>1, <1>2, ServeKeeps
  <1> HIDE DEF s
  <1>4. Serve(w, i) \in PicState /\ SameSetup(w, Serve(w, i))
    BY <1>2, ServeKeeps
  <1>5. Serve(s, i) \in PicState /\ SameSetup(s, Serve(s, i))
    BY <1>3, ServeKeeps
  <1>6. /\ SameSetup(p, s) /\ SameSetup(p, Serve(w, i)) /\ SameSetup(p, Serve(s, i))
    BY <1>2, <1>3, <1>4, <1>5 DEF SameSetup
  <1>7. /\ Acknowledge(p, i) = IF i < 8 THEN Serve(w, i) ELSE Serve(s, i)
        /\ AcknowledgeLate(p, i) = IF i < 8 THEN w ELSE s
    BY DEF Acknowledge, AcknowledgeLate, w, s
  <1> QED BY <1>2, <1>3, <1>4, <1>5, <1>6, <1>7

\* The controllers after an EOI to one.
AfterEoi(p, c) == [p EXCEPT ![c] = Command(@, PIC_EOI)]

\* An EOI only ends a service.
LEMMA EoiKeeps ==
    ASSUME NEW p \in PicState, NEW c \in 1..2
    PROVE  AfterEoi(p, c) \in PicState /\ SameSetup(p, AfterEoi(p, c))
  <1>1. Command(p[c], PIC_EOI) = [p[c] EXCEPT !.isr = IF @ = {} THEN @ ELSE @ \ {Min(@)}]
    BY DEF Command, PIC_EOI, ICW1_INIT
  <1>2. p[c] \in ChipState
    BY DEF PicState
  <1>3. /\ Command(p[c], PIC_EOI) \in ChipState
        /\ Command(p[c], PIC_EOI).imr = p[c].imr /\ Command(p[c], PIC_EOI).icw = p[c].icw
    BY <1>1, <1>2 DEF ChipState
  <1> HIDE DEF Command
  <1> QED BY <1>3 DEF PicState, SameSetup, AfterEoi

\* The controllers after a byte to the data port of one.
AfterData(p, c, bits) == [p EXCEPT ![c] = Data(@, bits)]

\* A byte to the data port is a word of the setup, or the mask.
LEMMA DataWrites ==
    ASSUME NEW p \in PicState, NEW c \in 1..2, NEW bits \in SUBSET Lines
    PROVE  LET q == AfterData(p, c, bits)
           IN  /\ q \in PicState
               /\ \A d \in 1..2 \ {c} : q[d] = p[d]
               /\ Len(p[c].icw) < 3 => /\ q[c].imr = p[c].imr
                                       /\ Len(q[c].icw) = Len(p[c].icw) + 1
               /\ Len(p[c].icw) >= 3 => q[c].imr = bits /\ q[c].icw = p[c].icw
  <1>1. p[c] \in ChipState
    BY DEF PicState
  <1>2. /\ Len(p[c].icw) \in Nat
        /\ Append(p[c].icw, bits) \in Seq(SUBSET Lines)
        /\ Len(Append(p[c].icw, bits)) = Len(p[c].icw) + 1
    BY <1>1, AppendProperties, LenProperties DEF ChipState
  <1> DEFINE d == Data(p[c], bits)
             q == AfterData(p, c, bits)
  <1>3. CASE Len(p[c].icw) < 3
    <2>1. d = [p[c] EXCEPT !.icw = Append(@, bits)]
      BY <1>3 DEF Data
    <2>2. d \in ChipState /\ d.imr = p[c].imr /\ d.icw = Append(p[c].icw, bits)
      BY <1>1, <1>2, <2>1 DEF ChipState
    <2> HIDE DEF d
    <2>3. q = [p EXCEPT ![c] = d]
      BY DEF d, AfterData
    <2> QED BY <1>2, <1>3, <2>2, <2>3 DEF PicState
  <1>4. CASE ~(Len(p[c].icw) < 3)
    <2>1. d = [p[c] EXCEPT !.imr = bits]
      BY <1>4 DEF Data
    <2>2. d \in ChipState /\ d.imr = bits /\ d.icw = p[c].icw
      BY <1>1, <2>1 DEF ChipState
    <2> HIDE DEF d
    <2>3. q = [p EXCEPT ![c] = d]
      BY DEF d, AfterData
    <2> QED BY <1>2, <1>4, <2>2, <2>3 DEF PicState
  <1> QED BY <1>3, <1>4

\* ICW1 clears a chip and starts its setup.
LEMMA Icw1Clears ==
    ASSUME NEW p \in PicState, NEW c \in 1..2
    PROVE  LET q == [p EXCEPT ![c] = Command(@, {ICW1_INIT, ICW1_ICW4})]
           IN  /\ q \in PicState
               /\ \A d \in 1..2 \ {c} : q[d] = p[d]
               /\ Len(q[c].icw) = 0
  <1> DEFINE d == Command(p[c], {ICW1_INIT, ICW1_ICW4})
             q == [p EXCEPT ![c] = Command(@, {ICW1_INIT, ICW1_ICW4})]
  <1>1. d = [irr |-> {}, isr |-> {}, imr |-> {}, icw |-> <<>>]
    BY DEF Command
  <1>2. d \in ChipState /\ d.icw = <<>>
    <2>1. \A e \in Seq(SUBSET Lines) :
              [irr |-> {}, isr |-> {}, imr |-> {}, icw |-> e] \in ChipState
      BY DEF ChipState
    <2>2. <<>> \in Seq(SUBSET Lines)
      OBVIOUS
    <2>3. d \in ChipState
      BY <1>1, <2>1, <2>2
    <2> QED BY <1>1, <2>3
  <1> HIDE DEF d
  <1>3. q = [p EXCEPT ![c] = d]
    BY DEF d
  <1> HIDE DEF q
  <1>4. q \in PicState /\ q[c] = d /\ \A e \in 1..2 \ {c} : q[e] = p[e]
    BY <1>2, <1>3 DEF PicState
  <1> QED BY <1>2, <1>4 DEF q

-----------------------------------------------------------------------------
(* The inductive invariant *)

Places == {"pic_init", "pit_command", "pit_lo", "pit_hi", "client", "read_lo",
           "read_hi", "restore", "eoi", "mask_in", "mask_out"}

Typed ==
    /\ pic \in PicState
    /\ pit \in [mode : {"bios", "stopped", "running"}, count : Int, lo : Int,
                latch : Seq(Int), high : BOOLEAN]
    /\ saved \in [1..2 -> SUBSET Lines]
    /\ call \in [irq : Irqs, set : BOOLEAN, next : {"client", "restore"}]
    /\ opened \subseteq Irqs /\ at \in Places /\ n \in Int /\ seen \subseteq Int

\* There is one frame at most, and none while interrupts are on.
Stacked == frames = <<>> \/ (~intFlag /\ \E S : frames \in Seq(S) /\ Len(frames) = 1)

\* How far the setup of each controller has come, by the writes made.
Words(c) ==
    IF at # "pic_init" THEN 3
    ELSE IF n <= c THEN 3 ELSE IF n <= c + 2 THEN 0
    ELSE IF n <= c + 4 THEN 1 ELSE IF n <= c + 6 THEN 2 ELSE 3

SetUp ==
    /\ Len(pic[1].icw) = Words(1) /\ Len(pic[2].icw) = Words(2)
    /\ at = "pic_init" => n \in 0..12 /\ opened = {}
    /\ at = "pic_init" /\ n = 12 => pic[1].imr = Lines

\* The mask of line i is as asked for.
Agrees(i) == Line(i) \in pic[Chip(i)].imr <=> i \notin opened

Changing == at \in {"eoi", "mask_in", "mask_out"}

\* Between two calls every line is masked as asked for; during pic_set_mask
\* every line but its own, whose mask it is about to write.
Masked ==
    /\ at # "pic_init" =>
          \A i \in Irqs : (Changing /\ i = call.irq) \/ Agrees(i)
    /\ Changing => (call.irq \in opened <=> ~call.set)
    /\ at = "mask_out" =>
          LET mask == pic[Chip(call.irq)].imr
          IN  saved[1] = IF call.set THEN mask \cup {Line(call.irq)}
                                     ELSE mask \ {Line(call.irq)}

\* What is latched is the two digits of a count seen since.
CountKept ==
    /\ at \notin {"read_lo", "read_hi", "restore"} => seen = {}
    /\ at = "read_lo" =>
          \E k \in seen : pit.latch = <<k % ByteBase, k \div ByteBase>>
    /\ at = "read_hi" =>
          \E k \in seen : pit.latch = <<k \div ByteBase>> /\ val = k % ByteBase
    /\ at = "restore" /\ seen # {} => val \in seen

IInv == Typed /\ Stacked /\ SetUp /\ Masked /\ CountKept

\* Whatever leaves the setup of the controllers and the task alone.
LEMMA SetupKept ==
    ASSUME IInv, pic' \in PicState, SameSetup(pic, pic'),
           UNCHANGED <<at, n, opened, saved, call>>
    PROVE  SetUp' /\ Masked'
  <1>1. pic'[1].icw = pic[1].icw /\ pic'[2].icw = pic[2].icw /\ pic'[1].imr = pic[1].imr
    BY DEF SameSetup
  <1>2. SetUp'
    BY <1>1 DEF IInv, SetUp, Words
  <1>3. \A i \in Irqs : pic'[Chip(i)].imr = pic[Chip(i)].imr
    BY LineAndChip DEF SameSetup
  <1>4. \A i \in Irqs : Agrees(i)' <=> Agrees(i)
    BY <1>3 DEF Agrees
  <1>5. pic'[Chip(call.irq)].imr = pic[Chip(call.irq)].imr
    BY <1>3 DEF IInv, Typed
  <1>6. Masked'
    BY <1>4, <1>5 DEF IInv, Masked, Changing
  <1> QED BY <1>2, <1>6

\* Whatever leaves the timer and its reader alone.
LEMMA CountUndisturbed ==
    ASSUME IInv, UNCHANGED <<at, seen, val>>, pit'.latch = pit.latch
    PROVE  CountKept'
  BY DEF IInv, CountKept

\* The timer counts on.
LEMMA CountsOn ==
    ASSUME IInv, Count, UNCHANGED <<at, val>>
    PROVE  /\ CountKept' /\ seen' \subseteq Int
           /\ pit' \in [mode : {"bios", "stopped", "running"}, count : Int, lo : Int,
                        latch : Seq(Int), high : BOOLEAN]
  <1>1. pit.count \in Int /\ Countdown \in Int
    BY InterruptsAssumption DEF IInv, Typed
  <1>2. NextCount(pit.count) \in Int
    BY <1>1 DEF NextCount
  <1>3. pit'.latch = pit.latch
    BY DEF Count, IInv, Typed
  <1>4. (seen = {} => seen' = {}) /\ seen \subseteq seen'
    BY DEF Count
  <1>5. CountKept'
    BY <1>3, <1>4 DEF IInv, CountKept
  <1> QED BY <1>2, <1>5 DEF Count, IInv, Typed

-----------------------------------------------------------------------------
(* The steps *)

\* An interrupt or an exception finds no frame and leaves one.
LEMMA Entered ==
    ASSUME Stacked, intFlag \/ frames = <<>>, NEW v, NEW hc, Enter(v, hc)
    PROVE  Stacked'
  <1>1. frames = <<>>
    BY DEF Stacked
  <1>2. PICK f : frames' = Append(<<>>, f)
    BY <1>1 DEF Enter
  <1>3. <<>> \in Seq({f}) /\ Len(<<>>) = 0
    OBVIOUS
  <1>4. frames' \in Seq({f}) /\ Len(frames') = 1
    BY <1>2, <1>3, AppendProperties
  <1>5. ~intFlag'
    BY DEF Enter, Gate
  <1> QED BY <1>4, <1>5 DEF Stacked

\* A handler that goes on keeps its frame.
LEMMA HandlerGoesOn ==
    ASSUME Stacked, frames # <<>>, NEW l, Then(l), ~intFlag'
    PROVE  Stacked'
  <1>1. PICK S : frames \in Seq(S) /\ Len(frames) = 1
    BY DEF Stacked
  <1> DEFINE f == [frames[1] EXCEPT !.at = l]
  <1>2. frames' = [frames EXCEPT ![1] = f]
    BY <1>1 DEF Then
  <1> HIDE DEF f
  <1>3. frames \in Seq(S \cup {f})
    BY <1>1, SeqMonotonic
  <1>4. frames' \in Seq(S \cup {f}) /\ Len(frames') = 1
    BY <1>1, <1>2, <1>3, ExceptSeq
  <1> QED BY <1>4 DEF Stacked

\* The devices and the timer chip run, or an interrupt is accepted.
LEMMA HardwareStep ==
    ASSUME IInv, Hardware
    PROVE  IInv'
  <1>1. Devices \subseteq Irqs /\ TIMER \in Irqs
    BY InterruptsAssumption DEF Irqs, TIMER
  <1>2. pic' \in PicState /\ SameSetup(pic, pic')
    <2>1. CASE Clock
      <3>1. pic' \in {Request(pic, TIMER), Withdraw(pic, TIMER), pic}
        BY <2>1 DEF Clock
      <3>2. pic \in PicState
        BY DEF IInv, Typed
      <3>3. CASE pic' = Request(pic, TIMER)
        BY <1>1, <3>2, <3>3, RequestKeeps
      <3>4. CASE pic' = Withdraw(pic, TIMER)
        BY <1>1, <3>2, <3>4, WithdrawKeeps
      <3>5. CASE pic' = pic
        BY <3>2, <3>5 DEF SameSetup
      <3> QED BY <3>1, <3>3, <3>4, <3>5
    <2>2. ASSUME NEW i \in Devices, Raise(i) PROVE pic' \in PicState /\ SameSetup(pic, pic')
      BY <1>1, <2>2, RequestKeeps DEF Raise, IInv, Typed
    <2>3. ASSUME NEW i \in Devices, Accept(i) PROVE pic' \in PicState /\ SameSetup(pic, pic')
      BY <1>1, <2>3, AcknowledgeKeeps DEF Accept, IInv, Typed
    <2>4. ASSUME NEW i \in Devices, AcceptLate(i)
          PROVE  pic' \in PicState /\ SameSetup(pic, pic')
      BY <1>1, <2>4, AcknowledgeKeeps DEF AcceptLate, IInv, Typed
    <2> QED BY <2>1, <2>2, <2>3, <2>4 DEF Hardware
  <1>3. UNCHANGED <<at, n, saved, call, val, opened>>
    BY DEF Hardware, Clock, Raise, Accept, AcceptLate, task
  <1>4. SetUp' /\ Masked'
    BY <1>2, <1>3, SetupKept
  <1>5. Count \/ UNCHANGED <<pit, seen>>
    BY DEF Hardware, Clock, Raise, Accept, AcceptLate, task
  <1>6. CountKept' /\ Typed'
    BY <1>2, <1>3, <1>5, CountsOn, CountUndisturbed DEF IInv, Typed
  <1>7. Stacked'
    <2>1. CASE UNCHANGED <<intFlag, frames>>
      BY <2>1 DEF IInv, Stacked
    <2>2. CASE intFlag /\ \E v : Enter(v, FALSE)
      BY <2>2, Entered DEF IInv
    <2> QED BY <2>1, <2>2 DEF Hardware, Clock, Raise, Accept, AcceptLate
  <1> QED BY <1>4, <1>6, <1>7 DEF IInv

\* The handler runs.
LEMMA HandlerStep ==
    ASSUME IInv, Handler
    PROVE  IInv'
  <1>1. UNCHANGED <<pit, task>>
    BY DEF Handler, Dispatch, IrqEoiSlave, IrqEoiMaster, IrqDriver, Iret, Die, hardware
  <1>2. pic' \in PicState /\ SameSetup(pic, pic')
    <2>1. CASE UNCHANGED pic
      BY <2>1 DEF IInv, Typed, SameSetup
    <2>2. ASSUME NEW c \in 1..2, HandlerEoi(c) PROVE pic' \in PicState /\ SameSetup(pic, pic')
      BY <2>2, EoiKeeps DEF HandlerEoi, AfterEoi, IInv, Typed
    <2> QED BY <2>1, <2>2
        DEF Handler, Dispatch, IrqEoiSlave, IrqEoiMaster, IrqDriver, Iret, Die, hardware
  <1>3. SetUp' /\ Masked' /\ CountKept' /\ Typed'
    BY <1>1, <1>2, SetupKept, CountUndisturbed DEF task, IInv, Typed
  <1>4. Stacked'
    <2>1. frames # <<>>
      BY DEF Handler, Dispatch, IrqEoiSlave, IrqEoiMaster, IrqDriver, Iret, Die, In
    <2>2. PICK S : frames \in Seq(S) /\ Len(frames) = 1 /\ ~intFlag
      BY <2>1 DEF IInv, Stacked
    <2>3. CASE Iret
      <3>1. frames' = SubSeq(frames, 1, 0)
        BY <2>2, <2>3 DEF Iret
      <3> QED BY <3>1, SubSeqEmpty DEF Stacked
    <2>4. CASE Die
      BY <2>4 DEF IInv, Stacked, Die
    <2>5. CASE Dispatch \/ IrqEoiSlave \/ IrqEoiMaster \/ IrqDriver
      <3>1. ~intFlag' /\ \E l : Then(l)
        BY <2>2, <2>5 DEF Dispatch, IrqEoiSlave, IrqEoiMaster, IrqDriver
      <3> QED BY <2>1, <3>1, HandlerGoesOn DEF IInv
    <2> QED BY <2>3, <2>4, <2>5 DEF Handler
  <1> QED BY <1>3, <1>4 DEF IInv

\* A task step needs an empty stack, and leaves it empty.
LEMMA TaskAlone ==
    ASSUME frames = <<>>, frames' = frames
    PROVE  Stacked'
  BY DEF Stacked

\* pic_init reads the masks it finds.
LEMMA SaveMasksStep ==
    ASSUME IInv, SaveMasks
    PROVE  IInv'
  <1>1. saved' = <<pic[1].imr, pic[2].imr>> /\ pic[1] \in ChipState /\ pic[2] \in ChipState
    BY DEF SaveMasks, IInv, Typed, PicState
  <1>2. saved' \in [1..2 -> SUBSET Lines]
    BY <1>1 DEF ChipState
  <1>3. UNCHANGED <<pic, pit, at, call, val, opened, seen>> /\ n = 0 /\ n' = 1
    BY DEF SaveMasks, hardware
  <1>4. Typed' /\ CountKept'
    BY <1>2, <1>3, CountUndisturbed DEF IInv, Typed
  <1>5. at = "pic_init" /\ frames = <<>> /\ frames' = frames
    BY DEF SaveMasks, AtTask
  <1>6. SetUp' /\ Masked'
    BY <1>3, <1>5 DEF IInv, SetUp, Words, Masked, Changing
  <1> QED BY <1>4, <1>5, <1>6, TaskAlone DEF IInv

\* What the writes of pic_init are.
LEMMA WritesByNumber ==
    ASSUME NEW k \in 1..12
    PROVE  LET w == PicWrites[k]
           IN  /\ w.chip = IF k % 2 = 1 THEN 1 ELSE 2
               /\ k \in 1..2 => w.port = "command" /\ w.bits = {ICW1_INIT, ICW1_ICW4}
               /\ k \in 3..12 => w.port = "data"
               /\ k \in 3..8 => w.bits \subseteq Lines
               /\ k \in 9..10 => w.bits = saved[IF k = 9 THEN 1 ELSE 2]
               /\ k \in 11..12 => w.bits = Lines
  <1>1. {0} \subseteq Lines /\ \A j : Bits(j) \subseteq Lines
    BY DEF Lines, Bits
  <1> HIDE DEF Bits, Lines
  <1>2. CASE k \in 1..2
    BY <1>2 DEF PicWrites
  <1>3. CASE k \in 3..4
    BY <1>1, <1>3, SMTT(30) DEF PicWrites
  <1>4. CASE k \in 5..6
    BY <1>1, <1>4, SMTT(30) DEF PicWrites
  <1>5. CASE k \in 7..8
    BY <1>1, <1>5, SMTT(30) DEF PicWrites
  <1>6. CASE k \in 9..10
    BY <1>6 DEF PicWrites
  <1>7. CASE k \in 11..12
    BY <1>7 DEF PicWrites
  <1> QED BY <1>2, <1>3, <1>4, <1>5, <1>6, <1>7

\* A write of pic_init.
LEMMA PicWriteStep ==
    ASSUME IInv, PicWrite
    PROVE  IInv'
  <1> DEFINE w == PicWrites[n]
             c == w.chip
  <1>1. /\ at = "pic_init" /\ frames = <<>> /\ n \in 1..12 /\ n' = n + 1
        /\ at' = (IF n = 12 THEN "pit_command" ELSE at)
        /\ UNCHANGED <<pit, frames, saved, call, val, opened, seen>>
        /\ opened = {}
    BY DEF PicWrite, AtTask, IInv, SetUp
  <1>2. c = IF n % 2 = 1 THEN 1 ELSE 2
    BY <1>1, WritesByNumber
  <1>3. /\ pic \in PicState /\ saved \in [1..2 -> SUBSET Lines]
        /\ pic[1] \in ChipState /\ pic[2] \in ChipState
    BY DEF IInv, Typed, PicState
  <1>4. pic' = [pic EXCEPT ![c] = IF w.port = "command" THEN Command(@, w.bits)
                                                         ELSE Data(@, w.bits)]
    BY DEF PicWrite
  <1>5. /\ n \in 1..2 => w.port = "command" /\ w.bits = {ICW1_INIT, ICW1_ICW4}
        /\ n \in 3..12 => w.port = "data" /\ w.bits \in SUBSET Lines
        /\ n \in 11..12 => w.bits = Lines
    BY <1>1, <1>3, WritesByNumber
  <1> HIDE DEF w, c
  <1>6. c \in 1..2
    BY <1>2
  <1>7. /\ pic' \in PicState
        /\ Len(pic'[1].icw) = Words(1)' /\ Len(pic'[2].icw) = Words(2)'
        /\ n = 11 => pic'[1].imr = Lines
        /\ n = 12 => pic'[1].imr = pic[1].imr /\ pic'[2].imr = Lines
    <2>1. Len(pic[1].icw) = Words(1) /\ Len(pic[2].icw) = Words(2)
      BY DEF IInv, SetUp
    <2>2. CASE n \in 1..2
      <3>1. pic' = [pic EXCEPT ![c] = Command(@, {ICW1_INIT, ICW1_ICW4})]
        BY <1>4, <1>5, <2>2
      <3>2. /\ pic' \in PicState /\ Len(pic'[c].icw) = 0
            /\ \A d \in 1..2 \ {c} : pic'[d] = pic[d]
        BY <1>6, <1>3, <3>1, Icw1Clears, ZenonT(60)
      <3> QED BY <1>1, <1>2, <2>1, <2>2, <3>2 DEF Words
    <2>3. CASE n \in 3..12
      <3> DEFINE b == w.bits
                 q == AfterData(pic, c, b)
      <3>1. pic' = q /\ b \in SUBSET Lines
        BY <1>4, <1>5, <2>3 DEF AfterData
      <3> HIDE DEF b
      <3>2. /\ q \in PicState
            /\ \A d \in 1..2 \ {c} : q[d] = pic[d]
            /\ Len(pic[c].icw) < 3 => /\ q[c].imr = pic[c].imr
                                      /\ Len(q[c].icw) = Len(pic[c].icw) + 1
            /\ Len(pic[c].icw) >= 3 => q[c].imr = b /\ q[c].icw = pic[c].icw
        BY <1>3, <1>6, <3>1, DataWrites
      <3> HIDE DEF q
      <3>3. /\ pic' \in PicState
            /\ \A d \in 1..2 \ {c} : pic'[d] = pic[d]
            /\ Len(pic[c].icw) < 3 => /\ pic'[c].imr = pic[c].imr
                                      /\ Len(pic'[c].icw) = Len(pic[c].icw) + 1
            /\ Len(pic[c].icw) >= 3 => pic'[c].imr = b /\ pic'[c].icw = pic[c].icw
        BY <3>1, <3>2
      <3> QED BY <1>1, <1>2, <1>5, <2>1, <2>3, <3>3 DEF Words, b
    <2> QED BY <1>1, <2>2, <2>3
  <1>8. Typed'
    BY <1>1, <1>7 DEF IInv, Typed, Places
  <1>9. SetUp'
    BY <1>1, <1>7 DEF IInv, SetUp
  <1>10. Masked'
    <2>1. CASE n # 12
      BY <1>1, <2>1 DEF Masked, Changing
    <2>2. CASE n = 12
      <3>1. pic'[1].imr = Lines /\ pic'[2].imr = Lines
        BY <1>1, <1>7, <2>2 DEF IInv, SetUp
      <3>2. \A i \in Irqs : Agrees(i)'
        BY <1>1, <3>1, LineAndChip DEF Agrees
      <3> QED BY <1>1, <2>2, <3>2 DEF Masked, Changing
    <2> QED BY <2>1, <2>2
  <1>11. CountKept'
    BY <1>1 DEF IInv, CountKept
  <1> QED BY <1>1, <1>8, <1>9, <1>10, <1>11, TaskAlone DEF IInv

\* After pic_init the setup stays as it is.
LEMMA SetUpStays ==
    ASSUME IInv, at # "pic_init", at' # "pic_init", SameSetup(pic, pic')
    PROVE  SetUp'
  BY DEF IInv, SetUp, Words, SameSetup

\* The steps of pit_init.
LEMMA PitStep ==
    ASSUME IInv, PitCommand \/ PitLow \/ PitHigh
    PROVE  IInv'
  <1>1. /\ frames = <<>> /\ frames' = frames /\ pic' = pic
        /\ at \in {"pit_command", "pit_lo", "pit_hi"} /\ at' \in {"pit_lo", "pit_hi", "eoi"}
        /\ UNCHANGED <<saved, seen, n>>
    BY DEF PitCommand, PitLow, PitHigh, AtTask
  <1>2. SetUp'
    BY <1>1, SetUpStays DEF SameSetup
  <1>3. CountKept'
    BY <1>1 DEF IInv, CountKept
  <1>4. /\ Countdown \in Int /\ ByteBase \in Int \ {0} /\ pit.lo \in Int
        /\ Countdown % ByteBase \in Int
        /\ pit.lo + ByteBase * (Countdown \div ByteBase) \in Int
    BY InterruptsAssumption DEF IInv, Typed
  <1>5. Typed'
    <2>1. CASE PitCommand \/ PitLow
      BY <1>1, <1>4, <2>1 DEF IInv, Typed, Places, PitCommand, PitLow
    <2>2. CASE PitHigh
      <3>1. TIMER \in Irqs
        BY DEF TIMER, Irqs
      <3>2. call' = [irq |-> TIMER, set |-> FALSE, next |-> "restore"]
            /\ opened' = opened \cup {TIMER} /\ at' = "eoi"
        BY <2>2 DEF PitHigh
      <3>3. pit' = [pit EXCEPT !.mode = "running", !.lo = 0,
                      !.count = pit.lo + ByteBase * (Countdown \div ByteBase)]
        BY <2>2 DEF PitHigh
      <3>4. pit' \in [mode : {"bios", "stopped", "running"}, count : Int, lo : Int,
                      latch : Seq(Int), high : BOOLEAN]
        <4> DEFINE k == pit.lo + ByteBase * (Countdown \div ByteBase)
        <4>1. pit' = [pit EXCEPT !.mode = "running", !.lo = 0, !.count = k] /\ k \in Int
          BY <1>4, <3>3
        <4> HIDE DEF k
        <4>2. pit' = [mode |-> "running", count |-> k, lo |-> 0, latch |-> pit.latch,
                      high |-> pit.high]
          BY <4>1 DEF IInv, Typed
        <4>3. pit.latch \in Seq(Int) /\ pit.high \in BOOLEAN
          BY DEF IInv, Typed
        <4> QED BY <4>1, <4>2, <4>3
      <3>5. call' \in [irq : Irqs, set : BOOLEAN, next : {"client", "restore"}]
        BY <3>1, <3>2
      <3> QED BY <1>1, <3>1, <3>2, <3>4, <3>5 DEF IInv, Typed, Places
    <2> QED BY <2>1, <2>2
  <1>6. Masked'
    <2>1. \A i \in Irqs : Agrees(i)
      BY <1>1 DEF IInv, Masked, Changing
    <2>2. CASE PitCommand \/ PitLow
      BY <1>1, <2>1, <2>2 DEF Masked, Changing, Agrees, PitCommand, PitLow
    <2>3. CASE PitHigh
      BY <1>1, <2>1, <2>3 DEF Masked, Changing, Agrees, PitHigh
    <2> QED BY <2>2, <2>3
  <1> QED BY <1>1, <1>2, <1>3, <1>5, <1>6, TaskAlone DEF IInv

\* A number is told by its two digits.
LEMMA TwoDigits ==
    ASSUME NEW k \in Int, NEW b \in Nat \ {0}
    PROVE  (k % b) + b * (k \div b) = k
  OBVIOUS

\* The steps of pit_read_count, and the end of pit_init.
LEMMA ReadStep ==
    ASSUME IInv, ReadCount \/ ReadLow \/ ReadHigh \/ Restore
    PROVE  IInv'
  <1>1. /\ frames = <<>> /\ frames' = frames /\ pic' = pic
        /\ at \in {"client", "read_lo", "read_hi", "restore"}
        /\ at' \in {"client", "read_lo", "read_hi", "restore"}
        /\ UNCHANGED <<saved, call, opened, n>>
    BY DEF ReadCount, ReadLow, ReadHigh, Restore, AtTask, hardware
  <1>2. SetUp'
    BY <1>1, SetUpStays DEF SameSetup
  <1>3. Masked'
    BY <1>1 DEF IInv, Masked, Changing, Agrees
  <1>4. ByteBase \in Nat \ {0} /\ pit.count \in Int
    BY InterruptsAssumption DEF IInv, Typed
  <1>5. CASE ReadCount
    <2>1. Latched = <<pit.count % ByteBase, pit.count \div ByteBase>> /\ Latched \in Seq(Int)
      BY <1>4 DEF Latched
    <2>2. /\ pit' = [pit EXCEPT !.latch = Latched] /\ seen' = {pit.count}
          /\ at' = "read_lo"
      BY <1>5 DEF ReadCount
    <2>3. Typed'
      BY <1>1, <1>4, <2>1, <2>2 DEF IInv, Typed, Places
    <2>4. pit'.latch = Latched
      BY <2>2 DEF IInv, Typed
    <2>5. CountKept'
      BY <2>1, <2>2, <2>4 DEF CountKept
    <2> QED BY <1>1, <1>2, <1>3, <2>3, <2>5, TaskAlone DEF IInv
  <1>6. CASE ReadLow
    <2>1. PICK k \in seen : pit.latch = <<k % ByteBase, k \div ByteBase>>
      BY <1>6 DEF IInv, CountKept, ReadLow, AtTask
    <2>2. /\ k \in Int /\ k % ByteBase \in Int /\ k \div ByteBase \in Int
      BY <1>4 DEF IInv, Typed
    <2>3. /\ Head(pit.latch) = k % ByteBase /\ Tail(pit.latch) = <<k \div ByteBase>>
          /\ pit.latch # <<>> /\ Tail(pit.latch) \in Seq(Int)
      BY <2>1, <2>2
    <2>4. /\ pit' = [pit EXCEPT !.high = ~@, !.latch = Tail(@)]
          /\ val' = k % ByteBase /\ seen' = seen /\ at' = "read_hi"
      BY <1>6, <2>3 DEF ReadLow, ReadPort, PortByte
    <2>5. Typed' /\ pit'.latch = <<k \div ByteBase>>
      BY <1>1, <2>3, <2>4 DEF IInv, Typed, Places
    <2>6. CountKept'
      BY <2>4, <2>5 DEF CountKept
    <2> QED BY <1>1, <1>2, <1>3, <2>5, <2>6, TaskAlone DEF IInv
  <1>7. CASE ReadHigh
    <2>1. PICK k \in seen : pit.latch = <<k \div ByteBase>> /\ val = k % ByteBase
      BY <1>7 DEF IInv, CountKept, ReadHigh, AtTask
    <2>2. k \in Int /\ k % ByteBase \in Int /\ k \div ByteBase \in Int
      BY <1>4 DEF IInv, Typed
    <2>3. /\ Head(pit.latch) = k \div ByteBase /\ Tail(pit.latch) = <<>>
          /\ pit.latch # <<>> /\ Tail(pit.latch) \in Seq(Int)
      BY <2>1, <2>2
    <2>4. /\ pit' = [pit EXCEPT !.high = ~@, !.latch = Tail(@)]
          /\ val' = (k % ByteBase) + ByteBase * (k \div ByteBase)
          /\ seen' = seen /\ at' = "restore"
      BY <1>7, <2>1, <2>3 DEF ReadHigh, ReadPort, PortByte
    <2>5. Typed'
      BY <1>1, <2>3, <2>4 DEF IInv, Typed, Places
    <2>6. val' = k
      BY <1>4, <2>2, <2>4, TwoDigits
    <2>7. CountKept'
      BY <2>4, <2>6 DEF CountKept
    <2> QED BY <1>1, <1>2, <1>3, <2>5, <2>7, TaskAlone DEF IInv
  <1>8. CASE Restore
    <2>1. pit' = pit /\ seen' = {} /\ at' = "client"
      BY <1>8 DEF Restore, hardware
    <2>2. Typed' /\ CountKept'
      BY <1>1, <2>1 DEF IInv, Typed, CountKept, Places
    <2> QED BY <1>1, <1>2, <1>3, <2>2, TaskAlone DEF IInv
  <1> QED BY <1>5, <1>6, <1>7, <1>8

\* The steps of pic_send_eoi and pic_set_mask.
LEMMA MaskStep ==
    ASSUME IInv, Eoi \/ MaskIn \/ MaskOut
    PROVE  IInv'
  <1>1. /\ frames = <<>> /\ frames' = frames /\ at \in {"eoi", "mask_in", "mask_out"}
        /\ UNCHANGED <<pit, opened, seen, n>>
        /\ seen = {} /\ call.irq \in Irqs /\ call.next \in {"client", "restore"}
        /\ pic \in PicState
    BY DEF Eoi, MaskIn, MaskOut, AtTask, hardware, IInv, CountKept, Typed
  <1>2. Chip(call.irq) \in 1..2 /\ Line(call.irq) \in Lines
    BY <1>1, LineAndChip
  <1>3. CASE Eoi
    <2> DEFINE q == IF EndsAtSlave(call.irq) THEN AfterEoi(pic, 2) ELSE pic
    <2>1. q \in PicState /\ SameSetup(pic, q)
      BY <1>1, EoiKeeps DEF SameSetup
    <2>2. pic' = AfterEoi(q, 1)
      BY <1>3 DEF Eoi, AfterEoi
    <2> HIDE DEF q
    <2>3. pic' \in PicState /\ SameSetup(q, pic')
      BY <2>1, <2>2, EoiKeeps
    <2>4. SameSetup(pic, pic')
      BY <2>1, <2>3 DEF SameSetup
    <2>5. at' = "mask_in" /\ UNCHANGED <<saved, call>>
      BY <1>3 DEF Eoi
    <2>6. SetUp'
      BY <1>1, <2>4, <2>5, SetUpStays
    <2>7. \A i \in Irqs : Agrees(i)' <=> Agrees(i)
      BY <1>1, <2>4, LineAndChip DEF Agrees, SameSetup
    <2>8. Masked'
      BY <1>1, <2>5, <2>7 DEF IInv, Masked, Changing
    <2>9. Typed' /\ CountKept'
      BY <1>1, <2>3, <2>5 DEF IInv, Typed, CountKept, Places
    <2> QED BY <1>1, <2>6, <2>8, <2>9, TaskAlone DEF IInv
  <1>4. CASE MaskIn
    <2> DEFINE mask == pic[Chip(call.irq)].imr
               new  == IF call.set THEN mask \cup {Line(call.irq)}
                                   ELSE mask \ {Line(call.irq)}
    <2>1. pic' = pic /\ call' = call /\ at' = "mask_out" /\ saved' = <<new, {}>>
      BY <1>1, <1>4, LineAndChip DEF MaskIn, hardware
    <2>2. new \subseteq Lines
      BY <1>1, <1>2 DEF PicState, ChipState
    <2> HIDE DEF new
    <2>3. saved' \in [1..2 -> SUBSET Lines] /\ saved'[1] = new
      BY <2>1, <2>2
    <2>4. SetUp'
      BY <1>1, <2>1, SetUpStays DEF SameSetup
    <2>5. Masked'
      BY <1>1, <2>1, <2>3 DEF IInv, Masked, Changing, Agrees, new
    <2>6. Typed' /\ CountKept'
      BY <1>1, <2>1, <2>3 DEF IInv, Typed, CountKept, Places
    <2> QED BY <1>1, <2>4, <2>5, <2>6, TaskAlone DEF IInv
  <1>5. CASE MaskOut
    <2> DEFINE new == saved[1]
               chip == Chip(call.irq)
    <2>1. /\ pic' = AfterData(pic, chip, new) /\ at' = call.next
          /\ saved' = <<{}, {}>> /\ call' = NoCall
      BY <1>5 DEF MaskOut, AfterData
    <2>2. /\ new \in SUBSET Lines
          /\ Len(pic[1].icw) = 3 /\ Len(pic[2].icw) = 3
      BY <1>1 DEF IInv, Typed, SetUp, Words
    <2>3. new = IF call.set THEN pic[chip].imr \cup {Line(call.irq)}
                            ELSE pic[chip].imr \ {Line(call.irq)}
      BY <1>5 DEF IInv, Masked, MaskOut, AtTask
    <2> HIDE DEF new, chip
    <2>4. chip \in 1..2
      BY <1>2 DEF chip
    <2>5. /\ pic' \in PicState /\ \A d \in 1..2 \ {chip} : pic'[d] = pic[d]
          /\ pic'[chip].imr = new /\ pic'[chip].icw = pic[chip].icw
      <3>1. Len(pic[chip].icw) >= 3
        BY <2>2, <2>4
      <3> QED BY <1>1, <2>1, <2>2, <2>4, <3>1, DataWrites
    <2>6. Len(pic'[1].icw) = 3 /\ Len(pic'[2].icw) = 3
      BY <2>2, <2>4, <2>5
    <2>7. at' \in {"client", "restore"}
      BY <1>1, <2>1
    <2>8. SetUp'
      BY <2>6, <2>7 DEF SetUp, Words
    <2>9. ASSUME NEW i \in Irqs PROVE Agrees(i)'
      <3>1. CASE i = call.irq
        <4>1. i \in opened <=> ~call.set
          BY <1>1, <3>1 DEF IInv, Masked, Changing
        <4>2. Line(i) \in pic'[Chip(i)].imr <=> call.set
          BY <2>3, <2>5, <3>1 DEF chip
        <4> QED BY <1>1, <4>1, <4>2 DEF Agrees
      <3>2. CASE i # call.irq
        <4>1. Agrees(i)
          BY <1>1, <3>2 DEF IInv, Masked
        <4>2. Chip(i) = chip => Line(i) # Line(call.irq)
          BY <1>1, <3>2, LineOfOne DEF chip
        <4>3. Chip(i) \in 1..2
          BY LineAndChip
        <4>4. Line(i) \in pic'[Chip(i)].imr <=> Line(i) \in pic[Chip(i)].imr
          BY <2>3, <2>5, <4>2, <4>3
        <4> QED BY <1>1, <4>1, <4>4 DEF Agrees
      <3> QED BY <3>1, <3>2
    <2>10. Masked'
      BY <2>7, <2>9 DEF Masked, Changing
    <2>11. /\ saved' \in [1..2 -> SUBSET Lines]
           /\ call' \in [irq : Irqs, set : BOOLEAN, next : {"client", "restore"}]
      BY <2>1 DEF NoCall, Irqs, TIMER
    <2>12. Typed' /\ CountKept'
      BY <1>1, <2>5, <2>7, <2>11 DEF IInv, Typed, CountKept, Places
    <2> QED BY <1>1, <2>8, <2>10, <2>12, TaskAlone DEF IInv
  <1> QED BY <1>3, <1>4, <1>5

\* Client code.
LEMMA ClientStep ==
    ASSUME IInv, Client
    PROVE  IInv'
  <1>1. CASE ReadCount
    BY <1>1, ReadStep
  <1>2. ASSUME NEW i \in Drivers, Install(i) \/ Close(i) PROVE IInv'
    <2>1. /\ i \in Irqs /\ at = "client" /\ at' \in {"eoi", "mask_in"}
          /\ frames = <<>> /\ frames' = frames
          /\ UNCHANGED <<pic, pit, saved, seen>> /\ seen = {}
      BY <1>2, InterruptsAssumption
         DEF Install, Close, AtTask, hardware, IInv, CountKept
    <2>2. /\ call'.irq = i /\ (i \in opened' <=> ~call'.set)
          /\ call' \in [irq : Irqs, set : BOOLEAN, next : {"client", "restore"}]
          /\ \A j \in Irqs \ {i} : j \in opened' <=> j \in opened
          /\ opened' \subseteq Irqs
      <3>1. opened \subseteq Irqs
        BY DEF IInv, Typed
      <3>2. CASE Install(i)
        BY <2>1, <3>1, <3>2 DEF Install
      <3>3. CASE Close(i)
        BY <2>1, <3>1, <3>3 DEF Close
      <3> QED BY <1>2, <3>2, <3>3
    <2>3. SetUp'
      BY <2>1, SetUpStays DEF SameSetup
    <2>4. \A j \in Irqs \ {i} : Agrees(j)'
      BY <2>1, <2>2 DEF IInv, Masked, Changing, Agrees
    <2>5. Masked'
      BY <2>1, <2>2, <2>4 DEF Masked, Changing
    <2>6. n' = n
      BY <1>2 DEF Install, Close
    <2>7. Typed' /\ CountKept'
      BY <2>1, <2>2, <2>6 DEF IInv, Typed, CountKept, Places
    <2> QED BY <2>1, <2>3, <2>5, <2>7, TaskAlone DEF IInv
  <1>3. CASE Cli \/ Sti
    <2>1. frames = <<>> /\ frames' = frames /\ UNCHANGED <<hardware, task>>
      BY <1>3 DEF Cli, Sti, AtTask
    <2> QED BY <2>1, SetupKept, CountUndisturbed, TaskAlone
            DEF IInv, Typed, SameSetup, hardware, task
  <1>4. ASSUME NEW v \in Faults, Fault(v) PROVE IInv'
    <2>1. UNCHANGED <<hardware, task>> /\ frames = <<>> /\ Enter(v, v \in PushesErrorCode)
      BY <1>4 DEF Fault
    <2>2. Stacked'
      BY <2>1, Entered DEF IInv
    <2> QED BY <2>1, <2>2, SetupKept, CountUndisturbed
            DEF IInv, Typed, SameSetup, hardware, task
  <1> QED BY <1>1, <1>2, <1>3, <1>4 DEF Client

-----------------------------------------------------------------------------
(* The theorems *)

\* Every reachable state satisfies the invariant.
THEOREM InterruptsInvariance == Spec => []IInv
  <1>1. Init => IInv
    <2> SUFFICES ASSUME Init PROVE IInv
      OBVIOUS
    <2>1. PICK masks \in [1..2 -> BiosMasks], service \in {{}, {TIMER}} :
              pic = << [irr |-> {}, isr |-> service, imr |-> masks[1],
                        icw |-> <<Bits(8), {CascadeLine}, {0}>>],
                       [irr |-> {}, isr |-> {}, imr |-> masks[2],
                        icw |-> <<Bits(112), Bits(CascadeLine), {0}>>] >>
      BY DEF Init
    <2>2. /\ masks[1] \subseteq Lines /\ masks[2] \subseteq Lines
          /\ service \subseteq Lines
          /\ {CascadeLine} \subseteq Lines /\ {0} \subseteq Lines
          /\ \A j : Bits(j) \subseteq Lines
      <3>1. masks[1] \in BiosMasks /\ masks[2] \in BiosMasks
        OBVIOUS
      <3>2. TIMER \in Lines /\ CascadeLine \in Lines /\ 0 \in Lines
        BY DEF TIMER, Lines, CascadeLine
      <3>3. \A j : Bits(j) \subseteq Lines
        BY DEF Bits
      <3> QED BY <3>1, <3>2, <3>3, InterruptsAssumption
    <2> HIDE DEF Bits, Lines
    <2>3. \A a, b, c \in SUBSET Lines :
              <<a, b, c>> \in Seq(SUBSET Lines) /\ Len(<<a, b, c>>) = 3
      OBVIOUS
    <2> DEFINE icw1 == <<Bits(8), {CascadeLine}, {0}>>
               icw2 == <<Bits(112), Bits(CascadeLine), {0}>>
    <2>4. /\ icw1 \in Seq(SUBSET Lines) /\ Len(icw1) = 3
          /\ icw2 \in Seq(SUBSET Lines) /\ Len(icw2) = 3
      BY <2>2, <2>3
    <2> HIDE DEF icw1, icw2
    <2>5. pic = << [irr |-> {}, isr |-> service, imr |-> masks[1], icw |-> icw1],
                   [irr |-> {}, isr |-> {}, imr |-> masks[2], icw |-> icw2] >>
      BY <2>1 DEF icw1, icw2
    <2>6. /\ pic[1] \in ChipState /\ pic[2] \in ChipState
          /\ Len(pic[1].icw) = 3 /\ Len(pic[2].icw) = 3
      BY <2>2, <2>4, <2>5 DEF ChipState
    <2>7. pic \in PicState
      BY <2>5, <2>6 DEF PicState
    <2>8. pit \in [mode : {"bios", "stopped", "running"}, count : Int, lo : Int,
                   latch : Seq(Int), high : BOOLEAN]
      <3>1. <<>> \in Seq(Int)
        OBVIOUS
      <3> DEFINE e == <<>>
      <3>2. pit = [mode |-> "bios", count |-> 0, lo |-> 0, latch |-> e, high |-> FALSE]
            /\ e \in Seq(Int)
        BY <3>1 DEF Init
      <3> HIDE DEF e
      <3> QED BY <3>2
    <2>9. saved \in [1..2 -> SUBSET Lines]
      BY DEF Init
    <2>10. call \in [irq : Irqs, set : BOOLEAN, next : {"client", "restore"}]
      BY DEF Init, NoCall, Irqs, TIMER
    <2>11. Typed
      BY <2>7, <2>8, <2>9, <2>10 DEF Init, Typed, Places
    <2> QED BY <2>6, <2>11 DEF Init, IInv, Stacked, SetUp, Words, Masked, Changing, CountKept
  <1>2. IInv /\ [Next]_vars => IInv'
    <2> SUFFICES ASSUME IInv, [Next]_vars PROVE IInv'
      OBVIOUS
    <2>1. CASE Hardware
      BY <2>1, HardwareStep
    <2>2. CASE Handler
      BY <2>2, HandlerStep
    <2>3. CASE TaskStep
      BY <2>3, SaveMasksStep, PicWriteStep, PitStep, ReadStep, MaskStep DEF TaskStep, Setup
    <2>4. CASE Client
      BY <2>4, ClientStep
    <2>5. CASE UNCHANGED vars
      BY <2>5, SetupKept, CountUndisturbed
         DEF vars, hardware, task, IInv, Typed, Stacked, SameSetup
    <2> QED BY <2>1, <2>2, <2>3, <2>4, <2>5 DEF Next
  <1> QED BY <1>1, <1>2, PTL DEF Spec

\* At most one interrupt frame is on the stack, whatever devices, faults and
\* calls come together: the gates of x86_init keep interrupts off in handlers,
\* and only iret turns them on again.
THEOREM FramesDoNotNest == Spec => []NoNesting
  <1>1. IInv => NoNesting
    <2> SUFFICES ASSUME IInv PROVE NoNesting
      OBVIOUS
    <2>1. CASE frames = <<>>
      BY <2>1 DEF NoNesting
    <2>2. CASE \E S : frames \in Seq(S) /\ Len(frames) = 1
      BY <2>2 DEF NoNesting
    <2> QED BY <2>1, <2>2 DEF IInv, Stacked
  <1> QED BY <1>1, InterruptsInvariance, PTL

\* Between the drivers' calls the masks of both controllers are the ones asked
\* for, line by line: no interrupt disturbs pic_set_mask, and a call for one
\* line leaves the fifteen others alone.
THEOREM MasksAreAsAsked == Spec => []MaskAsAsked
  <1>1. IInv => MaskAsAsked
    BY DEF IInv, Masked, Changing, Agrees, MaskAsAsked
  <1> QED BY <1>1, InterruptsInvariance, PTL

\* pit_read_count returns one count of the timer, for every countdown and
\* however fast the timer runs.
THEOREM CountInOnePiece == Spec => []CountNotTorn
  <1>1. IInv => CountNotTorn
    BY DEF IInv, CountKept, CountNotTorn
  <1> QED BY <1>1, InterruptsInvariance, PTL

-----------------------------------------------------------------------------
(* Vectors *)

\* A bit of a number.
LEMMA BitOf ==
    ASSUME NEW x, NEW b \in Lines, NEW m, 2^b = m
    PROVE  b \in Bits(x) <=> (x \div m) % 2 = 1
  BY DEF Bits

\* The bits of a byte.
LEMMA BitsOf ==
    ASSUME NEW x
    PROVE  /\ 0 \in Bits(x) <=> (x \div 1) % 2 = 1
           /\ 1 \in Bits(x) <=> (x \div 2) % 2 = 1
           /\ 2 \in Bits(x) <=> (x \div 4) % 2 = 1
           /\ 3 \in Bits(x) <=> (x \div 8) % 2 = 1
           /\ 4 \in Bits(x) <=> (x \div 16) % 2 = 1
           /\ 5 \in Bits(x) <=> (x \div 32) % 2 = 1
           /\ 6 \in Bits(x) <=> (x \div 64) % 2 = 1
           /\ 7 \in Bits(x) <=> (x \div 128) % 2 = 1
  <1>1. 0 \in Bits(x) <=> (x \div 1) % 2 = 1
    <2>1. 2^0 = 1 /\ 0 \in Lines
      BY DEF Lines
    <2> QED BY <2>1, BitOf, Zenon
  <1>2. 1 \in Bits(x) <=> (x \div 2) % 2 = 1
    <2>1. 2^1 = 2 /\ 1 \in Lines
      BY DEF Lines
    <2> QED BY <2>1, BitOf, Zenon
  <1>3. 2 \in Bits(x) <=> (x \div 4) % 2 = 1
    <2>1. 2^2 = 4 /\ 2 \in Lines
      BY DEF Lines
    <2> QED BY <2>1, BitOf, Zenon
  <1>4. 3 \in Bits(x) <=> (x \div 8) % 2 = 1
    <2>1. 2^3 = 8 /\ 3 \in Lines
      BY DEF Lines
    <2> QED BY <2>1, BitOf, Zenon
  <1>5. 4 \in Bits(x) <=> (x \div 16) % 2 = 1
    <2>1. 2^4 = 16 /\ 4 \in Lines
      BY DEF Lines
    <2> QED BY <2>1, BitOf, Zenon
  <1>6. 5 \in Bits(x) <=> (x \div 32) % 2 = 1
    <2>1. 2^5 = 32 /\ 5 \in Lines
      BY DEF Lines
    <2> QED BY <2>1, BitOf, Zenon
  <1>7. 6 \in Bits(x) <=> (x \div 64) % 2 = 1
    <2>1. 2^6 = 64 /\ 6 \in Lines
      BY DEF Lines
    <2>2. 6 \in Bits(x) <=> (x \div 2^6) % 2 = 1
      BY <2>1 DEF Bits
    <2> QED BY <2>1, <2>2
  <1>8. 7 \in Bits(x) <=> (x \div 128) % 2 = 1
    <2>1. 2^7 = 128 /\ 7 \in Lines
      BY DEF Lines
    <2>2. 7 \in Bits(x) <=> (x \div 2^7) % 2 = 1
      BY <2>1 DEF Bits
    <2> QED BY <2>1, <2>2
  <1> QED BY <1>1, <1>2, <1>3, <1>4, <1>5, <1>6, <1>7, <1>8, Zenon

\* Multiples of eight are told apart by their upper five bits.
LEMMA UpperBits ==
    ASSUME NEW j \in 0..31, NEW k \in 0..31,
           ((8 * j) \div 8) % 2 = 1 <=> ((8 * k) \div 8) % 2 = 1,
           ((8 * j) \div 16) % 2 = 1 <=> ((8 * k) \div 16) % 2 = 1,
           ((8 * j) \div 32) % 2 = 1 <=> ((8 * k) \div 32) % 2 = 1,
           ((8 * j) \div 64) % 2 = 1 <=> ((8 * k) \div 64) % 2 = 1,
           ((8 * j) \div 128) % 2 = 1 <=> ((8 * k) \div 128) % 2 = 1
    PROVE  j = k
  OBVIOUS

\* The vectors of a controller begin where its ICW2 says.
LEMMA BaseOf ==
    ASSUME NEW k \in 0..31
    PROVE  VectorBase(Bits(8 * k)) = 8 * k
  <1> DEFINE x == 8 * k
             upper == Bits(x) \ 0..2
  <1>1. x \in {8 * j : j \in 0..31}
    OBVIOUS
  <1>2. 0 \notin Bits(x) /\ 1 \notin Bits(x) /\ 2 \notin Bits(x)
    <2>1. (x \div 1) % 2 # 1 /\ (x \div 2) % 2 # 1 /\ (x \div 4) % 2 # 1
      OBVIOUS
    <2> QED BY <2>1, BitsOf, Zenon
  <1>3. Bits(x) = upper
    <2> HIDE DEF x
    <2> QED BY <1>2
  <1>4. ASSUME NEW m \in {8 * j : j \in 0..31}, Bits(m) = upper PROVE m = x
    <2>1. PICK j \in 0..31 : m = 8 * j
      BY <1>4
    <2>2. Bits(8 * j) = Bits(8 * k)
      BY <1>3, <1>4, <2>1
    <2>3. ((8 * j) \div 8) % 2 = 1 <=> ((8 * k) \div 8) % 2 = 1
      BY <2>2, BitsOf, ZenonT(60)
    <2>4. ((8 * j) \div 16) % 2 = 1 <=> ((8 * k) \div 16) % 2 = 1
      BY <2>2, BitsOf, ZenonT(60)
    <2>5. ((8 * j) \div 32) % 2 = 1 <=> ((8 * k) \div 32) % 2 = 1
      BY <2>2, BitsOf, ZenonT(60)
    <2>6. ((8 * j) \div 64) % 2 = 1 <=> ((8 * k) \div 64) % 2 = 1
      BY <2>2, BitsOf, ZenonT(60)
    <2>7. ((8 * j) \div 128) % 2 = 1 <=> ((8 * k) \div 128) % 2 = 1
      <3>1. 7 \in Bits(8 * j) <=> ((8 * j) \div 128) % 2 = 1
        BY BitsOf, SMTT(30)
      <3>2. 7 \in Bits(8 * k) <=> ((8 * k) \div 128) % 2 = 1
        BY BitsOf, SMTT(30)
      <3> QED BY <2>2, <3>1, <3>2
    <2> QED BY <2>1, <2>3, <2>4, <2>5, <2>6, <2>7, UpperBits
  <1> HIDE DEF x
  <1> QED BY <1>1, <1>3, <1>4 DEF VectorBase, x
-----------------------------------------------------------------------------
(* Services and frames *)

\* p and q have the same interrupts in service.
SameService(p, q) == \A c \in 1..2 : q[c].isr = p[c].isr

\* A device's request and its withdrawal leave the services alone.
LEMMA RequestServes ==
    ASSUME NEW p \in PicState, NEW i \in Irqs
    PROVE  SameService(p, Request(p, i)) /\ SameService(p, Withdraw(p, i))
  BY LineAndChip DEF Request, Withdraw, PicState, ChipState, SameService

\* A service begins at one controller.
LEMMA ServeServes ==
    ASSUME NEW p \in PicState, NEW i \in Irqs
    PROVE  /\ Serve(p, i)[Chip(i)].isr = p[Chip(i)].isr \cup {Line(i)}
           /\ \A c \in 1..2 \ {Chip(i)} : Serve(p, i)[c].isr = p[c].isr
  BY LineAndChip DEF Serve, PicState, ChipState

\* What an acknowledge cycle has put into service.
LEMMA AcknowledgeServes ==
    ASSUME NEW p \in PicState, NEW i \in Irqs,
           p[1].isr = {}, p[2].isr = {}
    PROVE  /\ Acknowledge(p, i)[1].isr = {IF i < 8 THEN i ELSE CascadeLine}
           /\ Acknowledge(p, i)[2].isr = IF i < 8 THEN {} ELSE {i - 8}
           /\ AcknowledgeLate(p, i)[1].isr = IF i < 8 THEN {} ELSE {CascadeLine}
           /\ AcknowledgeLate(p, i)[2].isr = {}
  <1> DEFINE w == Withdraw(p, i)
             s == Serve(w, CascadeLine)
  <1>1. CascadeLine \in Irqs /\ Chip(CascadeLine) = 1 /\ Line(CascadeLine) = CascadeLine
    BY DEF CascadeLine, Irqs, Chip, Line
  <1>2. w \in PicState /\ w[1].isr = {} /\ w[2].isr = {}
    BY WithdrawKeeps, RequestServes DEF SameService
  <1>3. /\ i < 8 => Chip(i) = 1 /\ Line(i) = i
        /\ ~(i < 8) => Chip(i) = 2 /\ Line(i) = i - 8
    BY DEF Irqs, Chip, Line
  <1>4. Acknowledge(p, i) = Serve(IF i < 8 THEN w ELSE s, i)
    BY DEF Acknowledge
  <1>5. AcknowledgeLate(p, i) = IF i < 8 THEN w ELSE s
    BY DEF AcknowledgeLate
  <1> HIDE DEF w
  <1>6. s \in PicState /\ s[1].isr = {CascadeLine} /\ s[2].isr = {}
    BY <1>1, <1>2, ServeKeeps, ServeServes
  <1> HIDE DEF s
  <1>7. CASE i < 8
    <2>1. Serve(w, i)[1].isr = {i} /\ Serve(w, i)[2].isr = {}
      BY <1>2, <1>3, <1>7, ServeServes
    <2> QED BY <1>2, <1>4, <1>5, <1>7, <2>1
  <1>8. CASE ~(i < 8)
    <2>1. Serve(s, i)[1].isr = {CascadeLine} /\ Serve(s, i)[2].isr = {i - 8}
      BY <1>3, <1>6, <1>8, ServeServes
    <2> QED BY <1>4, <1>5, <1>6, <1>8, <2>1
  <1> QED BY <1>7, <1>8

\* An EOI ends the one service a controller has, and no other's.
LEMMA EoiServes ==
    ASSUME NEW p \in PicState, NEW c \in 1..2
    PROVE  /\ \A line \in Lines : p[c].isr \subseteq {line} => AfterEoi(p, c)[c].isr = {}
           /\ \A d \in 1..2 \ {c} : AfterEoi(p, c)[d].isr = p[d].isr
  <1>1. Command(p[c], PIC_EOI) = [p[c] EXCEPT !.isr = IF @ = {} THEN @ ELSE @ \ {Min(@)}]
    BY DEF Command, PIC_EOI, ICW1_INIT
  <1>2. Command(p[c], PIC_EOI).isr = IF p[c].isr = {} THEN {} ELSE p[c].isr \ {Min(p[c].isr)}
    BY <1>1 DEF PicState, ChipState
  <1>3. ASSUME NEW line \in Lines, p[c].isr \subseteq {line}
        PROVE  Command(p[c], PIC_EOI).isr = {}
    <2>1. CASE p[c].isr = {}
      BY <1>2, <2>1
    <2>2. CASE p[c].isr = {line}
      <3>1. Min({line}) = line
        BY DEF Min, Lines
      <3> QED BY <1>2, <2>2, <3>1
    <2> QED BY <1>3, <2>1, <2>2
  <1> HIDE DEF Command
  <1> QED BY <1>3 DEF AfterEoi, PicState

\* The data port has nothing to do with services; what it takes as a word of
\* the setup is kept behind the words before.
LEMMA DataServes ==
    ASSUME NEW p \in PicState, NEW c \in 1..2, NEW bits \in SUBSET Lines
    PROVE  LET q == AfterData(p, c, bits)
           IN  /\ SameService(p, q)
               /\ \A d \in 1..2 \ {c} : q[d].icw = p[d].icw
               /\ Len(p[c].icw) = 0 => q[c].icw[1] = bits
               /\ Len(p[c].icw) > 0 => q[c].icw[1] = p[c].icw[1]
  <1>1. p[c] \in ChipState /\ p[c].icw \in Seq(SUBSET Lines) /\ Len(p[c].icw) \in Nat
    BY DEF PicState, ChipState
  <1>2. /\ Append(p[c].icw, bits)[Len(p[c].icw) + 1] = bits
        /\ \A k \in 1..Len(p[c].icw) : Append(p[c].icw, bits)[k] = p[c].icw[k]
    BY <1>1, AppendProperties
  <1> DEFINE d == Data(p[c], bits)
             q == AfterData(p, c, bits)
  <1>3. d.isr = p[c].isr /\ d.icw = IF Len(p[c].icw) < 3 THEN Append(p[c].icw, bits)
                                                          ELSE p[c].icw
    BY <1>1 DEF Data, ChipState
  <1>4. q[c] = d /\ \A e \in 1..2 \ {c} : q[e] = p[e]
    BY DEF AfterData, PicState
  <1> HIDE DEF d, q
  <1>5. Len(p[c].icw) = 0 => d.icw[1] = bits
    BY <1>1, <1>2, <1>3
  <1>6. Len(p[c].icw) > 0 => d.icw[1] = p[c].icw[1]
    BY <1>1, <1>2, <1>3
  <1> QED BY <1>3, <1>4, <1>5, <1>6 DEF SameService, q

\* ICW1 ends all services of a chip.
LEMMA Icw1Serves ==
    ASSUME NEW p \in PicState, NEW c \in 1..2
    PROVE  [p EXCEPT ![c] = Command(@, {ICW1_INIT, ICW1_ICW4})][c].isr = {}
  BY DEF Command, PicState

\* Two sequences that make a third.
LEMMA Joined ==
    ASSUME NEW S, NEW s \in Seq(S), NEW t \in Seq(S), NEW u \in Seq(S),
           Len(u) = Len(s) + Len(t),
           \A k \in 1..Len(s) : u[k] = s[k],
           \A k \in 1..Len(t) : u[Len(s) + k] = t[k]
    PROVE  s \o t = u
  <1>1. s \o t \in Seq(S) /\ Len(s \o t) = Len(s) + Len(t)
    BY ConcatProperties
  <1>2. /\ \A k \in 1..Len(s) : (s \o t)[k] = s[k]
        /\ \A k \in (Len(s) + 1)..(Len(s) + Len(t)) : (s \o t)[k] = t[k - Len(s)]
    BY ConcatProperties
  <1>3. Len(s) \in Nat /\ Len(t) \in Nat
    BY LenProperties
  <1>4. \A k \in (Len(s) + 1)..(Len(s) + Len(t)) :
            k - Len(s) \in 1..Len(t) /\ Len(s) + (k - Len(s)) = k
    BY <1>3
  <1>5. ASSUME NEW k \in 1..Len(u) PROVE (s \o t)[k] = u[k]
    <2>1. CASE k \in 1..Len(s)
      BY <1>2, <2>1
    <2>2. CASE k \in (Len(s) + 1)..(Len(s) + Len(t))
      BY <1>2, <1>4, <2>2
    <2> QED BY <1>3, <2>1, <2>2
  <1> QED BY <1>1, <1>5, SeqEqual

\* The words on the stack are those of a frame if there is one error code: the
\* hardware's or, exactly where that has none, the stub's.
LEMMA FrameWords ==
    ASSUME NEW v, NEW hc \in BOOLEAN, hc <=> HasErrorCode(v)
    PROVE  Pushed(v, hc) = IFrame
  <1> DEFINE S == {"flags", "cs", "ip", "err_code", "vector", "gs", "fs", "es", "ds",
                   "ax", "cx", "dx", "bx", "sp", "bp", "si", "di"}
             cpu == <<"flags", "cs", "ip">>
             code == <<"err_code">>
             vector == <<"vector">>
             segments == <<"gs", "fs", "es", "ds">>
             registers == <<"ax", "cx", "dx", "bx", "sp", "bp", "si", "di">>
             four == <<"flags", "cs", "ip", "err_code">>
             five == <<"flags", "cs", "ip", "err_code", "vector">>
             nine == <<"flags", "cs", "ip", "err_code", "vector", "gs", "fs", "es", "ds">>
  <1>1. cpu \o code = four
    <2>1. cpu \in Seq(S)
      OBVIOUS
    <2>2. code \in Seq(S)
      OBVIOUS
    <2>3. four \in Seq(S)
      OBVIOUS
    <2>4. Len(cpu) = 3 /\ Len(code) = 1 /\ Len(four) = 4
      OBVIOUS
    <2>5. ASSUME NEW k \in 1..3 PROVE four[k] = cpu[k]
      <3>1. k = 1 \/ k = 2 \/ k = 3
        OBVIOUS
      <3> QED BY <3>1
    <2>6. ASSUME NEW k \in 1..1 PROVE four[3 + k] = code[k]
      <3>1. k = 1
        OBVIOUS
      <3> QED BY <3>1
    <2> HIDE DEF cpu, code, four, S
    <2>7. Len(four) = Len(cpu) + Len(code)
      BY <2>4
    <2>8. \A k \in 1..Len(cpu) : four[k] = cpu[k]
      BY <2>4, <2>5
    <2>9. \A k \in 1..Len(code) : four[Len(cpu) + k] = code[k]
      BY <2>4, <2>6
    <2> QED BY <2>1, <2>2, <2>3, <2>7, <2>8, <2>9, Joined
  <1>2. four \o vector = five
    <2>1. four \in Seq(S)
      OBVIOUS
    <2>2. vector \in Seq(S)
      OBVIOUS
    <2>3. five \in Seq(S)
      OBVIOUS
    <2>4. Len(four) = 4 /\ Len(vector) = 1 /\ Len(five) = 5
      OBVIOUS
    <2>5. ASSUME NEW k \in 1..4 PROVE five[k] = four[k]
      <3>1. k = 1 \/ k = 2 \/ k = 3 \/ k = 4
        OBVIOUS
      <3> QED BY <3>1
    <2>6. ASSUME NEW k \in 1..1 PROVE five[4 + k] = vector[k]
      <3>1. k = 1
        OBVIOUS
      <3> QED BY <3>1
    <2> HIDE DEF four, vector, five, S
    <2>7. Len(five) = Len(four) + Len(vector)
      BY <2>4
    <2>8. \A k \in 1..Len(four) : five[k] = four[k]
      BY <2>4, <2>5
    <2>9. \A k \in 1..Len(vector) : five[Len(four) + k] = vector[k]
      BY <2>4, <2>6
    <2> QED BY <2>1, <2>2, <2>3, <2>7, <2>8, <2>9, Joined
  <1>3. five \o segments = nine
    <2>1. five \in Seq(S)
      OBVIOUS
    <2>2. segments \in Seq(S)
      OBVIOUS
    <2>3. nine \in Seq(S)
      OBVIOUS
    <2>4. Len(five) = 5 /\ Len(segments) = 4 /\ Len(nine) = 9
      OBVIOUS
    <2>5. ASSUME NEW k \in 1..5 PROVE nine[k] = five[k]
      <3>1. k = 1 \/ k = 2 \/ k = 3 \/ k = 4 \/ k = 5
        OBVIOUS
      <3> QED BY <3>1
    <2>6. ASSUME NEW k \in 1..4 PROVE nine[5 + k] = segments[k]
      <3>1. k = 1 \/ k = 2 \/ k = 3 \/ k = 4
        OBVIOUS
      <3> QED BY <3>1
    <2> HIDE DEF five, segments, nine, S
    <2>7. Len(nine) = Len(five) + Len(segments)
      BY <2>4
    <2>8. \A k \in 1..Len(five) : nine[k] = five[k]
      BY <2>4, <2>5
    <2>9. \A k \in 1..Len(segments) : nine[Len(five) + k] = segments[k]
      BY <2>4, <2>6
    <2> QED BY <2>1, <2>2, <2>3, <2>7, <2>8, <2>9, Joined
  <1>4. nine \o registers = IFrame
    <2>1. nine \in Seq(S)
      OBVIOUS
    <2>2. registers \in Seq(S)
      OBVIOUS
    <2>3. IFrame \in Seq(S)
      BY DEF IFrame
    <2>4. Len(nine) = 9 /\ Len(registers) = 8 /\ Len(IFrame) = 17
      BY DEF IFrame
    <2>5. ASSUME NEW k \in 1..9 PROVE IFrame[k] = nine[k]
      <3>1. k = 1 \/ k = 2 \/ k = 3 \/ k = 4 \/ k = 5 \/ k = 6 \/ k = 7 \/ k = 8 \/ k = 9
        OBVIOUS
      <3> QED BY <3>1 DEF IFrame
    <2>6. ASSUME NEW k \in 1..8 PROVE IFrame[9 + k] = registers[k]
      <3>1. k = 1 \/ k = 2 \/ k = 3 \/ k = 4 \/ k = 5 \/ k = 6 \/ k = 7 \/ k = 8
        OBVIOUS
      <3> QED BY <3>1 DEF IFrame
    <2> HIDE DEF nine, registers, S
    <2>7. Len(IFrame) = Len(nine) + Len(registers)
      BY <2>4
    <2>8. \A k \in 1..Len(nine) : IFrame[k] = nine[k]
      BY <2>4, <2>5
    <2>9. \A k \in 1..Len(registers) : IFrame[Len(nine) + k] = registers[k]
      BY <2>4, <2>6
    <2> QED BY <2>1, <2>2, <2>3, <2>7, <2>8, <2>9, Joined
  <1>5. cpu \o <<>> = cpu /\ four \o <<>> = four
    OBVIOUS
  <1>6. Pushed(v, hc) = (cpu \o (IF hc THEN code ELSE <<>>)
                             \o (IF HasErrorCode(v) THEN <<>> ELSE code) \o vector)
                        \o segments \o registers
    BY DEF Pushed
  <1> HIDE DEF cpu, code, vector, segments, registers, four, five, nine
  <1>7. CASE hc
    BY <1>1, <1>2, <1>3, <1>4, <1>5, <1>6, <1>7
  <1>8. CASE ~hc
    BY <1>1, <1>2, <1>3, <1>4, <1>5, <1>6, <1>8
  <1> QED BY <1>7, <1>8

-----------------------------------------------------------------------------
(* The inductive invariant *)

\* The vectors of the controllers are set, once pic_init has written them.
VectorsSet ==
    /\ at # "pic_init" \/ n >= 4 => pic[1].icw[1] = Bits(32)
    /\ at # "pic_init" \/ n >= 5 => pic[2].icw[1] = Bits(40)

\* pic_init clears the controllers, and runs with interrupts off.
Quiet ==
    at = "pic_init" =>
        /\ frames = <<>> /\ ~intFlag
        /\ n >= 2 => pic[1].isr = {}
        /\ pic[2].isr = {}

NoneInService == pic[1].isr = {} /\ pic[2].isr = {}

\* Nothing is in service but the interrupt with this number, which may have
\* been withdrawn.
OnlyInService(irq) ==
    IF irq < 8 THEN pic[1].isr \subseteq {irq} /\ pic[2].isr = {}
    ELSE pic[1].isr \subseteq {CascadeLine} /\ pic[2].isr \subseteq {irq - 8}

\* What is in service, by the place of the handler above the frame f.
Serving(f) ==
    LET irq == f.vector - FirstVector
    IN  /\ \E S : f \in [vector : 0..(NumInt - 1), words : {IFrame}, flag : S,
                         at : Handlers]
        /\ f.at = "handler" => IF irq < 0 THEN NoneInService ELSE OnlyInService(irq)
        /\ f.at = "eoi_slave" => irq >= 8 /\ OnlyInService(irq)
        /\ f.at = "eoi_master" =>
              pic[2].isr = {} /\ \E line \in Lines : pic[1].isr \subseteq {line}
        /\ f.at \in {"driver", "iret", "die"} => NoneInService

SInv ==
    /\ VectorsSet /\ Quiet
    /\ NothingLeftInService
    /\ frames # <<>> => Serving(frames[1])

\* A controller's vectors are its lines, from 32 and from 40 on.
LEMMA VectorOf ==
    ASSUME VectorsSet, at # "pic_init", NEW i \in Irqs
    PROVE  Vector(pic, i) = FirstVector + i
  <1>1. VectorBase(Bits(32)) = 32 /\ VectorBase(Bits(40)) = 40
    <2>1. 4 \in 0..31 /\ 5 \in 0..31 /\ 8 * 4 = 32 /\ 8 * 5 = 40
      OBVIOUS
    <2>2. VectorBase(Bits(8 * 4)) = 8 * 4 /\ VectorBase(Bits(8 * 5)) = 8 * 5
      BY <2>1, BaseOf
    <2> QED BY <2>1, <2>2
  <1>2. pic[1].icw[1] = Bits(32) /\ pic[2].icw[1] = Bits(40)
    BY DEF VectorsSet
  <1> HIDE DEF Bits, VectorBase
  <1>3. CASE i < 8
    <2>1. Chip(i) = 1 /\ Line(i) = i
      BY <1>3 DEF Irqs, Chip, Line
    <2> QED BY <1>1, <1>2, <2>1 DEF Vector, FirstVector
  <1>4. CASE ~(i < 8)
    <2>1. Chip(i) = 2 /\ Line(i) = i - 8
      BY <1>4 DEF Irqs, Chip, Line
    <2> QED BY <1>1, <1>2, <2>1 DEF Vector, FirstVector, Irqs
  <1> QED BY <1>3, <1>4

\* After pic_init the vectors stay as they are.
LEMMA VectorsStay ==
    ASSUME SInv, at # "pic_init", at' # "pic_init", SameSetup(pic, pic')
    PROVE  VectorsSet' /\ Quiet'
  BY DEF SInv, VectorsSet, Quiet, SameSetup

-----------------------------------------------------------------------------
(* The steps *)

\* The frame of an interrupt or an exception.
LEMMA EntryServes ==
    ASSUME frames = <<>>, NEW v \in 0..(NumInt - 1),
           frames' = Append(frames, [vector |-> v, words |-> IFrame,
                                     flag |-> intFlag, at |-> "handler"]),
           NEW irq \in Int, irq = v - FirstVector,
           irq < 0 => NoneInService', irq >= 0 => OnlyInService(irq)'
    PROVE  frames' # <<>> /\ Serving(frames[1])'
  <1> DEFINE f == [vector |-> v, words |-> IFrame, flag |-> intFlag, at |-> "handler"]
  <1>1. f \in [vector : 0..(NumInt - 1), words : {IFrame}, flag : {intFlag}, at : Handlers]
    BY DEF Handlers
  <1>2. f.vector = v /\ f.at = "handler"
    OBVIOUS
  <1> HIDE DEF f
  <1>3. frames' # <<>> /\ frames'[1] = f
    BY DEF f
  <1>4. /\ frames'[1].vector = v /\ frames'[1].at = "handler"
        /\ \E S : frames'[1] \in [vector : 0..(NumInt - 1), words : {IFrame}, flag : S,
                                  at : Handlers]
    BY <1>1, <1>2, <1>3
  <1> QED BY <1>3, <1>4 DEF Serving

\* The frame of an interrupt of the hardware, which comes with no error code.
LEMMA InterruptServes ==
    ASSUME frames = <<>>, NEW i \in Irqs, Enter(FirstVector + i, FALSE), OnlyInService(i)'
    PROVE  frames' # <<>> /\ Serving(frames[1])'
  <1> DEFINE v == FirstVector + i
  <1>1. /\ v \in 0..(NumInt - 1) /\ ~HasErrorCode(v)
        /\ i \in Int /\ ~(i < 0) /\ i = v - FirstVector
    BY DEF FirstVector, NumInt, HasErrorCode, Irqs
  <1> HIDE DEF v
  <1>2. Pushed(v, FALSE) = IFrame
    BY <1>1, FrameWords
  <1>3. frames' = Append(frames, [vector |-> v, words |-> Pushed(v, FALSE),
                                  flag |-> intFlag, at |-> "handler"])
    BY DEF Enter, v
  <1>4. frames' = Append(frames, [vector |-> v, words |-> IFrame,
                                  flag |-> intFlag, at |-> "handler"])
    BY <1>2, <1>3
  <1> QED BY <1>1, <1>4, EntryServes

\* The devices and the timer chip run, or an interrupt is accepted.
LEMMA HardwareServes ==
    ASSUME IInv, SInv, Hardware
    PROVE  SInv'
  <1>1. Devices \subseteq Irqs /\ TIMER \in Irqs /\ pic \in PicState
    BY InterruptsAssumption DEF Irqs, TIMER, IInv, Typed
  <1>2. at' = at /\ n' = n
    BY DEF Hardware, Clock, Raise, Accept, AcceptLate, task
  <1>3. ASSUME SameSetup(pic, pic'), SameService(pic, pic'), UNCHANGED <<intFlag, frames>>
        PROVE  SInv'
    <2>1. VectorsSet' /\ Quiet'
      BY <1>2, <1>3 DEF SInv, VectorsSet, Quiet, SameSetup, SameService
    <2>2. pic'[1].isr = pic[1].isr /\ pic'[2].isr = pic[2].isr
      BY <1>3 DEF SameService
    <2>3. frames' = <<>> => NothingLeftInService'
      BY <1>2, <1>3, <2>2 DEF SInv, NothingLeftInService
    <2>4. frames' # <<>> => Serving(frames[1])'
      BY <1>3, <2>2 DEF SInv, Serving, NoneInService, OnlyInService
    <2> QED BY <2>1, <2>3, <2>4 DEF SInv, NothingLeftInService
  <1>4. CASE Clock
    <2>1. pic' \in {Request(pic, TIMER), Withdraw(pic, TIMER), pic}
      BY <1>4 DEF Clock
    <2>2. SameSetup(pic, pic') /\ SameService(pic, pic')
      <3>1. CASE pic' = Request(pic, TIMER)
        BY <1>1, <3>1, RequestKeeps, RequestServes
      <3>2. CASE pic' = Withdraw(pic, TIMER)
        BY <1>1, <3>2, WithdrawKeeps, RequestServes
      <3>3. CASE pic' = pic
        BY <3>3 DEF SameSetup, SameService
      <3> QED BY <2>1, <3>1, <3>2, <3>3
    <2> QED BY <1>3, <1>4, <2>2 DEF Clock
  <1>5. ASSUME NEW i \in Devices, Raise(i) PROVE SInv'
    BY <1>1, <1>3, <1>5, RequestKeeps, RequestServes DEF Raise
  <1>6. ASSUME intFlag
        PROVE  frames = <<>> /\ at # "pic_init" /\ pic[1].isr = {} /\ pic[2].isr = {}
    BY <1>6 DEF IInv, Stacked, SInv, Quiet, NothingLeftInService
  <1>7. ASSUME NEW i \in Devices, Accept(i) PROVE SInv'
    <2>1. frames = <<>> /\ at # "pic_init" /\ pic[1].isr = {} /\ pic[2].isr = {}
      BY <1>6, <1>7 DEF Accept
    <2>2. i \in Irqs /\ pic' = Acknowledge(pic, i) /\ Enter(Vector(pic, i), FALSE)
      BY <1>1, <1>7 DEF Accept
    <2>3. Enter(FirstVector + i, FALSE)
      BY <2>1, <2>2, VectorOf DEF SInv
    <2>4. OnlyInService(i)'
      BY <1>1, <2>1, <2>2, AcknowledgeServes DEF OnlyInService
    <2>5. frames' # <<>> /\ Serving(frames[1])'
      BY <2>1, <2>2, <2>3, <2>4, InterruptServes
    <2>6. VectorsSet' /\ Quiet'
      BY <1>1, <1>2, <2>1, <2>2, AcknowledgeKeeps, VectorsStay
    <2> QED BY <2>5, <2>6 DEF SInv, NothingLeftInService
  <1>8. ASSUME NEW i \in Devices, AcceptLate(i) PROVE SInv'
    <2> DEFINE j == SpuriousIrq(i)
    <2>1. frames = <<>> /\ at # "pic_init" /\ pic[1].isr = {} /\ pic[2].isr = {}
      BY <1>6, <1>8 DEF AcceptLate
    <2>2. i \in Irqs /\ pic' = AcknowledgeLate(pic, i) /\ Enter(Vector(pic, j), FALSE)
      BY <1>1, <1>8 DEF AcceptLate
    <2>3. j \in Irqs /\ (i < 8 <=> j < 8)
      BY <2>2 DEF SpuriousIrq, Irqs
    <2> HIDE DEF j
    <2>4. Enter(FirstVector + j, FALSE)
      BY <2>1, <2>2, <2>3, VectorOf DEF SInv
    <2>5. OnlyInService(j)'
      BY <1>1, <2>1, <2>2, <2>3, AcknowledgeServes DEF OnlyInService
    <2>6. frames' # <<>> /\ Serving(frames[1])'
      BY <2>1, <2>3, <2>4, <2>5, InterruptServes
    <2>7. VectorsSet' /\ Quiet'
      BY <1>1, <1>2, <2>1, <2>2, AcknowledgeKeeps, VectorsStay
    <2> QED BY <2>6, <2>7 DEF SInv, NothingLeftInService
  <1> QED BY <1>4, <1>5, <1>7, <1>8 DEF Hardware

\* What a handler on the stack is.
LEMMA HandlerOnTop ==
    ASSUME IInv, SInv, frames # <<>>
    PROVE  /\ Top = frames[1] /\ at # "pic_init" /\ Serving(frames[1])
           /\ 1 \in DOMAIN frames /\ Len(frames) = 1
  <1>1. PICK S : frames \in Seq(S) /\ Len(frames) = 1
    BY DEF IInv, Stacked
  <1> QED BY <1>1 DEF Top, SInv, Quiet

\* The frame when the handler goes on.
LEMMA FrameGoesOn ==
    ASSUME IInv, SInv, frames # <<>>, NEW l \in Handlers, Then(l)
    PROVE  /\ frames' # <<>>
           /\ frames'[1].vector = frames[1].vector /\ frames'[1].at = l
           /\ \E S : frames'[1] \in [vector : 0..(NumInt - 1), words : {IFrame}, flag : S,
                                     at : Handlers]
  <1> DEFINE f == frames[1]
             g == [f EXCEPT !.at = l]
  <1>1. 1 \in DOMAIN frames /\ Len(frames) = 1 /\ Serving(f)
    BY HandlerOnTop
  <1>2. frames' = [frames EXCEPT ![1] = g]
    BY <1>1 DEF Then
  <1>3. PICK S : f \in [vector : 0..(NumInt - 1), words : {IFrame}, flag : S, at : Handlers]
    BY <1>1 DEF Serving
  <1> HIDE DEF f
  <1>4. /\ g.vector = f.vector /\ g.at = l
        /\ g \in [vector : 0..(NumInt - 1), words : {IFrame}, flag : S, at : Handlers]
    BY <1>3
  <1> HIDE DEF g
  <1>5. frames'[1] = g /\ DOMAIN frames' = DOMAIN frames
    BY <1>1, <1>2
  <1>6. frames' # <<>>
    BY <1>1, <1>5
  <1> QED BY <1>4, <1>5, <1>6 DEF f

\* The handler runs.
LEMMA HandlerServes ==
    ASSUME IInv, SInv, Handler
    PROVE  SInv'
  <1> DEFINE f == frames[1]
  <1>1. frames # <<>>
    BY DEF Handler, Dispatch, IrqEoiSlave, IrqEoiMaster, IrqDriver, Iret, Die, In
  <1>2. Top = f /\ at # "pic_init" /\ Serving(f) /\ Len(frames) = 1
    BY <1>1, HandlerOnTop
  <1>i. PICK irq \in -32..15 : irq = f.vector - FirstVector
    <2>1. f.vector \in 0..(NumInt - 1)
      BY <1>2 DEF Serving
    <2> QED BY <2>1 DEF NumInt, FirstVector
  <1>3. /\ f.vector \in 0..(NumInt - 1)
        /\ f.at = "handler" => IF irq < 0 THEN NoneInService ELSE OnlyInService(irq)
        /\ f.at = "eoi_slave" => irq >= 8 /\ OnlyInService(irq)
        /\ f.at = "eoi_master" =>
              pic[2].isr = {} /\ \E line \in Lines : pic[1].isr \subseteq {line}
        /\ f.at \in {"driver", "iret", "die"} => NoneInService
    BY <1>i, <1>2 DEF Serving
  <1>4. UNCHANGED <<at, n>> /\ pic \in PicState
    BY DEF Handler, Dispatch, IrqEoiSlave, IrqEoiMaster, IrqDriver, Iret, Die, task,
           IInv, Typed
  <1>5. Irq = irq /\ (irq \in Irqs <=> irq >= 0)
    BY <1>i, <1>2 DEF Irq, Irqs
  <1>6. VectorsSet' /\ Quiet'
    <2>1. CASE UNCHANGED pic
      BY <1>2, <1>4, <2>1, VectorsStay DEF SameSetup
    <2>2. ASSUME NEW c \in 1..2, HandlerEoi(c) PROVE VectorsSet' /\ Quiet'
      BY <1>2, <1>4, <2>2, EoiKeeps, VectorsStay DEF HandlerEoi, AfterEoi
    <2> QED BY <2>1, <2>2
        DEF Handler, Dispatch, IrqEoiSlave, IrqEoiMaster, IrqDriver, Iret, Die, hardware
  <1>7. ASSUME NEW l \in Handlers, Then(l)
        PROVE  /\ frames' # <<>> /\ frames'[1].at = l
               /\ frames'[1].vector - FirstVector = irq
               /\ \E S : frames'[1] \in [vector : 0..(NumInt - 1), words : {IFrame},
                                         flag : S, at : Handlers]
    BY <1>i, <1>1, <1>7, FrameGoesOn
  <1> HIDE DEF f
  <1>8. CASE Dispatch
    <2>1. f.at = "handler" /\ UNCHANGED pic
      BY <1>2, <1>8 DEF Dispatch, In, hardware
    <2>2. CASE Irq \notin Irqs /\ Then("die")
      <3>1. NoneInService'
        BY <1>2, <1>3, <1>5, <2>1, <2>2 DEF NoneInService
      <3>2. frames' # <<>> /\ Serving(frames[1])'
        BY <1>7, <2>2, <3>1 DEF Serving, Handlers
      <3> QED BY <1>6, <3>2 DEF SInv, NothingLeftInService
    <2>3. CASE Irq \in Irqs /\ EndsAtSlave(Irq) /\ Then("eoi_slave")
      <3>1. irq >= 8 /\ OnlyInService(irq)'
        BY <1>2, <1>3, <1>5, <2>1, <2>3 DEF OnlyInService, EndsAtSlave
      <3>2. frames' # <<>> /\ Serving(frames[1])'
        BY <1>7, <2>3, <3>1 DEF Serving, Handlers
      <3> QED BY <1>6, <3>2 DEF SInv, NothingLeftInService
    <2>4. CASE Irq \in Irqs /\ ~EndsAtSlave(Irq) /\ Then("eoi_master")
      <3>1. irq \in Lines /\ pic'[2].isr = {} /\ pic'[1].isr \subseteq {irq}
        BY <1>2, <1>3, <1>5, <2>1, <2>4 DEF OnlyInService, EndsAtSlave, Lines, Irqs
      <3>2. frames' # <<>> /\ Serving(frames[1])'
        BY <1>7, <2>4, <3>1 DEF Serving, Handlers
      <3> QED BY <1>6, <3>2 DEF SInv, NothingLeftInService
    <2> QED BY <1>8, <2>2, <2>3, <2>4 DEF Dispatch
  <1>9. CASE IrqEoiSlave
    <2>1. irq >= 8 /\ OnlyInService(irq) /\ pic' = AfterEoi(pic, 2) /\ Then("eoi_master")
      BY <1>2, <1>3, <1>9 DEF IrqEoiSlave, In, HandlerEoi, AfterEoi
    <2>2. irq - 8 \in Lines /\ CascadeLine \in Lines
      BY <1>5, <2>1 DEF Lines, CascadeLine
    <2>3. pic'[2].isr = {} /\ pic'[1].isr \subseteq {CascadeLine}
      BY <1>4, <1>5, <2>1, <2>2, EoiServes DEF OnlyInService
    <2>4. frames' # <<>> /\ Serving(frames[1])'
      BY <1>7, <2>1, <2>2, <2>3 DEF Serving, Handlers
    <2> QED BY <1>6, <2>4 DEF SInv, NothingLeftInService
  <1>10. CASE IrqEoiMaster
    <2>1. /\ pic[2].isr = {} /\ \E line \in Lines : pic[1].isr \subseteq {line}
          /\ pic' = AfterEoi(pic, 1) /\ Then("driver")
      BY <1>2, <1>3, <1>10 DEF IrqEoiMaster, In, HandlerEoi, AfterEoi
    <2>2. NoneInService'
      BY <1>4, <2>1, EoiServes DEF NoneInService
    <2>3. frames' # <<>> /\ Serving(frames[1])'
      BY <1>7, <2>1, <2>2 DEF Serving, Handlers
    <2> QED BY <1>6, <2>3 DEF SInv, NothingLeftInService
  <1>11. CASE IrqDriver
    <2>1. NoneInService' /\ Then("iret")
      BY <1>2, <1>3, <1>11 DEF IrqDriver, In, hardware, NoneInService
    <2>2. frames' # <<>> /\ Serving(frames[1])'
      BY <1>7, <2>1 DEF Serving, Handlers
    <2> QED BY <1>6, <2>2 DEF SInv, NothingLeftInService
  <1>12. CASE Iret
    <2>1. NoneInService' /\ frames' = SubSeq(frames, 1, 0)
      BY <1>2, <1>3, <1>12 DEF Iret, In, hardware, NoneInService
    <2>2. frames' = <<>>
      BY <2>1, SubSeqEmpty
    <2> QED BY <1>6, <2>1, <2>2 DEF SInv, NothingLeftInService, NoneInService
  <1>13. CASE Die
    <2>1. UNCHANGED <<frames, pic>>
      BY <1>13 DEF Die, hardware
    <2>2. Serving(frames[1])'
      BY <1>2, <2>1 DEF Serving, NoneInService, OnlyInService, f
    <2> QED BY <1>1, <1>6, <2>1, <2>2 DEF SInv, NothingLeftInService
  <1> QED BY <1>8, <1>9, <1>10, <1>11, <1>12, <1>13 DEF Handler

\* pic_init reads the masks, and makes its writes.
LEMMA PicInitServes ==
    ASSUME IInv, SInv, SaveMasks \/ PicWrite
    PROVE  SInv'
  <1>1. frames = <<>> /\ frames' = <<>> /\ at = "pic_init" /\ intFlag' = intFlag
        /\ pic \in PicState /\ saved \in [1..2 -> SUBSET Lines]
    BY DEF SaveMasks, PicWrite, AtTask, IInv, Typed
  <1>2. CASE SaveMasks
    <2>1. pic' = pic /\ at' = at /\ n = 0 /\ n' = 1
      BY <1>2 DEF SaveMasks, hardware
    <2> QED BY <1>1, <2>1 DEF SInv, VectorsSet, Quiet, NothingLeftInService
  <1>3. CASE PicWrite
    <2> DEFINE w == PicWrites[n]
               c == w.chip
    <2>1. /\ n \in 1..12 /\ n' = n + 1
          /\ at' = (IF n = 12 THEN "pit_command" ELSE at)
          /\ pic' = [pic EXCEPT ![c] = IF w.port = "command" THEN Command(@, w.bits)
                                                             ELSE Data(@, w.bits)]
      BY <1>3 DEF PicWrite
    <2>2. /\ c = IF n % 2 = 1 THEN 1 ELSE 2
          /\ n \in 1..2 => w.port = "command" /\ w.bits = {ICW1_INIT, ICW1_ICW4}
          /\ n \in 3..12 => w.port = "data" /\ w.bits \in SUBSET Lines
      BY <1>1, <2>1, WritesByNumber
    <2>3. n \in 3..4 => w.bits = Bits(IF n = 3 THEN 32 ELSE 40)
      BY <2>1 DEF PicWrites, Offset
    <2> HIDE DEF w, c
    <2>4. Len(pic[1].icw) = Words(1) /\ Len(pic[2].icw) = Words(2) /\ c \in 1..2
      BY <2>2 DEF IInv, SetUp
    <2>5. CASE n \in 1..2
      <3>1. pic' = [pic EXCEPT ![c] = Command(@, {ICW1_INIT, ICW1_ICW4})]
        BY <2>1, <2>2, <2>5
      <3>2. pic'[c].isr = {} /\ \A d \in 1..2 \ {c} : pic'[d] = pic[d]
        <4>1. pic'[c].isr = {}
          BY <1>1, <2>4, <3>1, Icw1Serves
        <4>2. \A d \in 1..2 \ {c} : pic'[d] = pic[d]
          BY <1>1, <2>4, <3>1, Icw1Clears
        <4> QED BY <4>1, <4>2
      <3> QED BY <1>1, <2>1, <2>2, <2>5, <3>2
              DEF SInv, VectorsSet, Quiet, NothingLeftInService
    <2>6. CASE n \in 3..12
      <3> DEFINE b == w.bits
                 q == AfterData(pic, c, b)
      <3>1. pic' = q /\ b \in SUBSET Lines
        BY <2>1, <2>2, <2>6 DEF AfterData
      <3> HIDE DEF b
      <3>2. /\ SameService(pic, q)
            /\ \A d \in 1..2 \ {c} : q[d].icw = pic[d].icw
            /\ Len(pic[c].icw) = 0 => q[c].icw[1] = b
            /\ Len(pic[c].icw) > 0 => q[c].icw[1] = pic[c].icw[1]
        BY <1>1, <2>4, <3>1, DataServes
      <3> HIDE DEF q
      <3>3. /\ pic'[1].isr = pic[1].isr /\ pic'[2].isr = pic[2].isr
            /\ \A d \in 1..2 \ {c} : pic'[d].icw = pic[d].icw
            /\ Len(pic[c].icw) = 0 => pic'[c].icw[1] = b
            /\ Len(pic[c].icw) > 0 => pic'[c].icw[1] = pic[c].icw[1]
        BY <3>1, <3>2 DEF SameService
      <3>4. Quiet' /\ NothingLeftInService'
        BY <1>1, <2>1, <2>6, <3>3 DEF SInv, Quiet, NothingLeftInService
      <3>5. VectorsSet'
        <4>1. CASE n = 3
          <5>1. c = 1 /\ Len(pic[c].icw) = 0 /\ b = Bits(32)
            BY <1>1, <2>2, <2>3, <2>4, <4>1 DEF Words, b
          <5> QED BY <1>1, <2>1, <3>3, <4>1, <5>1 DEF VectorsSet
        <4>2. CASE n = 4
          <5>1. c = 2 /\ Len(pic[c].icw) = 0 /\ b = Bits(40)
            BY <1>1, <2>2, <2>3, <2>4, <4>2 DEF Words, b
          <5> QED BY <1>1, <2>1, <3>3, <4>2, <5>1 DEF SInv, VectorsSet
        <4>3. CASE n \in 5..12
          <5>1. Len(pic[c].icw) > 0
            BY <1>1, <2>2, <2>4, <4>3 DEF Words
          <5>2. pic'[1].icw[1] = pic[1].icw[1] /\ pic'[2].icw[1] = pic[2].icw[1]
            BY <2>4, <3>3, <5>1
          <5> QED BY <1>1, <4>3, <5>2 DEF SInv, VectorsSet
        <4> QED BY <2>6, <4>1, <4>2, <4>3
      <3> QED BY <1>1, <3>4, <3>5 DEF SInv
    <2> QED BY <2>1, <2>5, <2>6
  <1> QED BY <1>2, <1>3

\* Everything else a task does.
LEMMA TaskServes ==
    ASSUME IInv, SInv, frames = <<>>, frames' = <<>>, at # "pic_init", at' # "pic_init",
           UNCHANGED pic \/ Eoi \/ MaskOut
    PROVE  SInv'
  <1>1. pic[1].isr = {} /\ pic[2].isr = {} /\ pic \in PicState
    BY DEF SInv, NothingLeftInService, IInv, Typed
  <1>2. CASE UNCHANGED pic
    BY <1>1, <1>2, VectorsStay DEF SInv, NothingLeftInService, SameSetup
  <1>3. CASE Eoi
    <2> DEFINE q == IF EndsAtSlave(call.irq) THEN AfterEoi(pic, 2) ELSE pic
    <2>1. 0 \in Lines
      BY DEF Lines
    <2>2. q \in PicState /\ SameSetup(pic, q) /\ q[1].isr = {} /\ q[2].isr = {}
      BY <1>1, <2>1, EoiKeeps, EoiServes DEF SameSetup
    <2>3. pic' = AfterEoi(q, 1)
      BY <1>3 DEF Eoi, AfterEoi
    <2> HIDE DEF q
    <2>4. SameSetup(q, pic') /\ pic'[1].isr = {} /\ pic'[2].isr = {}
      BY <2>1, <2>2, <2>3, EoiKeeps, EoiServes
    <2>5. SameSetup(pic, pic')
      BY <2>2, <2>4 DEF SameSetup
    <2> QED BY <2>4, <2>5, VectorsStay DEF SInv, NothingLeftInService
  <1>4. CASE MaskOut
    <2> DEFINE c == Chip(call.irq)
               b == saved[1]
    <2>1. pic' = AfterData(pic, c, b)
      BY <1>4 DEF MaskOut, AfterData
    <2>2. c \in 1..2 /\ b \in SUBSET Lines
      BY LineAndChip DEF IInv, Typed
    <2>3. Len(pic[1].icw) = 3 /\ Len(pic[2].icw) = 3
      BY DEF IInv, SetUp, Words
    <2> HIDE DEF c, b
    <2>4. /\ SameService(pic, pic') /\ \A d \in 1..2 \ {c} : pic'[d].icw = pic[d].icw
          /\ Len(pic[c].icw) > 0 => pic'[c].icw[1] = pic[c].icw[1]
      BY <1>1, <2>1, <2>2, DataServes
    <2>5. pic'[1].icw[1] = pic[1].icw[1] /\ pic'[2].icw[1] = pic[2].icw[1]
      BY <2>2, <2>3, <2>4
    <2>6. VectorsSet' /\ Quiet'
      BY <2>5 DEF SInv, VectorsSet, Quiet
    <2> QED BY <1>1, <2>4, <2>6 DEF SInv, NothingLeftInService, SameService
  <1> QED BY <1>2, <1>3, <1>4

\* An exception.
LEMMA FaultServes ==
    ASSUME IInv, SInv, NEW v \in Faults, Fault(v)
    PROVE  SInv'
  <1>1. /\ frames = <<>> /\ at = "client" /\ at' = at /\ pic' = pic
        /\ Enter(v, v \in PushesErrorCode)
    BY DEF Fault, hardware, task
  <1>2. /\ v \in 0..(NumInt - 1) /\ v - FirstVector \in Int /\ v - FirstVector < 0
        /\ v \in PushesErrorCode <=> HasErrorCode(v)
    BY InterruptsAssumption DEF NumInt, FirstVector, PushesErrorCode, HasErrorCode
  <1>3. NoneInService'
    BY <1>1 DEF SInv, NothingLeftInService, NoneInService
  <1>4. frames' # <<>> /\ Serving(frames[1])'
    <2>1. Pushed(v, v \in PushesErrorCode) = IFrame
      <3>1. CASE HasErrorCode(v)
        <4>1. Pushed(v, TRUE) = IFrame
          BY <3>1, FrameWords
        <4> QED BY <1>2, <3>1, <4>1 DEF Pushed
      <3>2. CASE ~HasErrorCode(v)
        <4>1. Pushed(v, FALSE) = IFrame
          BY <3>2, FrameWords
        <4> QED BY <1>2, <3>2, <4>1 DEF Pushed
      <3> QED BY <3>1, <3>2
    <2>2. frames' = Append(frames, [vector |-> v, words |-> Pushed(v, v \in PushesErrorCode),
                                    flag |-> intFlag, at |-> "handler"])
      BY <1>1 DEF Enter
    <2>3. frames' = Append(frames, [vector |-> v, words |-> IFrame,
                                    flag |-> intFlag, at |-> "handler"])
      BY <2>1, <2>2
    <2> QED BY <1>1, <1>2, <1>3, <2>3, EntryServes
  <1>5. VectorsSet' /\ Quiet'
    BY <1>1, VectorsStay DEF SameSetup
  <1> QED BY <1>4, <1>5 DEF SInv, NothingLeftInService

-----------------------------------------------------------------------------
(* The theorems *)

\* Every reachable state satisfies the invariant.
THEOREM ServiceInvariance == Spec => []SInv
  <1>1. Init => SInv
    BY DEF Init, SInv, VectorsSet, Quiet, NothingLeftInService
  <1>2. IInv /\ SInv /\ [Next]_vars => SInv'
    <2> SUFFICES ASSUME IInv, SInv, [Next]_vars PROVE SInv'
      OBVIOUS
    <2>1. CASE Hardware
      BY <2>1, HardwareServes
    <2>2. CASE Handler
      BY <2>2, HandlerServes
    <2>3. CASE SaveMasks \/ PicWrite
      BY <2>3, PicInitServes
    <2>4. CASE PitCommand \/ PitLow \/ PitHigh \/ ReadCount \/ ReadLow \/ ReadHigh
               \/ Restore \/ Cli \/ Sti
      <3>1. /\ frames = <<>> /\ frames' = <<>> /\ pic' = pic
            /\ at # "pic_init" /\ at' # "pic_init"
        BY <2>4 DEF PitCommand, PitLow, PitHigh, ReadCount, ReadLow, ReadHigh, Restore,
                    Cli, Sti, AtTask, hardware, task
      <3> QED BY <3>1, TaskServes
    <2>5. CASE Eoi \/ MaskIn \/ MaskOut
      <3>1. call.next # "pic_init"
        BY DEF IInv, Typed
      <3>2. /\ frames = <<>> /\ frames' = <<>> /\ at # "pic_init" /\ at' # "pic_init"
            /\ UNCHANGED pic \/ Eoi \/ MaskOut
        BY <2>5, <3>1 DEF Eoi, MaskIn, MaskOut, AtTask, hardware
      <3> QED BY <3>2, TaskServes
    <2>6. ASSUME NEW i \in Drivers, Install(i) \/ Close(i) PROVE SInv'
      <3>1. /\ frames = <<>> /\ frames' = <<>> /\ pic' = pic
            /\ at # "pic_init" /\ at' # "pic_init"
        BY <2>6 DEF Install, Close, AtTask, hardware
      <3> QED BY <3>1, TaskServes
    <2>7. ASSUME NEW v \in Faults, Fault(v) PROVE SInv'
      BY <2>7, FaultServes
    <2>8. CASE UNCHANGED vars
      BY <2>8 DEF vars, hardware, task, SInv, VectorsSet, Quiet, NothingLeftInService,
                  Serving, NoneInService, OnlyInService
    <2> QED BY <2>1, <2>2, <2>3, <2>4, <2>5, <2>6, <2>7, <2>8
            DEF Next, TaskStep, Setup, Client
  <1> QED BY <1>1, <1>2, InterruptsInvariance, PTL DEF Spec

\* Between handlers no interrupt is left in service in either controller,
\* spurious ones and those of the second controller included: every handler
\* ends what it serves where it is served, once (pic.c:117).
THEOREM EachServiceEnds == Spec => []NothingLeftInService
  <1>1. IInv /\ SInv => NothingLeftInService
    BY DEF SInv, NothingLeftInService
  <1> QED BY <1>1, InterruptsInvariance, ServiceInvariance, PTL

\* Every handler finds a struct x86_iframe on its stack, for every exception
\* and interrupt, and a vector of the table x86_init has filled.
THEOREM FramesAsExpected == Spec => []FramesWellFormed
  <1>1. IInv /\ SInv => FramesWellFormed
    <2> SUFFICES ASSUME IInv, SInv, NEW k \in DOMAIN frames
                 PROVE  frames[k].words = IFrame /\ frames[k].vector \in 0..(NumInt - 1)
      BY DEF FramesWellFormed
    <2>1. frames # <<>>
      OBVIOUS
    <2>2. PICK S : frames \in Seq(S) /\ Len(frames) = 1
      BY <2>1 DEF IInv, Stacked
    <2>3. k = 1
      BY <2>2
    <2> QED BY <2>1, <2>3 DEF SInv, Serving
  <1> QED BY <1>1, InterruptsInvariance, ServiceInvariance, PTL

-----------------------------------------------------------------------------
(* Interrupts implements IrqService: what the drivers see of the controllers *)

Requests(p) == {i \in Irqs : Line(i) \in p[Chip(i)].irr}
Open(p)     == {i \in Irqs : Line(i) \notin p[Chip(i)].imr}

\* p and q have the same requests.
SameRequests(p, q) == \A c \in 1..2 : q[c].irr = p[c].irr

\* What the drivers see is what the chips' records say.
LEMMA SameView ==
    ASSUME NEW p, NEW q
    PROVE  /\ SameRequests(p, q) => Requests(q) = Requests(p)
           /\ SameSetup(p, q) => Open(q) = Open(p)
  BY LineAndChip DEF SameRequests, SameSetup, Requests, Open

\* Taking a request back takes back that one only.
LEMMA WithdrawTakes ==
    ASSUME NEW p \in PicState, NEW i \in Irqs
    PROVE  Requests(Withdraw(p, i)) = Requests(p) \ {i}
  <1> DEFINE q == Withdraw(p, i)
  <1>1. /\ q[Chip(i)].irr = p[Chip(i)].irr \ {Line(i)}
        /\ \A c \in 1..2 \ {Chip(i)} : q[c].irr = p[c].irr
    BY LineAndChip DEF Withdraw, PicState, ChipState
  <1> HIDE DEF q
  <1>2. ASSUME NEW j \in Irqs
        PROVE  Line(j) \in q[Chip(j)].irr <=> Line(j) \in p[Chip(j)].irr /\ j # i
    <2>1. Chip(j) \in 1..2
      BY LineAndChip
    <2>2. CASE Chip(j) = Chip(i)
      BY <1>1, <2>2, LineOfOne
    <2>3. CASE Chip(j) # Chip(i)
      BY <1>1, <2>1, <2>3
    <2> QED BY <2>2, <2>3
  <1> QED BY <1>2 DEF Requests, q

\* A service is no request.
LEMMA ServeAsks ==
    ASSUME NEW p \in PicState, NEW i \in Irqs
    PROVE  SameRequests(p, Serve(p, i))
  BY LineAndChip DEF Serve, PicState, ChipState, SameRequests

\* Either acknowledge cycle takes the request and leaves the others.
LEMMA AcknowledgeTakes ==
    ASSUME NEW p \in PicState, NEW i \in Irqs
    PROVE  /\ Requests(Acknowledge(p, i)) = Requests(p) \ {i}
           /\ Requests(AcknowledgeLate(p, i)) = Requests(p) \ {i}
  <1> DEFINE w == Withdraw(p, i)
             s == Serve(w, CascadeLine)
  <1>1. CascadeLine \in Irqs
    BY DEF CascadeLine, Irqs
  <1>2. w \in PicState /\ Requests(w) = Requests(p) \ {i}
    BY WithdrawKeeps, WithdrawTakes
  <1> HIDE DEF w
  <1>3. s \in PicState /\ Requests(s) = Requests(w)
    BY <1>1, <1>2, ServeKeeps, ServeAsks, SameView
  <1> HIDE DEF s
  <1>4. Requests(Serve(w, i)) = Requests(w) /\ Requests(Serve(s, i)) = Requests(s)
    BY <1>2, <1>3, ServeAsks, SameView
  <1>5. /\ Acknowledge(p, i) = IF i < 8 THEN Serve(w, i) ELSE Serve(s, i)
        /\ AcknowledgeLate(p, i) = IF i < 8 THEN w ELSE s
    BY DEF Acknowledge, AcknowledgeLate, w, s
  <1> QED BY <1>2, <1>3, <1>4, <1>5

\* An EOI is no request either.
LEMMA EoiAsks ==
    ASSUME NEW p \in PicState, NEW c \in 1..2
    PROVE  SameRequests(p, AfterEoi(p, c))
  <1>1. Command(p[c], PIC_EOI) = [p[c] EXCEPT !.isr = IF @ = {} THEN @ ELSE @ \ {Min(@)}]
    BY DEF Command, PIC_EOI, ICW1_INIT
  <1>2. Command(p[c], PIC_EOI).irr = p[c].irr
    BY <1>1 DEF PicState, ChipState
  <1> HIDE DEF Command
  <1> QED BY <1>2 DEF AfterEoi, PicState, SameRequests

\* Nor is a byte to the data port.
LEMMA DataAsks ==
    ASSUME NEW p \in PicState, NEW c \in 1..2, NEW bits \in SUBSET Lines
    PROVE  SameRequests(p, AfterData(p, c, bits))
  <1> DEFINE d == Data(p[c], bits)
  <1>1. d.irr = p[c].irr
    BY DEF Data, PicState, ChipState
  <1> HIDE DEF d
  <1>2. AfterData(p, c, bits) = [p EXCEPT ![c] = d]
    BY DEF AfterData, d
  <1> QED BY <1>1, <1>2 DEF PicState, SameRequests

\* ICW1 forgets the requests of its chip.
LEMMA Icw1Forgets ==
    ASSUME NEW p \in PicState, NEW c \in 1..2
    PROVE  LET q == [p EXCEPT ![c] = Command(@, {ICW1_INIT, ICW1_ICW4})]
           IN  Requests(q) \subseteq Requests(p) /\ q[c].irr = {}
  <1> DEFINE q == [p EXCEPT ![c] = Command(@, {ICW1_INIT, ICW1_ICW4})]
  <1>1. q[c].irr = {} /\ \A d \in 1..2 \ {c} : q[d] = p[d]
    BY DEF Command, PicState
  <1> HIDE DEF q
  <1> QED BY <1>1, LineAndChip DEF Requests, q

-----------------------------------------------------------------------------
(* Priority *)

\* The highest priority of a set of lines.
LEMMA MinOf ==
    ASSUME NEW S \in SUBSET Lines, S # {}
    PROVE  Min(S) \in S /\ \A k \in S : Min(S) <= k
  <1>1. \A k \in S : k = 0 \/ k = 1 \/ k = 2 \/ k = 3 \/ k = 4 \/ k = 5 \/ k = 6 \/ k = 7
    BY DEF Lines
  <1>2. \E m \in S : \A k \in S : m <= k
    <2>1. CASE 0 \in S
      BY <1>1, <2>1
    <2>2. CASE 0 \notin S /\ 1 \in S
      BY <1>1, <2>2
    <2>3. CASE 0 \notin S /\ 1 \notin S /\ 2 \in S
      BY <1>1, <2>3
    <2>4. CASE S \cap {0, 1, 2} = {} /\ 3 \in S
      BY <1>1, <2>4
    <2>5. CASE S \cap {0, 1, 2, 3} = {} /\ 4 \in S
      BY <1>1, <2>5
    <2>6. CASE S \cap {0, 1, 2, 3, 4} = {} /\ 5 \in S
      BY <1>1, <2>6
    <2>7. CASE S \cap {0, 1, 2, 3, 4, 5} = {} /\ 6 \in S
      BY <1>1, <2>7
    <2>8. CASE S \cap {0, 1, 2, 3, 4, 5, 6} = {}
      BY <1>1, <2>8
    <2> QED BY <2>1, <2>2, <2>3, <2>4, <2>5, <2>6, <2>7, <2>8
  <1> QED BY <1>2 DEF Min

\* With nothing in service, the request that wins the acknowledge cycle is the
\* one of highest priority of all those that are not masked.
LEMMA WinnerIsFirst ==
    ASSUME pic \in PicState, pic[1].isr = {}, pic[2].isr = {}, CascadeLine \notin pic[1].irr,
           NEW i \in Irqs, Wins(pic, i)
    PROVE  Service!First(i)
  <1> DEFINE m == MasterSignals(pic)
             s == SlaveSignals(pic)
             rq == Requests(pic)
             op == Open(pic)
  <1>1. /\ pic[1].irr \subseteq Lines /\ pic[2].irr \subseteq Lines
        /\ CascadeLine \in Lines
    BY DEF PicState, ChipState, CascadeLine, Lines
  <1>2. s = pic[2].irr \ pic[2].imr /\ s \subseteq Lines
    BY <1>1 DEF SlaveSignals, Signalled
  <1>3. /\ m = (pic[1].irr \cup (IF s = {} THEN {} ELSE {CascadeLine})) \ pic[1].imr
        /\ m \subseteq Lines
    BY <1>1 DEF MasterSignals, Signalled
  <1>4. /\ m # {}
        /\ \/ i < 8 /\ i = Min(m) /\ i # CascadeLine
           \/ i >= 8 /\ CascadeLine = Min(m) /\ Line(i) = Min(s)
    BY DEF Wins
  <1> HIDE DEF m, s
  <1>5. Min(m) \in m /\ \A k \in m : Min(m) <= k
    BY <1>3, <1>4, MinOf
  <1>6. \A j \in Irqs : /\ j < 8 => Chip(j) = 1 /\ Line(j) = j
                        /\ ~(j < 8) => Chip(j) = 2 /\ Line(j) = j - 8
    BY DEF Irqs, Chip, Line
  <1>7. \A j \in Irqs : /\ j \in rq <=> j \in Irqs /\ Line(j) \in pic[Chip(j)].irr
                        /\ j \in op <=> j \in Irqs /\ Line(j) \notin pic[Chip(j)].imr
    BY DEF Requests, Open
  <1>8. \A j \in Irqs : j < 8 => (j \in rq /\ Service!Deliverable(j)
                                   <=> j \in pic[1].irr /\ j \notin pic[1].imr)
    BY <1>6, <1>7 DEF Service!Deliverable, Irqs, Open
  <1>9. 2 \in op <=> CascadeLine \notin pic[1].imr
    BY <1>6, <1>7 DEF CascadeLine, Irqs
  <1>10. \A j \in Irqs : ~(j < 8) => (j \in rq /\ Service!Deliverable(j)
              <=> /\ j - 8 \in pic[2].irr /\ j - 8 \notin pic[2].imr
                  /\ CascadeLine \notin pic[1].imr)
    BY <1>6, <1>7, <1>9 DEF Service!Deliverable, Irqs, Open
  <1> HIDE DEF rq, op
  <1>11. CASE i < 8
    <2>1. i = Min(m) /\ i # CascadeLine /\ i \in pic[1].irr /\ i \notin pic[1].imr
      BY <1>3, <1>4, <1>5, <1>11 DEF Irqs
    <2>2. ASSUME NEW j \in Irqs, j \in rq, Service!Deliverable(j)
          PROVE  Service!Rank(i) <= Service!Rank(j)
      <3>1. CASE j < 8
        <4>1. j \in m /\ j # CascadeLine
          BY <1>3, <1>8, <2>2, <3>1
        <4>2. i <= j
          BY <1>5, <2>1, <4>1
        <4> QED BY <1>11, <2>1, <3>1, <4>1, <4>2 DEF Service!Rank, Irqs, CascadeLine
      <3>2. CASE ~(j < 8)
        <4>1. j - 8 \in s /\ CascadeLine \in m
          BY <1>2, <1>3, <1>10, <2>2, <3>2
        <4>2. i <= CascadeLine
          BY <1>5, <2>1, <4>1
        <4> QED BY <1>11, <2>1, <3>2, <4>2 DEF Service!Rank, Irqs, CascadeLine
      <3> QED BY <3>1, <3>2
    <2>3. i \in rq /\ Service!Deliverable(i)
      BY <1>8, <1>11, <2>1
    <2> QED BY <2>2, <2>3 DEF Service!First, rq, Requests
  <1>12. CASE ~(i < 8)
    <2>1. CascadeLine = Min(m) /\ i - 8 = Min(s)
      BY <1>4, <1>6, <1>12 DEF Irqs
    <2>2. CascadeLine \notin pic[1].imr /\ s # {}
      BY <1>3, <1>5, <2>1
    <2>3. Min(s) \in s /\ \A k \in s : Min(s) <= k
      BY <1>2, <2>2, MinOf
    <2>4. i \in rq /\ Service!Deliverable(i)
      BY <1>2, <1>10, <1>12, <2>1, <2>2, <2>3
    <2>5. ASSUME NEW j \in Irqs, j \in rq, Service!Deliverable(j)
          PROVE  Service!Rank(i) <= Service!Rank(j)
      <3>1. CASE j < 8
        <4>1. j \in m /\ j # CascadeLine
          BY <1>3, <1>8, <2>5, <3>1
        <4>2. CascadeLine <= j
          BY <1>5, <2>1, <4>1
        <4> QED BY <1>12, <3>1, <4>1, <4>2 DEF Service!Rank, Irqs, CascadeLine
      <3>2. CASE ~(j < 8)
        <4>1. j - 8 \in s
          BY <1>2, <1>10, <2>5, <3>2
        <4>2. i - 8 <= j - 8
          BY <2>1, <2>3, <4>1
        <4> QED BY <1>12, <3>2, <4>2 DEF Service!Rank, Irqs
      <3> QED BY <3>1, <3>2
    <2> QED BY <2>4, <2>5 DEF Service!First, rq, Requests
  <1> QED BY <1>11, <1>12

-----------------------------------------------------------------------------
(* The clock *)

\* Division with remainder is unique.
LEMMA RemainderOf ==
    ASSUME NEW R \in Nat \ {0}, NEW q \in Nat, NEW r \in 0..(R - 1)
    PROVE  (R * q + r) % R = r
  OBVIOUS

\* Adding before or after taking the remainder.
LEMMA RemainderOfSum ==
    ASSUME NEW R \in Nat \ {0}, NEW a \in Nat, NEW b \in Nat
    PROVE  ((a % R) + b) % R = (a + b) % R
  <1> DEFINE q == a \div R
             r == a % R
             u == (r + b) \div R
             v == (r + b) % R
  <1>1. q \in Nat /\ r \in 0..(R - 1) /\ a = R * q + r
    OBVIOUS
  <1> HIDE DEF q, r
  <1>2. r + b \in Nat
    BY <1>1
  <1>3. u \in Nat /\ v \in 0..(R - 1) /\ r + b = R * u + v
    BY <1>2
  <1> HIDE DEF u, v
  <1>4. a + b = R * (q + u) + v
    BY <1>1, <1>3
  <1>5. q + u \in Nat
    BY <1>1, <1>3
  <1>6. (R * (q + u) + v) % R = v
    BY <1>3, <1>5, RemainderOf
  <1> QED BY <1>4, <1>6 DEF v, r

\* Multiplying before or after taking the remainder.
LEMMA RemainderOfProduct ==
    ASSUME NEW R \in Nat \ {0}, NEW a \in Nat
    PROVE  ((a % R) * 10) % R = (a * 10) % R
  <1> DEFINE q == a \div R
             r == a % R
             u == (r * 10) \div R
             v == (r * 10) % R
  <1>1. q \in Nat /\ r \in 0..(R - 1) /\ a = R * q + r
    OBVIOUS
  <1> HIDE DEF q, r
  <1>2. r * 10 \in Nat
    BY <1>1
  <1>3. u \in Nat /\ v \in 0..(R - 1) /\ r * 10 = R * u + v
    BY <1>2
  <1> HIDE DEF u, v
  <1>4. a * 10 = R * (q * 10 + u) + v
    BY <1>1, <1>3
  <1>5. q * 10 + u \in Nat
    BY <1>1, <1>3
  <1>6. (R * (q * 10 + u) + v) % R = v
    BY <1>3, <1>5, RemainderOf
  <1> QED BY <1>4, <1>6 DEF v, r

\* One tick is ten milliseconds, where timer_ticks wraps as well.
LEMMA TickAdvances ==
    ASSUME NEW R \in Nat \ {0}, NEW t \in Nat
    PROVE  (((t + 1) % R) * 10) % R = (((t * 10) % R) + 10) % R
  <1>1. (((t + 1) % R) * 10) % R = ((t + 1) * 10) % R
    <2>1. t + 1 \in Nat
      OBVIOUS
    <2> QED BY <2>1, RemainderOfProduct
  <1>2. (((t * 10) % R) + 10) % R = (t * 10 + 10) % R
    <2>1. t * 10 \in Nat
      OBVIOUS
    <2> QED BY <2>1, RemainderOfSum
  <1> QED BY <1>1, <1>2

-----------------------------------------------------------------------------
(* The ranges of the variables *)

\* The timer counts from PIT_COUNTDOWN down to 1 once pit_init has programmed
\* it, and what is read of it is no more.
CountRanges ==
    /\ ticks \in 0..(TickRange - 1) /\ n \in 0..13
    /\ at \in {"pic_init", "pit_command", "pit_lo", "pit_hi"}
          => pit.mode # "running" /\ pit.count = 0
    /\ at = "pit_hi" => pit.lo = Countdown % ByteBase
    /\ at \notin {"pic_init", "pit_command", "pit_lo", "pit_hi"}
          => pit.mode = "running" /\ pit.count \in 1..Countdown
    /\ seen \subseteq 1..Countdown
    /\ at \notin {"read_hi", "restore"} \/ seen = {} => val = 0

FlagRanges ==
    /\ intFlag \in BOOLEAN /\ flags \in BOOLEAN
    /\ frames # <<>> => frames[1].flag \in BOOLEAN

Ranges == CountRanges /\ FlagRanges /\ CascadeLine \notin pic[1].irr

\* The timer chip: a count runs from the countdown to 1.
LEMMA CountInRange ==
    ASSUME NEW c \in 1..Countdown
    PROVE  NextCount(c) \in 1..Countdown
  BY InterruptsAssumption DEF NextCount

\* No device is on the line of the second controller.
LEMMA CascadeNotAsked ==
    ASSUME NEW p \in PicState, NEW i \in Irqs, i # CascadeLine, CascadeLine \notin p[1].irr
    PROVE  CascadeLine \notin Request(p, i)[1].irr
  BY LineAndChip DEF Request, PicState, ChipState, Chip, Line, CascadeLine, Irqs

\* And none appears there when requests are only taken back.
LEMMA NoCascade ==
    ASSUME NEW p \in PicState, NEW q \in PicState, CascadeLine \notin p[1].irr,
           Requests(q) \subseteq Requests(p)
    PROVE  CascadeLine \notin q[1].irr
  <1>1. CascadeLine \in Irqs /\ Chip(CascadeLine) = 1 /\ Line(CascadeLine) = CascadeLine
    BY DEF CascadeLine, Irqs, Chip, Line
  <1>2. CascadeLine \notin Requests(p)
    BY <1>1 DEF Requests
  <1>3. CascadeLine \notin Requests(q)
    BY <1>2
  <1> QED BY <1>1, <1>3 DEF Requests

\* The devices and the timer chip keep the ranges.
LEMMA HardwareRanges ==
    ASSUME IInv, Ranges, Hardware
    PROVE  Ranges'
  <1>1. /\ Devices \subseteq Irqs \ {CascadeLine} /\ TIMER \in Irqs \ {CascadeLine}
        /\ pic \in PicState /\ TickRange \in Nat \ {0}
    BY InterruptsAssumption DEF Irqs, TIMER, CascadeLine, IInv, Typed
  <1>2. UNCHANGED <<at, n, ticks, val, flags>>
    BY DEF Hardware, Clock, Raise, Accept, AcceptLate, task
  <1>3. (Count /\ Running) \/ UNCHANGED <<pit, seen>>
    BY DEF Hardware, Clock, Raise, Accept, AcceptLate, task
  <1>4. CascadeLine \notin pic'[1].irr
    <2>1. CASE Clock
      <3>1. \/ pic' = Request(pic, TIMER)
            \/ pic' = Withdraw(pic, TIMER) \/ pic' = pic
        BY <2>1 DEF Clock
      <3>2. Withdraw(pic, TIMER) \in PicState /\ Requests(Withdraw(pic, TIMER)) \subseteq Requests(pic)
        BY <1>1, WithdrawKeeps, WithdrawTakes
      <3> QED BY <1>1, <3>1, <3>2, CascadeNotAsked, NoCascade DEF Ranges
    <2>2. ASSUME NEW i \in Devices, Raise(i) PROVE CascadeLine \notin pic'[1].irr
      BY <1>1, <2>2, CascadeNotAsked DEF Raise, Ranges
    <2>3. ASSUME NEW i \in Devices, Accept(i) \/ AcceptLate(i)
          PROVE  CascadeLine \notin pic'[1].irr
      <3>1. pic' = Acknowledge(pic, i) \/ pic' = AcknowledgeLate(pic, i)
        BY <2>3 DEF Accept, AcceptLate
      <3>2. pic' \in PicState /\ Requests(pic') \subseteq Requests(pic)
        BY <1>1, <3>1, AcknowledgeKeeps, AcknowledgeTakes
      <3> QED BY <1>1, <3>2, NoCascade DEF Ranges
    <2> QED BY <2>1, <2>2, <2>3 DEF Hardware
  <1>5. intFlag' \in BOOLEAN /\ (frames' # <<>> => frames'[1].flag \in BOOLEAN)
    <2>1. CASE UNCHANGED <<intFlag, frames>>
      BY <2>1 DEF Ranges, FlagRanges
    <2>2. CASE intFlag /\ \E v : Enter(v, FALSE)
      <3>1. PICK v : Enter(v, FALSE)
        BY <2>2
      <3>2. frames = <<>>
        BY <2>2 DEF IInv, Stacked
      <3> DEFINE f == [vector |-> v, words |-> Pushed(v, FALSE), flag |-> intFlag,
                       at |-> "handler"]
      <3>3. frames' = Append(frames, f) /\ f.flag = intFlag
        BY <3>1 DEF Enter
      <3> HIDE DEF f
      <3>4. frames'[1] = f
        BY <3>2, <3>3
      <3> QED BY <3>1, <3>3, <3>4 DEF Enter, Gate, Ranges, FlagRanges
    <2> QED BY <2>1, <2>2 DEF Hardware, Clock, Raise, Accept, AcceptLate
  <1>6. CASE UNCHANGED <<pit, seen>>
    <2>1. CountRanges'
      BY <1>2, <1>6 DEF Ranges, CountRanges
    <2>2. FlagRanges'
      BY <1>2, <1>5 DEF Ranges, FlagRanges
    <2> QED BY <1>4, <2>1, <2>2 DEF Ranges
  <1>7. CASE Count /\ Running
    <2>1. at \notin {"pic_init", "pit_command", "pit_lo", "pit_hi"} /\ pit.count \in 1..Countdown
      BY <1>7 DEF Running, Ranges, CountRanges
    <2>2. NextCount(pit.count) \in 1..Countdown
      BY <2>1, CountInRange
    <2>3. pit'.mode = pit.mode /\ pit'.count = NextCount(pit.count)
      BY <1>7 DEF Count, IInv, Typed
    <2>4. seen' \subseteq 1..Countdown /\ (seen' = {} => seen = {})
      BY <1>7, <2>2 DEF Count, Ranges, CountRanges
    <2>5. CountRanges'
      BY <1>2, <1>7, <2>1, <2>2, <2>3, <2>4 DEF Ranges, CountRanges, Running
    <2>6. FlagRanges'
      BY <1>2, <1>5 DEF Ranges, FlagRanges
    <2> QED BY <1>4, <2>5, <2>6 DEF Ranges
  <1> QED BY <1>3, <1>6, <1>7

\* The handlers keep them: the tick count wraps, and iret restores a flag.
LEMMA HandlerRanges ==
    ASSUME IInv, SInv, Ranges, Handler
    PROVE  Ranges'
  <1>1. frames # <<>>
    BY DEF Handler, Dispatch, IrqEoiSlave, IrqEoiMaster, IrqDriver, Iret, Die, In
  <1>2. Top = frames[1] /\ 1 \in DOMAIN frames /\ Len(frames) = 1
    BY <1>1, HandlerOnTop
  <1>3. UNCHANGED <<pit, at, n, seen, val, flags>> /\ pic \in PicState
    BY DEF Handler, Dispatch, IrqEoiSlave, IrqEoiMaster, IrqDriver, Iret, Die, task,
           hardware, IInv, Typed
  <1>4. ticks' \in 0..(TickRange - 1)
    <2>1. \A t \in Nat : t % TickRange \in 0..(TickRange - 1)
      BY InterruptsAssumption
    <2>2. CASE IrqDriver
      BY <2>1, <2>2, InterruptsAssumption DEF IrqDriver, PitIrq, Ranges, CountRanges
    <2>3. CASE ~IrqDriver
      BY <2>3 DEF Handler, Dispatch, IrqEoiSlave, IrqEoiMaster, Iret, Die, Ranges, CountRanges
    <2> QED BY <2>2, <2>3
  <1>5. CascadeLine \notin pic'[1].irr
    <2>1. ASSUME NEW c \in 1..2, pic' = AfterEoi(pic, c) PROVE CascadeLine \notin pic'[1].irr
      BY <1>3, <2>1, EoiAsks DEF SameRequests, Ranges
    <2>2. UNCHANGED pic \/ \E c \in 1..2 : pic' = AfterEoi(pic, c)
      BY DEF Handler, Dispatch, IrqEoiSlave, IrqEoiMaster, IrqDriver, Iret, Die,
             hardware, HandlerEoi, AfterEoi
    <2> QED BY <2>1, <2>2 DEF Ranges
  <1>6. intFlag' \in BOOLEAN /\ (frames' # <<>> => frames'[1].flag \in BOOLEAN)
    <2>1. ASSUME NEW l, Then(l) PROVE frames'[1].flag = frames[1].flag
      <3> DEFINE f == frames[1]
                 g == [f EXCEPT !.at = l]
      <3>1. frames' = [frames EXCEPT ![1] = g]
        BY <1>2, <2>1 DEF Then
      <3>2. PICK S : f \in [vector : 0..(NumInt - 1), words : {IFrame}, flag : S, at : Handlers]
        BY <1>1, HandlerOnTop DEF Serving
      <3> HIDE DEF f
      <3>3. g.flag = f.flag
        BY <3>2
      <3> HIDE DEF g
      <3> QED BY <1>2, <3>1, <3>3 DEF f
    <2>2. CASE Iret
      <3>1. frames' = SubSeq(frames, 1, 0)
        BY <1>2, <2>2 DEF Iret
      <3>2. frames' = <<>>
        BY <3>1, SubSeqEmpty
      <3> QED BY <1>1, <1>2, <2>2, <3>2 DEF Iret, Ranges, FlagRanges
    <2>3. CASE Die
      BY <2>3 DEF Die, Ranges, FlagRanges
    <2>4. CASE Dispatch \/ IrqEoiSlave \/ IrqEoiMaster \/ IrqDriver
      BY <1>1, <2>1, <2>4 DEF Dispatch, IrqEoiSlave, IrqEoiMaster, IrqDriver,
             Ranges, FlagRanges
    <2> QED BY <2>2, <2>3, <2>4 DEF Handler
  <1>7. CountRanges'
    BY <1>3, <1>4 DEF Ranges, CountRanges
  <1>8. FlagRanges'
    BY <1>3, <1>6 DEF Ranges, FlagRanges
  <1> QED BY <1>5, <1>7, <1>8 DEF Ranges

\* What the task below the handlers does keeps them.
LEMMA TaskCountRanges ==
    ASSUME IInv, Ranges, TaskStep \/ Client
    PROVE  CountRanges'
  <1> USE DEF AtTask, hardware, task
  <1>0. /\ Countdown \in Nat \ {0} /\ ByteBase \in Nat \ {0}
        /\ (Countdown % ByteBase) + ByteBase * (Countdown \div ByteBase) = Countdown
    BY InterruptsAssumption
  <1>1. CASE SaveMasks \/ PicWrite
    <2>1. /\ UNCHANGED <<pit, ticks, val, seen>> /\ n' \in 0..13 /\ at = "pic_init"
          /\ at' \in {"pic_init", "pit_command"}
      BY <1>1 DEF SaveMasks, PicWrite
    <2> QED BY <2>1 DEF Ranges, CountRanges
  <1>2. CASE PitCommand \/ PitLow
    BY <1>2 DEF PitCommand, PitLow, Ranges, CountRanges, IInv, Typed
  <1>3. CASE PitHigh
    <2>1. pit.lo = Countdown % ByteBase
      BY <1>3 DEF PitHigh, Ranges, CountRanges
    <2>2. pit'.mode = "running" /\ pit'.count = Countdown
      BY <1>0, <1>3, <2>1 DEF PitHigh, IInv, Typed
    <2> QED BY <1>0, <1>3, <2>2 DEF PitHigh, Ranges, CountRanges
  <1>4. CASE ReadCount
    <2>1. pit'.mode = pit.mode /\ pit'.count = pit.count
      BY <1>4 DEF ReadCount, IInv, Typed
    <2> QED BY <1>4, <2>1 DEF ReadCount, Ranges, CountRanges
  <1>5. CASE ReadLow \/ ReadHigh
    <2>1. pit'.mode = pit.mode /\ pit'.count = pit.count
      BY <1>5 DEF ReadLow, ReadHigh, ReadPort, IInv, Typed
    <2>2. seen # {}
      BY <1>5 DEF ReadLow, ReadHigh, IInv, CountKept
    <2> QED BY <1>5, <2>1, <2>2 DEF ReadLow, ReadHigh, Ranges, CountRanges
  <1>6. CASE Restore
    BY <1>6 DEF Restore, Ranges, CountRanges
  <1>7. CASE Eoi \/ MaskIn \/ MaskOut
    <2>1. call.next \in {"client", "restore"}
      BY DEF IInv, Typed
    <2>2. seen = {} /\ at \notin {"pic_init", "pit_command", "pit_lo", "pit_hi"}
      BY <1>7 DEF Eoi, MaskIn, MaskOut, IInv, CountKept
    <2>3. UNCHANGED <<pit, seen, ticks, n, val>>
          /\ at' \in {"mask_in", "mask_out", "client", "restore"}
      BY <1>7, <2>1 DEF Eoi, MaskIn, MaskOut
    <2> QED BY <2>2, <2>3 DEF Ranges, CountRanges
  <1>8. ASSUME NEW i \in Drivers, Install(i) \/ Close(i) PROVE CountRanges'
    BY <1>8 DEF Install, Close, Ranges, CountRanges
  <1>9. CASE Cli \/ Sti \/ \E v \in Faults : Fault(v)
    BY <1>9 DEF Cli, Sti, Fault, Ranges, CountRanges
  <1> QED BY <1>1, <1>2, <1>3, <1>4, <1>5, <1>6, <1>7, <1>8, <1>9
          DEF TaskStep, Setup, Client

\* What it does to the controllers is no request.
LEMMA TaskAsks ==
    ASSUME IInv, TaskStep \/ Client
    PROVE  Requests(pic') \subseteq Requests(pic) /\ pic' \in PicState
  <1>0. pic \in PicState
    BY DEF IInv, Typed
  <1>1. CASE UNCHANGED pic
    BY <1>0, <1>1
  <1>2. CASE PicWrite
    <2> DEFINE w == PicWrites[n]
               c == w.chip
               b == w.bits
    <2>1. /\ n \in 1..12
          /\ pic' = [pic EXCEPT ![c] = IF w.port = "command" THEN Command(@, b)
                                                             ELSE Data(@, b)]
      BY <1>2 DEF PicWrite
    <2>2. saved \in [1..2 -> SUBSET Lines]
      BY DEF IInv, Typed
    <2>3. /\ c \in 1..2
          /\ n \in 1..2 => w.port = "command" /\ b = {ICW1_INIT, ICW1_ICW4}
          /\ n \in 3..12 => w.port = "data" /\ b \in SUBSET Lines
      BY <2>1, <2>2, WritesByNumber
    <2> HIDE DEF w, c, b
    <2>4. CASE n \in 1..2
      <3>1. pic' = [pic EXCEPT ![c] = Command(@, {ICW1_INIT, ICW1_ICW4})]
        BY <2>1, <2>3, <2>4
      <3> QED BY <1>0, <2>3, <3>1, Icw1Forgets, Icw1Clears
    <2>5. CASE n \in 3..12
      <3>1. pic' = AfterData(pic, c, b)
        BY <2>1, <2>3, <2>5 DEF AfterData
      <3> QED BY <1>0, <2>3, <2>5, <3>1, DataAsks, DataWrites, SameView
    <2>6. n \in 1..2 \/ n \in 3..12
      BY <2>1
    <2> QED BY <2>4, <2>5, <2>6
  <1>3. CASE Eoi
    <2> DEFINE q == IF EndsAtSlave(call.irq) THEN AfterEoi(pic, 2) ELSE pic
    <2>1. q \in PicState /\ Requests(q) = Requests(pic)
      BY <1>0, EoiKeeps, EoiAsks, SameView
    <2>2. pic' = AfterEoi(q, 1)
      BY <1>3 DEF Eoi, AfterEoi
    <2> HIDE DEF q
    <2> QED BY <2>1, <2>2, EoiKeeps, EoiAsks, SameView
  <1>4. CASE MaskOut
    <2> DEFINE c == Chip(call.irq)
               b == saved[1]
    <2>1. pic' = AfterData(pic, c, b)
      BY <1>4 DEF MaskOut, AfterData
    <2>2. c \in 1..2 /\ b \in SUBSET Lines
      BY LineAndChip DEF IInv, Typed
    <2> HIDE DEF c, b
    <2> QED BY <1>0, <2>1, <2>2, DataAsks, DataWrites, SameView
  <1> QED BY <1>1, <1>2, <1>3, <1>4
          DEF TaskStep, Setup, Client, SaveMasks, PitCommand, PitLow, PitHigh, ReadLow,
              ReadHigh, Restore, MaskIn, ReadCount, Cli, Sti, Install, Close, Fault, hardware

\* What tasks do keeps the ranges.
LEMMA TaskRanges ==
    ASSUME IInv, Ranges, TaskStep \/ Client
    PROVE  Ranges'
  <1>1. CascadeLine \notin pic'[1].irr
    BY TaskAsks, NoCascade DEF IInv, Typed, Ranges
  <1>2. FlagRanges'
    <2>1. ASSUME NEW v \in Faults, Fault(v) PROVE FlagRanges'
      <3> DEFINE f == [vector |-> v, words |-> Pushed(v, v \in PushesErrorCode),
                       flag |-> intFlag, at |-> "handler"]
      <3>1. frames' = Append(<<>>, f) /\ f.flag = intFlag /\ UNCHANGED flags
            /\ intFlag' = FALSE
        BY <2>1 DEF Fault, Enter, Gate, task
      <3> HIDE DEF f
      <3>2. frames'[1] = f
        BY <3>1
      <3> QED BY <3>1, <3>2 DEF Ranges, FlagRanges
    <2>2. CASE TaskStep \/ ReadCount \/ Cli \/ Sti \/ \E i \in Drivers : Install(i) \/ Close(i)
      BY <2>2 DEF TaskStep, Setup, SaveMasks, PicWrite, PitCommand, PitLow, PitHigh, ReadLow,
              ReadHigh, Restore, Eoi, MaskIn, MaskOut, ReadCount, Cli, Sti, Install, Close,
              hardware, task, AtTask, Ranges, FlagRanges
    <2> QED BY <2>1, <2>2 DEF Client
  <1> QED BY <1>1, <1>2, TaskCountRanges DEF Ranges

\* The ranges hold at the start.
LEMMA InitRanges == Init => Ranges
  <1> SUFFICES ASSUME Init PROVE Ranges
    OBVIOUS
  <1>1. CountRanges
    BY InterruptsAssumption DEF Init, CountRanges
  <1>2. FlagRanges
    BY DEF Init, FlagRanges
  <1>3. CascadeLine \notin pic[1].irr
    BY DEF Init
  <1> QED BY <1>1, <1>2, <1>3 DEF Ranges

\* Every step keeps the ranges.
LEMMA StepRanges ==
    ASSUME IInv, SInv, Ranges, [Next]_vars
    PROVE  Ranges'
  <1>1. CASE UNCHANGED vars
    BY <1>1 DEF vars, hardware, task, Ranges, CountRanges, FlagRanges
  <1> QED BY <1>1, HardwareRanges, HandlerRanges, TaskRanges DEF Next

\* The ranges the code relies on hold whatever the interrupts: the tick count
\* wraps and never leaves its range, what pit_read_count returns is a count the
\* countdown allows, and no interrupt frame has a vector or a place of its own.
THEOREM InterruptsTyped == Spec => []TypeOK
  <1>1. IInv /\ SInv /\ Ranges => TypeOK
    <2> SUFFICES ASSUME IInv, SInv, Ranges PROVE TypeOK
      OBVIOUS
    <2>1. ASSUME NEW c \in 1..2
          PROVE  /\ pic[c].irr \subseteq Lines /\ pic[c].isr \subseteq Lines
                 /\ pic[c].imr \subseteq Lines /\ pic[c].icw \in Seq(SUBSET Lines)
      BY DEF IInv, Typed, PicState, ChipState
    <2>2. pit.mode \in {"bios", "stopped", "running"} /\ pit.count \in 0..Countdown
      BY InterruptsAssumption DEF IInv, Typed, Ranges, CountRanges
    <2>3. ASSUME NEW k \in DOMAIN frames
          PROVE  /\ frames[k].vector \in Nat
                 /\ frames[k].at \in Handlers /\ frames[k].flag \in BOOLEAN
      <3>1. frames # <<>>
        OBVIOUS
      <3>2. PICK S : frames \in Seq(S) /\ Len(frames) = 1
        BY <3>1 DEF IInv, Stacked
      <3>3. k = 1 /\ Serving(frames[1])
        BY <3>1, <3>2 DEF SInv
      <3>4. frames[1].vector \in 0..(NumInt - 1) /\ frames[1].at \in Handlers
        BY <3>3 DEF Serving
      <3>5. frames[1].vector \in Nat
        BY <3>4 DEF NumInt
      <3> QED BY <3>1, <3>3, <3>4, <3>5 DEF Ranges, FlagRanges
    <2>4. val \in 0..Countdown
      <3>0. Countdown \in Nat /\ ByteBase \in Nat \ {0}
        BY InterruptsAssumption
      <3>1. CASE at \notin {"read_hi", "restore"} \/ seen = {}
        BY <3>0, <3>1 DEF Ranges, CountRanges
      <3>2. CASE at = "restore" /\ seen # {}
        <4>1. val \in seen
          BY <3>2 DEF IInv, CountKept
        <4>2. seen \subseteq 1..Countdown
          BY DEF Ranges, CountRanges
        <4> QED BY <3>0, <4>1, <4>2
      <3>3. CASE at = "read_hi"
        <4>1. PICK k \in seen : val = k % ByteBase
          BY <3>3 DEF IInv, CountKept
        <4>2. k \in 1..Countdown
          BY DEF Ranges, CountRanges
        <4>3. k % ByteBase <= k /\ k % ByteBase \in Nat
          BY <3>0, <4>2
        <4> QED BY <3>0, <4>1, <4>2, <4>3
      <3> QED BY <3>1, <3>2, <3>3
    <2>5. intFlag \in BOOLEAN /\ flags \in BOOLEAN
      BY DEF Ranges, FlagRanges
    <2>6. ticks \in 0..(TickRange - 1) /\ n \in 0..13 /\ seen \subseteq 1..Countdown
      BY DEF Ranges, CountRanges
    <2>7. opened \subseteq Irqs
      BY DEF IInv, Typed
    <2> QED BY <2>1, <2>2, <2>3, <2>4, <2>5, <2>6, <2>7 DEF TypeOK
  <1> QED BY <1>1, InitRanges, StepRanges, InterruptsInvariance, ServiceInvariance, PTL DEF Spec

-----------------------------------------------------------------------------
(* Each step is one of the service, or invisible *)

\* The interrupt in hand is that of the one frame there is.
LEMMA InHandOf ==
    ASSUME NEW f, frames # <<>>, Top = f
    PROVE  InHand = IF f.at \notin {"iret", "die"} /\ f.vector - FirstVector \in Irqs
                    THEN f.vector - FirstVector ELSE -1
  BY DEF InHand, Irq

\* A handler has just been entered.
LEMMA EnteredOnTop ==
    ASSUME frames = <<>>, NEW v, NEW w,
           frames' = Append(frames, [vector |-> v, words |-> w,
                                     flag |-> intFlag, at |-> "handler"])
    PROVE  InHand' = IF v - FirstVector \in Irqs THEN v - FirstVector ELSE -1
  <1> DEFINE f == [vector |-> v, words |-> w, flag |-> intFlag, at |-> "handler"]
  <1>1. f.vector = v /\ f.at = "handler" /\ frames' = Append(<<>>, f)
    OBVIOUS
  <1> HIDE DEF f
  <1>2. frames' # <<>> /\ Len(frames') = 1 /\ frames'[1] = f
    BY <1>1
  <1> QED BY <1>1, <1>2 DEF InHand, Irq, Top

\* The hardware's steps: a device asks or takes back, or the CPU takes the
\* request of highest priority.
LEMMA HardwareSimulation ==
    ASSUME IInv, SInv, Ranges, Hardware
    PROVE  Service!Next
  <1>1. /\ Devices \subseteq Irqs /\ TIMER \in Irqs /\ pic \in PicState
        /\ ticks' = ticks
    BY InterruptsAssumption DEF Irqs, TIMER, IInv, Typed, Hardware, Clock, Raise, Accept,
       AcceptLate
  <1>2. ASSUME SameSetup(pic, pic'), frames' = frames PROVE Service!Device
    <2>1. Open(pic') = Open(pic)
      BY <1>2, SameView
    <2>2. InHand' = InHand
      BY <1>2 DEF InHand, Irq, Top
    <2>3. Requests(pic') \in SUBSET Irqs
      BY DEF Requests
    <2> QED BY <1>1, <2>1, <2>2, <2>3 DEF Service!Device, Requests, Open, Service!Irqs, Irqs
  <1>3. CASE Clock
    <2>1. \/ pic' = Request(pic, TIMER)
          \/ pic' = Withdraw(pic, TIMER) \/ pic' = pic
      BY <1>3 DEF Clock
    <2>2. SameSetup(pic, pic) /\ frames' = frames
      BY <1>3 DEF Clock, SameSetup
    <2> QED BY <1>1, <1>2, <2>1, <2>2, RequestKeeps, WithdrawKeeps DEF Service!Next
  <1>4. ASSUME NEW i \in Devices, Raise(i) PROVE Service!Next
    BY <1>1, <1>2, <1>4, RequestKeeps DEF Raise, Service!Next
  <1>5. ASSUME NEW i \in Devices, NEW j \in {i, SpuriousIrq(i)},
               intFlag, Wins(pic, i), Enter(Vector(pic, j), FALSE),
               pic' = Acknowledge(pic, i) \/ pic' = AcknowledgeLate(pic, i)
        PROVE  Service!Next
    <2>1. frames = <<>> /\ at # "pic_init" /\ pic[1].isr = {} /\ pic[2].isr = {}
      BY <1>5 DEF IInv, Stacked, SInv, Quiet, NothingLeftInService
    <2>2. i \in Irqs /\ j \in Irqs /\ j \in {i, 8 * (i \div 8) + 7}
      BY <1>1, <1>5 DEF SpuriousIrq, Irqs
    <2>3. Service!First(i)
      BY <1>1, <1>5, <2>1, <2>2, WinnerIsFirst DEF Ranges
    <2>4. /\ Requests(pic') = Requests(pic) \ {i} /\ Open(pic') = Open(pic)
      BY <1>1, <1>5, <2>2, AcknowledgeTakes, AcknowledgeKeeps, SameView
    <2>5. Vector(pic, j) = FirstVector + j
      BY <2>1, <2>2, VectorOf DEF SInv
    <2>6. InHand' = j
      <3>1. frames' = Append(frames, [vector |-> FirstVector + j,
                                      words |-> Pushed(FirstVector + j, FALSE),
                                      flag |-> intFlag, at |-> "handler"])
        BY <1>5, <2>5 DEF Enter
      <3>2. (FirstVector + j) - FirstVector = j
        BY <2>2 DEF FirstVector, Irqs
      <3> QED BY <2>1, <2>2, <3>1, <3>2, EnteredOnTop
    <2>7. InHand = -1
      BY <2>1 DEF InHand
    <2>8. Service!Take(i)
      BY <1>1, <2>2, <2>3, <2>4, <2>6, <2>7 DEF Service!Take, Requests, Open
    <2> QED BY <2>2, <2>8 DEF Service!Next, Service!Irqs, Irqs
  <1>6. ASSUME NEW i \in Devices, Accept(i) \/ AcceptLate(i) PROVE Service!Next
    BY <1>5, <1>6 DEF Accept, AcceptLate
  <1> QED BY <1>3, <1>4, <1>6 DEF Hardware

\* The handlers' steps: the driver is called, and the clock moves on if it is
\* the timer's; the rest is invisible.
LEMMA HandlerSimulation ==
    ASSUME IInv, SInv, Ranges, Handler
    PROVE  [Service!Next]_<<Requests(pic), Open(pic), InHand, (ticks * 10) % TickRange>>
  <1> DEFINE f == frames[1]
  <1>1. frames # <<>>
    BY DEF Handler, Dispatch, IrqEoiSlave, IrqEoiMaster, IrqDriver, Iret, Die, In
  <1>2. Top = f /\ 1 \in DOMAIN frames /\ Len(frames) = 1 /\ pic \in PicState
    BY <1>1, HandlerOnTop DEF IInv, Typed
  <1>3. PICK irq \in Int : irq = f.vector - FirstVector
    <2>1. f.vector \in 0..(NumInt - 1)
      BY <1>1, HandlerOnTop DEF Serving
    <2> QED BY <2>1 DEF NumInt, FirstVector
  <1>4. Irq = irq
    BY <1>2, <1>3 DEF Irq
  <1>5. InHand = IF f.at \notin {"iret", "die"} /\ irq \in Irqs THEN irq ELSE -1
    BY <1>1, <1>2, <1>3, InHandOf
  <1>6. ASSUME NEW l \in Handlers, Then(l)
        PROVE  InHand' = IF l \notin {"iret", "die"} /\ irq \in Irqs THEN irq ELSE -1
    <2>1. frames' # <<>> /\ frames'[1].vector = f.vector /\ frames'[1].at = l
      BY <1>1, <1>6, FrameGoesOn
    <2>2. Len(frames') = 1
      BY <1>2, <1>6 DEF Then
    <2> QED BY <1>3, <2>1, <2>2 DEF InHand, Irq, Top
  <1> HIDE DEF f
  <1>7. ASSUME Requests(pic') = Requests(pic), Open(pic') = Open(pic), InHand' = InHand,
               ticks' = ticks
        PROVE  UNCHANGED <<Requests(pic), Open(pic), InHand, (ticks * 10) % TickRange>>
    BY <1>7
  <1>8. CASE Dispatch
    <2>1. f.at = "handler" /\ pic' = pic /\ ticks' = ticks
      BY <1>2, <1>8 DEF Dispatch, In, hardware
    <2>2. InHand' = InHand
      BY <1>4, <1>5, <1>6, <1>8, <2>1 DEF Dispatch, Handlers
    <2> QED BY <1>7, <2>1, <2>2
  <1>9. CASE IrqEoiSlave \/ IrqEoiMaster
    <2>1. /\ f.at \in {"eoi_slave", "eoi_master"} /\ ticks' = ticks
          /\ \E c \in 1..2 : pic' = AfterEoi(pic, c)
      BY <1>2, <1>9 DEF IrqEoiSlave, IrqEoiMaster, In, HandlerEoi, AfterEoi
    <2>2. InHand' = InHand
      BY <1>5, <1>6, <1>9, <2>1 DEF IrqEoiSlave, IrqEoiMaster, Handlers
    <2>3. Requests(pic') = Requests(pic) /\ Open(pic') = Open(pic)
      BY <1>2, <2>1, EoiAsks, EoiKeeps, SameView
    <2> QED BY <1>7, <2>1, <2>2, <2>3
  <1>10. CASE IrqDriver
    <2>1. /\ f.at = "driver" /\ pic' = pic /\ Then("iret")
          /\ ticks' = IF irq = TIMER THEN (ticks + 1) % TickRange ELSE ticks
      BY <1>2, <1>4, <1>10 DEF IrqDriver, PitIrq, In, hardware
    <2>2. InHand' = -1
      BY <1>6, <2>1 DEF Handlers
    <2>3. CASE irq \notin Irqs
      <3>1. irq # TIMER /\ InHand = -1
        BY <1>5, <2>3 DEF TIMER, Irqs
      <3> QED BY <1>7, <2>1, <2>2, <3>1
    <2>4. CASE irq \in Irqs
      <3>1. InHand = irq /\ irq # -1
        BY <1>5, <2>1, <2>4 DEF Irqs
      <3>2. TickRange \in Nat \ {0} /\ ticks \in Nat
        BY InterruptsAssumption DEF Ranges, CountRanges
      <3>3. (ticks' * 10) % TickRange
              = (((ticks * 10) % TickRange) + IF irq = TIMER THEN 10 ELSE 0) % TickRange
        <4>1. CASE irq = TIMER
          BY <2>1, <3>2, <4>1, TickAdvances
        <4>2. CASE irq # TIMER
          <5>1. (ticks * 10) % TickRange \in 0..(TickRange - 1)
            BY <3>2
          <5>2. \A x \in 0..(TickRange - 1) : (x + 0) % TickRange = x
            BY <3>2
          <5> QED BY <2>1, <4>2, <5>1, <5>2
        <4> QED BY <4>1, <4>2
      <3>4. Service!Handle
        BY <2>1, <2>2, <3>1, <3>3 DEF Service!Handle, Service!Timer, Service!Period, TIMER
      <3> QED BY <3>4 DEF Service!Next
    <2> QED BY <2>3, <2>4
  <1>11. CASE Iret
    <2>1. f.at = "iret" /\ pic' = pic /\ ticks' = ticks /\ frames' = SubSeq(frames, 1, 0)
      BY <1>2, <1>11 DEF Iret, In, hardware
    <2>2. frames' = <<>>
      BY <2>1, SubSeqEmpty
    <2>3. InHand' = InHand
      BY <1>5, <2>1, <2>2 DEF InHand
    <2> QED BY <1>7, <2>1, <2>3
  <1>12. CASE Die
    <2>1. pic' = pic /\ ticks' = ticks /\ frames' = frames
      BY <1>12 DEF Die, hardware
    <2>2. InHand' = InHand
      BY <2>1 DEF InHand, Irq, Top
    <2> QED BY <1>7, <2>1, <2>2
  <1> QED BY <1>8, <1>9, <1>10, <1>11, <1>12 DEF Handler

\* What tasks do is to mask lines, and in pic_init to drop requests.
LEMMA TaskSimulation ==
    ASSUME IInv, SInv, TaskStep \/ Client
    PROVE  Service!Next
  <1>1. Requests(pic') \subseteq Requests(pic) /\ Open(pic') \subseteq Irqs
    BY TaskAsks DEF Open
  <1>2. ticks' = ticks
    BY DEF TaskStep, Setup, SaveMasks, PicWrite, PitCommand, PitLow, PitHigh, ReadLow,
           ReadHigh, Restore, Eoi, MaskIn, MaskOut, Client, ReadCount, Cli, Sti, Install,
           Close, Fault
  <1>3. InHand' = InHand
    <2>1. ASSUME NEW v \in Faults, Fault(v) PROVE InHand' = InHand
      <3>1. frames = <<>> /\ frames' = Append(frames,
                  [vector |-> v, words |-> Pushed(v, v \in PushesErrorCode),
                   flag |-> intFlag, at |-> "handler"])
        BY <2>1 DEF Fault, Enter
      <3>2. v - FirstVector \notin Irqs
        BY InterruptsAssumption DEF FirstVector, Irqs
      <3>3. InHand' = -1
        BY <3>1, <3>2, EnteredOnTop
      <3> QED BY <3>1, <3>3 DEF InHand
    <2>2. CASE TaskStep \/ ReadCount \/ Cli \/ Sti \/ \E i \in Drivers : Install(i) \/ Close(i)
      <3>1. frames' = frames
        BY <2>2 DEF TaskStep, Setup, SaveMasks, PicWrite, PitCommand, PitLow, PitHigh, ReadLow,
                ReadHigh, Restore, Eoi, MaskIn, MaskOut, ReadCount, Cli, Sti, Install, Close
      <3> QED BY <3>1 DEF InHand, Irq, Top
    <2> QED BY <2>1, <2>2 DEF Client
  <1> QED BY <1>1, <1>2, <1>3 DEF Service!Masks, Service!Next, Service!Irqs, Irqs, Requests, Open

\* Every step of the interrupt path is a step of the service, or invisible.
LEMMA ServiceSimulation ==
    ASSUME IInv, SInv, Ranges, [Next]_vars
    PROVE  [Service!Next]_<<Requests(pic), Open(pic), InHand, (ticks * 10) % TickRange>>
  <1>1. CASE UNCHANGED vars
    <2>1. UNCHANGED <<pic, ticks, frames>>
      BY <1>1 DEF vars, hardware
    <2>2. InHand' = InHand
      BY <2>1 DEF InHand, Irq, Top
    <2> QED BY <2>1, <2>2
  <1> QED BY <1>1, HardwareSimulation, HandlerSimulation, TaskSimulation DEF Next

\* At the start nothing is in hand and the clock is 0.
LEMMA InitService == Init => Service!Init
  <1> SUFFICES ASSUME Init PROVE Service!Init
    OBVIOUS
  <1>1. frames = <<>> /\ ticks = 0 /\ InHand = -1
    BY DEF Init, InHand
  <1>2. (ticks * 10) % TickRange = 0
    BY <1>1, InterruptsAssumption
  <1> QED BY <1>1, <1>2 DEF Service!Init, Service!Irqs, Irqs

\* Interrupts implements IrqService, whatever devices, drivers and faults there
\* are: requests are handled one at a time and the highest priority first, by
\* their own drivers, and current_time moves on by ten milliseconds with every
\* timer interrupt that is handled and with nothing else, wrap included.
THEOREM IrqServiceImplemented == Spec => ImplementsIrqService
  <1>1. Init => Ranges /\ Service!Init
    BY InitRanges, InitService
  <1>2. IInv /\ SInv /\ Ranges /\ [Next]_vars
          => /\ Ranges'
             /\ [Service!Next]_<<Requests(pic), Open(pic), InHand, (ticks * 10) % TickRange>>
    BY StepRanges, ServiceSimulation
  <1> QED BY <1>1, <1>2, InterruptsInvariance, ServiceInvariance, PTL
          DEF Spec, ImplementsIrqService, Service!Spec, Requests, Open
=============================================================================
