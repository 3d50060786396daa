---------------------------- MODULE Interrupts ----------------------------
(***************************************************************************)
(* Interrupts and the timer: hw/pic.c, hw/pit.c, the interrupt entry of    *)
(* x86/exceptions.S and x86/x86.c.  One CPU executes pic_init and pit_init *)
(* and then client code that opens interrupt lines, reads the timer and    *)
(* turns interrupts off and on; the devices, the timer chip and the two    *)
(* 8259s (module Pic) run beside it.  Port accesses are steps of their own *)
(* in code that interrupts can find half done.                             *)
(***************************************************************************)
EXTENDS Pic

CONSTANTS
    Devices,     \* the interrupt lines that have a device
    Drivers,     \* the lines client code opens and closes
    Faults,      \* the exceptions client code can cause
    BiosMasks,   \* masks the BIOS may leave
    Countdown,   \* PIT_COUNTDOWN
    ByteBase,    \* the two bytes of the timer's count are digits to this base
    TickRange    \* timer_ticks is kept modulo this, 2^32 in the code

TIMER == 0       \* IRQ_PIT
NumInt == 48     \* NUM_INT
FirstVector == 32

ASSUME InterruptsAssumption ==
    /\ TIMER \in Devices /\ Devices \subseteq Irqs \ {CascadeLine}
    /\ Drivers \subseteq Irqs \ {TIMER}
    /\ Faults \subseteq 0..(FirstVector - 1)
    /\ BiosMasks \subseteq SUBSET Lines
    /\ ByteBase \in Nat \ {0, 1} /\ Countdown \in 2..(ByteBase * ByteBase - 1)
    /\ TickRange \in Nat \ {0}

VARIABLES
    pic,      \* the two 8259s
    pit,      \* channel 0 of the 8253
    ticks,    \* timer_ticks
    intFlag,  \* EFLAGS.IF
    frames,   \* the interrupt frames on the stack, and where each handler is
    at,       \* the next statement of the task below them
    n,        \* accesses pic_init has made
    saved,    \* a1 and a2 of pic_remap
    call,     \* arguments of the pic function being executed: irq and set
    val,      \* its val; that of pit_read_count
    flags,    \* what x86_irq_disable returned
    opened,   \* ghost: the lines pic_set_mask was last asked to open
    seen      \* ghost: the counts the timer had since the latch of the count

hardware == <<pic, pit>>
task     == <<at, n, saved, call, val, flags, opened, seen>>
vars     == <<hardware, ticks, intFlag, frames, task>>

NoCall == [irq |-> TIMER, set |-> FALSE, next |-> "client"]

\* x86_init has loaded the interrupt table; the controllers are as the BIOS
\* left them, with vectors 8 and 0x70 and perhaps an interrupt in service.
Init ==
    /\ \E masks \in [1..2 -> BiosMasks], service \in {{}, {TIMER}} :
          pic = << [irr |-> {}, isr |-> service, imr |-> masks[1],
                    icw |-> <<Bits(8), {CascadeLine}, {0}>>],
                   [irr |-> {}, isr |-> {}, imr |-> masks[2],
                    icw |-> <<Bits(112), Bits(CascadeLine), {0}>>] >>
    /\ pit = [mode |-> "bios", count |-> 0, lo |-> 0, latch |-> <<>>, high |-> FALSE]
    /\ ticks = 0 /\ intFlag = FALSE /\ frames = <<>>
    /\ at = "pic_init" /\ n = 0 /\ saved = <<{}, {}>>
    /\ call = NoCall /\ val = 0 /\ flags = FALSE
    /\ opened = {} /\ seen = {}

-----------------------------------------------------------------------------
(* The devices and the timer chip *)

Running == pit.mode = "running"

Raise(i) ==
    /\ i = TIMER => ~Running
    /\ pic' = Request(pic, i)
    /\ UNCHANGED <<pit, ticks, intFlag, frames, task>>

\* Mode 2: OUT falls when the count reaches 1, which takes back a request not
\* yet acknowledged, and rises when it is loaded again.
NextCount(c) == IF c = 1 THEN Countdown ELSE c - 1
Count ==
    /\ pit' = [pit EXCEPT !.count = NextCount(@)]
    /\ seen' = IF seen = {} THEN {} ELSE seen \cup {NextCount(pit.count)}

Clock ==
    /\ Running /\ Count
    /\ pic' = CASE pit.count = 1 -> Request(pic, TIMER)
                [] pit.count = 2 -> Withdraw(pic, TIMER)
                [] OTHER -> pic
    /\ UNCHANGED <<ticks, intFlag, frames, at, n, saved, call, val, flags, opened>>

-----------------------------------------------------------------------------
(* Interrupt entry and exit *)

\* Mutant: the list of exceptions with an error code lacks 17 and begins at 9.
HasErrorCode_OffByOne(v) == v = 8 \/ v \in 9..14

\* The stubs for which exceptions.S leaves the error code to the hardware.
HasErrorCode(v) == v = 8 \/ v \in 10..14 \/ v = 17

\* The exceptions for which the hardware pushes one.
PushesErrorCode == {8, 10, 11, 12, 13, 14, 17}

\* What is pushed before x86_exception_handler is called, first word first:
\* the CPU's words, those of stub v, and those of x86_interrupt_common.
Pushed(v, hardwareCode) ==
    <<"flags", "cs", "ip">>
    \o (IF hardwareCode THEN <<"err_code">> ELSE <<>>)
    \o (IF HasErrorCode(v) THEN <<>> ELSE <<"err_code">>) \o <<"vector">>
    \o <<"gs", "fs", "es", "ds">>
    \o <<"ax", "cx", "dx", "bx", "sp", "bp", "si", "di">>

\* struct x86_iframe from its last field down; a task never changes privilege.
IFrame == <<"flags", "cs", "ip", "err_code", "vector", "gs", "fs", "es", "ds",
            "ax", "cx", "dx", "bx", "sp", "bp", "si", "di">>

\* Mutant: trap gates, which leave the flag alone.
Gate_Trap(flag) == flag

\* An interrupt gate clears the flag.
Gate(flag) == FALSE

Enter(v, hardwareCode) ==
    /\ frames' = Append(frames, [vector |-> v, words |-> Pushed(v, hardwareCode),
                                 flag |-> intFlag, at |-> "handler"])
    /\ intFlag' = Gate(intFlag)

Accept(i) ==
    /\ intFlag /\ Wins(pic, i)
    /\ Enter(Vector(pic, i), FALSE)
    /\ pic' = Acknowledge(pic, i)
    /\ UNCHANGED <<pit, ticks, task>>

\* The request is withdrawn as the CPU acknowledges it.
AcceptLate(i) ==
    /\ intFlag /\ Wins(pic, i)
    /\ Enter(Vector(pic, SpuriousIrq(i)), FALSE)
    /\ pic' = AcknowledgeLate(pic, i)
    /\ IF i = TIMER THEN Running /\ pit.count = 2 /\ Count ELSE UNCHANGED <<pit, seen>>
    /\ UNCHANGED <<ticks, at, n, saved, call, val, flags, opened>>

Fault(v) ==
    /\ frames = <<>> /\ at = "client"
    /\ Enter(v, v \in PushesErrorCode)
    /\ UNCHANGED <<hardware, ticks, task>>

-----------------------------------------------------------------------------
(* The handler on top of the stack *)

Top  == frames[Len(frames)]
Irq  == Top.vector - FirstVector
In(l)   == frames # <<>> /\ Top.at = l
Then(l) == frames' = [frames EXCEPT ![Len(frames)].at = l]

\* Mutant: the slave's interrupts end at the master only.
EndsAtSlave_Never(irq) == FALSE

EndsAtSlave(irq) == irq >= 8

\* x86_exception_handler: the PIC's vectors go to pic_irq, all others die.
Dispatch ==
    /\ In("handler")
    /\ \/ Irq \notin Irqs /\ Then("die")
       \/ Irq \in Irqs /\ EndsAtSlave(Irq) /\ Then("eoi_slave")
       \/ Irq \in Irqs /\ ~EndsAtSlave(Irq) /\ Then("eoi_master")
    /\ UNCHANGED <<hardware, ticks, intFlag, task>>

\* Mutant: the interrupt is not ended.
HandlerEoi_None(c) == UNCHANGED pic

HandlerEoi(c) == pic' = [pic EXCEPT ![c] = Command(@, PIC_EOI)]

IrqEoiSlave ==
    /\ In("eoi_slave") /\ HandlerEoi(2) /\ Then("eoi_master")
    /\ UNCHANGED <<pit, ticks, intFlag, task>>

IrqEoiMaster ==
    /\ In("eoi_master") /\ HandlerEoi(1) /\ Then("driver")
    /\ UNCHANGED <<pit, ticks, intFlag, task>>

\* Mutant: the keyboard's case of the switch is taken for the timer's.
PitIrq_Any(irq) == ticks' = (ticks + 1) % TickRange

\* The switch of pic_irq.  keyboard_irq and the message for any other
\* interrupt change nothing here.
PitIrq(irq) == ticks' = IF irq = TIMER THEN (ticks + 1) % TickRange ELSE ticks

IrqDriver ==
    /\ In("driver") /\ PitIrq(Irq) /\ Then("iret")
    /\ UNCHANGED <<hardware, intFlag, task>>

\* The pops of x86_interrupt_common and the iret.
Iret ==
    /\ In("iret")
    /\ frames' = SubSeq(frames, 1, Len(frames) - 1)
    /\ intFlag' = Top.flag
    /\ UNCHANGED <<hardware, ticks, task>>

\* exception_die: cli and hlt for ever.
Die ==
    /\ In("die") /\ intFlag' = FALSE
    /\ UNCHANGED <<hardware, ticks, frames, task>>

Handler == Dispatch \/ IrqEoiSlave \/ IrqEoiMaster \/ IrqDriver \/ Iret \/ Die

-----------------------------------------------------------------------------
(* pic_init *)

AtTask(l) == frames = <<>> /\ at = l

SaveMasks ==
    /\ AtTask("pic_init") /\ n = 0
    /\ n' = 1 /\ saved' = <<pic[1].imr, pic[2].imr>>
    /\ UNCHANGED <<hardware, ticks, intFlag, frames, at, call, val, flags, opened, seen>>

\* Mutant: the slave's vectors lie past the end of the interrupt table.
Offset_PastTable(c) == IF c = 1 THEN 32 ELSE 48

Offset(c) == IF c = 1 THEN 32 ELSE 40

\* The writes of pic_remap and of the rest of pic_init: chip, port, byte.
PicWrites ==
    LET command(c, bits) == [chip |-> c, port |-> "command", bits |-> bits]
        data(c, bits)    == [chip |-> c, port |-> "data", bits |-> bits]
    IN  << command(1, {ICW1_INIT, ICW1_ICW4}), command(2, {ICW1_INIT, ICW1_ICW4}),
           data(1, Bits(Offset(1))), data(2, Bits(Offset(2))),
           data(1, Bits(4)), data(2, Bits(2)),
           data(1, {0}), data(2, {0}),
           data(1, saved[1]), data(2, saved[2]),
           data(1, Lines), data(2, Lines) >>

PicWrite ==
    /\ AtTask("pic_init") /\ n \in 1..12
    /\ LET w == PicWrites[n]
       IN  pic' = [pic EXCEPT ![w.chip] =
                      IF w.port = "command" THEN Command(@, w.bits) ELSE Data(@, w.bits)]
    /\ n' = n + 1 /\ at' = IF n = 12 THEN "pit_command" ELSE at
    /\ UNCHANGED <<pit, ticks, intFlag, frames, saved, call, val, flags, opened, seen>>

-----------------------------------------------------------------------------
(* pit_init and pit_read_count *)

\* x86_irq_disable and the command: low byte and high byte, mode 2.
PitCommand ==
    /\ AtTask("pit_command")
    /\ flags' = intFlag /\ intFlag' = FALSE
    /\ pit' = [pit EXCEPT !.mode = "stopped"] /\ at' = "pit_lo"
    /\ UNCHANGED <<pic, ticks, frames, n, saved, call, val, opened, seen>>

PitLow ==
    /\ AtTask("pit_lo") /\ at' = "pit_hi"
    /\ pit' = [pit EXCEPT !.lo = Countdown % ByteBase]
    /\ UNCHANGED <<pic, ticks, intFlag, frames, n, saved, call, val, flags, opened, seen>>

\* The second byte starts the chip; then pic_send_eoi and pic_set_mask.
PitHigh ==
    /\ AtTask("pit_hi") /\ at' = "eoi"
    /\ pit' = [pit EXCEPT !.mode = "running", !.lo = 0,
                          !.count = pit.lo + ByteBase * (Countdown \div ByteBase)]
    /\ call' = [irq |-> TIMER, set |-> FALSE, next |-> "restore"]
    /\ opened' = opened \cup {TIMER}
    /\ UNCHANGED <<pic, ticks, intFlag, frames, n, saved, val, flags, seen>>

\* Mutant: the count is read as it goes.
Latched_Not == <<>>

\* The two bytes the latch command keeps for reading.
Latched == <<pit.count % ByteBase, pit.count \div ByteBase>>

ReadCount ==
    /\ AtTask("client")
    /\ flags' = intFlag /\ intFlag' = FALSE
    /\ pit' = [pit EXCEPT !.latch = Latched]
    /\ seen' = {pit.count} /\ at' = "read_lo"
    /\ UNCHANGED <<pic, ticks, frames, n, saved, call, val, opened>>

\* A read of the data port: the latched bytes, else those of the count.
PortByte ==
    IF pit.latch # <<>> THEN Head(pit.latch)
    ELSE IF pit.high THEN pit.count \div ByteBase ELSE pit.count % ByteBase

ReadPort ==
    pit' = [pit EXCEPT !.high = ~@, !.latch = IF @ = <<>> THEN @ ELSE Tail(@)]

ReadLow ==
    /\ AtTask("read_lo") /\ at' = "read_hi"
    /\ val' = PortByte /\ ReadPort
    /\ UNCHANGED <<pic, ticks, intFlag, frames, n, saved, call, flags, opened, seen>>

ReadHigh ==
    /\ AtTask("read_hi") /\ at' = "restore"
    /\ val' = val + ByteBase * PortByte /\ ReadPort
    /\ UNCHANGED <<pic, ticks, intFlag, frames, n, saved, call, flags, opened, seen>>

\* x86_irq_restore, at the end of pit_init and of pit_read_count.
Restore ==
    /\ AtTask("restore") /\ at' = "client"
    /\ intFlag' = flags /\ flags' = FALSE
    /\ val' = 0 /\ seen' = {}
    /\ UNCHANGED <<hardware, ticks, frames, n, saved, call, opened>>

-----------------------------------------------------------------------------
(* pic_send_eoi and pic_set_mask, called by tasks *)

Eoi ==
    /\ AtTask("eoi")
    /\ LET slave == IF EndsAtSlave(call.irq) THEN [pic EXCEPT ![2] = Command(@, PIC_EOI)]
                                              ELSE pic
       IN  pic' = [slave EXCEPT ![1] = Command(@, PIC_EOI)]
    /\ at' = "mask_in"
    /\ UNCHANGED <<pit, ticks, intFlag, frames, n, saved, call, val, flags, opened, seen>>

\* Mutant: the line is not made relative to the slave.
MaskBit_NotReduced(irq) == irq

MaskBit(irq) == IF irq < 8 THEN irq ELSE irq - 8

MaskIn ==
    /\ AtTask("mask_in") /\ at' = "mask_out"
    /\ LET mask == pic[Chip(call.irq)].imr
       IN  saved' = <<IF call.set THEN mask \cup {MaskBit(call.irq)}
                                  ELSE mask \ {MaskBit(call.irq)}, {}>>
    /\ UNCHANGED <<hardware, ticks, intFlag, frames, n, call, val, flags, opened, seen>>

MaskOut ==
    /\ AtTask("mask_out") /\ at' = call.next
    /\ pic' = [pic EXCEPT ![Chip(call.irq)] = Data(@, saved[1])]
    /\ saved' = <<{}, {}>> /\ call' = NoCall
    /\ UNCHANGED <<pit, ticks, intFlag, frames, n, val, flags, opened, seen>>

-----------------------------------------------------------------------------
(* Client code *)

\* A driver starts, as keyboard_init ends: EOI, then its line is opened.
Install(i) ==
    /\ AtTask("client") /\ at' = "eoi"
    /\ call' = [irq |-> i, set |-> FALSE, next |-> "client"]
    /\ opened' = opened \cup {i}
    /\ UNCHANGED <<hardware, ticks, intFlag, frames, n, saved, val, flags, seen>>

Close(i) ==
    /\ AtTask("client") /\ at' = "mask_in"
    /\ call' = [irq |-> i, set |-> TRUE, next |-> "client"]
    /\ opened' = opened \ {i}
    /\ UNCHANGED <<hardware, ticks, intFlag, frames, n, saved, val, flags, seen>>

Cli ==
    /\ AtTask("client") /\ intFlag /\ intFlag' = FALSE
    /\ UNCHANGED <<hardware, ticks, frames, task>>

Sti ==
    /\ AtTask("client") /\ ~intFlag /\ intFlag' = TRUE
    /\ UNCHANGED <<hardware, ticks, frames, task>>

-----------------------------------------------------------------------------
Setup == SaveMasks \/ PicWrite \/ PitCommand \/ PitLow \/ PitHigh
TaskStep == Setup \/ ReadLow \/ ReadHigh \/ Restore \/ Eoi \/ MaskIn \/ MaskOut

Client ==
    \/ ReadCount \/ Cli \/ Sti
    \/ \E i \in Drivers : Install(i) \/ Close(i)
    \/ \E v \in Faults : Fault(v)

Hardware == Clock \/ \E i \in Devices : Raise(i) \/ Accept(i) \/ AcceptLate(i)

Next == Hardware \/ Handler \/ TaskStep \/ Client

Spec == Init /\ [][Next]_vars

\* Handlers run, and the CPU takes a timer interrupt, the one of highest
\* priority, at the next instruction boundary it can take it at.
Fairness == WF_vars(Handler) /\ SF_vars(Accept(TIMER))

FairSpec == Spec /\ Fairness

-----------------------------------------------------------------------------
(* Properties *)

Handlers == {"handler", "eoi_slave", "eoi_master", "driver", "iret", "die"}

TypeOK ==
    /\ \A c \in 1..2 :
          /\ pic[c].irr \subseteq Lines /\ pic[c].isr \subseteq Lines
          /\ pic[c].imr \subseteq Lines /\ pic[c].icw \in Seq(SUBSET Lines)
    /\ pit.mode \in {"bios", "stopped", "running"} /\ pit.count \in 0..Countdown
    /\ ticks \in 0..(TickRange - 1)
    /\ intFlag \in BOOLEAN /\ flags \in BOOLEAN
    /\ \A k \in DOMAIN frames :
          /\ frames[k].vector \in Nat
          /\ frames[k].at \in Handlers /\ frames[k].flag \in BOOLEAN
    /\ n \in 0..13 /\ opened \subseteq Irqs
    /\ seen \subseteq 1..Countdown /\ val \in 0..Countdown

\* Whatever is interrupted, and by whatever vector, the words on the stack are
\* those of struct x86_iframe: the handler finds the vector where the stub put
\* it and the iret the address where the CPU put it.  The vectors of both
\* controllers are ones of the table x86_init has filled.
FramesWellFormed ==
    \A k \in DOMAIN frames :
        frames[k].words = IFrame /\ frames[k].vector \in 0..(NumInt - 1)

\* Interrupts do not nest, although the handlers end them at the controller
\* before they call the driver: a 512-byte stack has room for one frame.
NoNesting == Len(frames) <= 1

\* Between handlers nothing is left in service, in either controller: what was
\* would keep out every interrupt of lower priority.  The EOIs tasks send when
\* they start a driver find nothing to end.
NothingLeftInService ==
    frames = <<>> /\ at # "pic_init" => pic[1].isr = {} /\ pic[2].isr = {}

\* Once the drivers' calls are done the mask is as they asked for, line by
\* line in both controllers, although pic_set_mask reads, changes and writes
\* it with interrupts on.
MaskAsAsked ==
    at \in {"client", "read_lo", "read_hi"} =>
        \A i \in Irqs : Line(i) \in pic[Chip(i)].imr <=> i \notin opened

\* pit_read_count returns a count the timer had during the call, never the
\* low byte of one and the high byte of another.
CountNotTorn == at = "restore" /\ seen # {} => val \in seen

\* The timer is never shut out: if again and again it has a request while
\* interrupts are on, its handler runs again and again, whatever lines clients
\* open and close and whatever else is served.
TimerAsks == intFlag /\ Line(TIMER) \in pic[Chip(TIMER)].irr
TicksGoOn == []<>TimerAsks => []<><<IrqDriver /\ Irq = TIMER>>_vars

\* The interrupt path implements the service module IrqService describes: one
\* request handled at a time, the highest priority first, by its own driver,
\* and current_time (pit.c:88) moves on by ten for every timer interrupt.
InHand == IF frames # <<>> /\ Top.at \notin {"iret", "die"} /\ Irq \in Irqs
          THEN Irq ELSE -1

Service == INSTANCE IrqService WITH
    Wrap     <- TickRange,
    None     <- -1,
    requests <- {i \in Irqs : Line(i) \in pic[Chip(i)].irr},
    open     <- {i \in Irqs : Line(i) \notin pic[Chip(i)].imr},
    inHand   <- InHand,
    ms       <- (ticks * 10) % TickRange

ImplementsIrqService == Service!Spec
=============================================================================
