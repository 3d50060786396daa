------------------------------ MODULE Keyboard ------------------------------
(***************************************************************************)
(* The keyboard driver, hw/keyboard.c, from keyboard_init to the character *)
(* handed to console_input, with the mask of its interrupt in the PIC.     *)
(* The i8042 controller, the keyboard behind it and the request line of    *)
(* the 8259 are external; they run beside the CPU.                         *)
(*                                                                         *)
(* The interrupt handler is one step: it runs with interrupts disabled and *)
(* reads the controller once.  keyboard_init is taken apart at its port    *)
(* accesses.  Its critical sections need no variable: IRQ 1 is masked      *)
(* until its last step.                                                    *)
(***************************************************************************)
EXTENDS Integers, Sequences, FiniteSets

CONSTANTS
    Keys,         \* keys of the keyboard: the bytes of make and of break
    Lower, Upper, \* KeyCodeSingleLower and KeyCodeSingleUpper: the codes with
                  \* a character, and the character
    InitialCtrs,  \* control registers the BIOS may leave, as sets of bits
    Leftovers,    \* bytes it may leave in the output buffer
    Timeout,      \* I8042_CTL_TIMEOUT
    FlushLength,  \* I8042_BUFFER_LENGTH
    MaxEvents,    \* bound: key presses and releases
    MaxBuffer     \* bound: bytes waiting in controller and keyboard

\* Bits of the control register.
KBDINT == 1
KBDDIS == 16
XLATE  == 64
CtrBits == {1, 2, 4, 8, 16, 32, 64}

\* Commands.  Their second digit is the number of bytes the command answers
\* with, their first the number of parameters it takes.
RCTR == 288     \* 0x0120
WCTR == 4192    \* 0x1060

Params(command) == (command \div 4096) % 16

\* (command & 0xf0) >> 8, the number of bytes i8042_command reads.
Reads(command) == (((command \div 16) % 16) * 16) \div 256

\* It is zero whatever the command: the loop that reads them has no iteration
\* and no action here.
ASSUME NothingIsRead == \A command \in {RCTR, WCTR} : Reads(command) = 0

ASSUME KeyboardAssumption ==
    /\ \A k \in Keys : k.make \in Seq(0..255) /\ k.break \in Seq(0..255)
    /\ DOMAIN Upper = DOMAIN Lower /\ DOMAIN Lower \subseteq 0..127
    /\ InitialCtrs \subseteq SUBSET CtrBits
    /\ Leftovers \subseteq Seq(0..255)
    /\ Timeout \in Nat \ {0} /\ FlushLength \in Nat
    /\ MaxEvents \in Nat /\ MaxBuffer \in Nat

VARIABLES
    out,       \* bytes the data port will give, the first in the output buffer
    ibf,       \* I8042_STR_IBF: the controller has not taken the last write
    port,      \* that write
    awaiting,  \* the controller has taken WCTR and waits for the byte
    kctr,      \* its control register
    irr,       \* a request of IRQ 1 is latched in the PIC
    masked,    \* IRQ 1's bit in the PIC's mask
    held,      \* keys down
    events,    \* key events so far (bounds the model)
    pc,        \* of keyboard_init
    i,         \* its loop counter
    command,   \* of i8042_command
    written,   \* bytes of the command written: the command itself, parameters
    ctr,       \* keyboard_init's ctr
    lshift, rshift, lastCode,
    console,   \* characters given to console_input
    received   \* ghost: bytes given to process_scode

controller == <<out, ibf, port, awaiting, kctr, irr>>
keyboard   == <<held, events>>
init       == <<pc, i, command, written, ctr>>
driver     == <<lshift, rshift, lastCode, console, received>>
vars       == <<controller, masked, keyboard, init, driver>>

Line(bytes, bits) == bytes # <<>> /\ KBDINT \in bits

\* After pic_init everything is masked, and the PIC latches all the same.
Init ==
    /\ out \in Leftovers
    /\ kctr \in InitialCtrs
    /\ ibf = FALSE /\ port = [command |-> RCTR, bits |-> {}] /\ awaiting = FALSE
    /\ irr = Line(out, kctr) /\ masked = TRUE
    /\ held = {} /\ events = 0
    /\ pc = "flush" /\ i = 0 /\ command = RCTR /\ written = 0 /\ ctr = {}
    /\ lshift = FALSE /\ rshift = FALSE /\ lastCode = 0
    /\ console = <<>> /\ received = <<>>

-----------------------------------------------------------------------------
(* The hardware *)

\* A rising line is latched; a falling one takes the request back.
Latch(bytes, bits) ==
    irr' = (Line(bytes, bits) /\ (irr \/ ~Line(out, kctr)))

\* The byte a control register is.
ControlByte(bits) ==
    LET Bit(b) == IF b \in bits THEN b ELSE 0
    IN  Bit(1) + Bit(2) + Bit(4) + Bit(8) + Bit(16) + Bit(32) + Bit(64)

Reply == ControlByte(kctr)

\* The controller takes a byte written to one of its ports.
TakeInput ==
    /\ ibf /\ ibf' = FALSE
    /\ \/ /\ awaiting
          /\ kctr' = port.bits /\ awaiting' = FALSE
          /\ UNCHANGED out
       \/ /\ ~awaiting /\ port.command = WCTR
          /\ awaiting' = TRUE
          /\ UNCHANGED <<out, kctr>>
       \/ /\ ~awaiting /\ port.command = RCTR
          /\ out' = Append(out, Reply)
          /\ UNCHANGED <<awaiting, kctr>>
    /\ Latch(out', kctr')
    /\ UNCHANGED <<port, masked, keyboard, init, driver>>

Send(bytes) ==
    /\ KBDDIS \notin kctr
    /\ events < MaxEvents /\ Len(out) + Len(bytes) <= MaxBuffer
    /\ events' = events + 1
    /\ out' = out \o bytes
    /\ Latch(out', kctr)
    /\ UNCHANGED <<ibf, port, awaiting, kctr, masked, init, driver>>

\* A key held down goes on sending its make code.
Press(k)   == Send(k.make) /\ held' = held \cup {k}
Release(k) == k \in held /\ Send(k.break) /\ held' = held \ {k}

\* The CPU reads the data port: the line falls, and rises for the next byte.
ReadData ==
    /\ out' = Tail(out)
    /\ irr' = Line(Tail(out), kctr)
    /\ UNCHANGED <<ibf, port, awaiting, kctr>>

-----------------------------------------------------------------------------
(* keyboard_init *)

Flush ==
    /\ pc = "flush" /\ out # <<>> /\ i < FlushLength
    /\ i' = i + 1
    /\ ReadData
    /\ UNCHANGED <<masked, keyboard, pc, command, written, ctr, driver>>

BeginCommand(cmd) ==
    /\ command' = cmd /\ written' = 0
    /\ i' = 0 /\ pc' = "wait"

FlushDone ==
    /\ pc = "flush" /\ ~(out # <<>> /\ i < FlushLength)
    /\ BeginCommand(RCTR)
    /\ UNCHANGED <<controller, masked, keyboard, ctr, driver>>

\* i8042_wait_write, in front of every byte of a command.
StillWaiting == ibf /\ i < Timeout

\* Mutant: the polls are not counted.
WaitWrite_NoCount == pc = "wait" /\ StillWaiting /\ UNCHANGED vars

WaitWrite ==
    /\ pc = "wait" /\ StillWaiting
    /\ i' = i + 1
    /\ UNCHANGED <<controller, masked, keyboard, pc, command, written, ctr, driver>>

\* Mutant: a timeout is not reported.
WaitResult_Ignored == "write"

WaitResult == IF i = Timeout THEN "failed" ELSE "write"

WaitDone ==
    /\ pc = "wait" /\ ~StillWaiting
    /\ pc' = WaitResult
    /\ UNCHANGED <<controller, masked, keyboard, i, command, written, ctr, driver>>

\* Mutant: the keyboard interrupt is not enabled.
EnableKeyboard_NoInt(bits) == (bits \cup {XLATE}) \ {KBDDIS}

\* Translation on, keyboard and interrupt enabled.
EnableKeyboard(bits) == ((bits \cup {XLATE}) \ {KBDDIS}) \cup {KBDINT}

\* The next byte goes out: the command, then its parameters.  After the last,
\* keyboard_init goes on to the next command.
WriteByte ==
    /\ pc = "write"
    /\ ibf' = TRUE
    /\ port' = [command |-> command, bits |-> ctr]
    /\ IF written < Params(command)
       THEN /\ written' = written + 1 /\ i' = 0 /\ pc' = "wait"
            /\ UNCHANGED <<command, ctr>>
       ELSE IF command = RCTR
       THEN BeginCommand(WCTR) /\ ctr' = EnableKeyboard(ctr)
       ELSE pc' = "unmask" /\ UNCHANGED <<i, command, written, ctr>>
    /\ UNCHANGED <<out, awaiting, kctr, irr, masked, keyboard, driver>>

\* pic_send_eoi has nothing to end; pic_set_mask lets IRQ 1 through.
Unmask ==
    /\ pc = "unmask"
    /\ masked' = FALSE
    /\ pc' = "done"
    /\ UNCHANGED <<controller, keyboard, i, command, written, ctr, driver>>

-----------------------------------------------------------------------------
(* keyboard_irq *)

LSHIFT == 42   \* 0x2a
RSHIFT == 54   \* 0x36

KeyUp(scode) == scode >= 128
Code(scode)  == scode % 128

\* Mutant: a shift key that goes up leaves the shift to the other key's state.
ShiftState_AnyKey(key, now, scode) ==
    IF Code(scode) \in {LSHIFT, RSHIFT} THEN ~KeyUp(scode) ELSE now

\* key_lshift or key_rshift after a byte.
ShiftState(key, now, scode) == IF Code(scode) = key THEN ~KeyUp(scode) ELSE now

\* The tables for codes after 0xe0 have no character in them.
CharOf(scode, shift, multi) ==
    IF multi \/ Code(scode) \notin DOMAIN Lower THEN <<>>
    ELSE <<(IF shift THEN Upper ELSE Lower)[Code(scode)]>>

ProcessScode(scode) ==
    /\ lshift' = ShiftState(LSHIFT, lshift, scode)
    /\ rshift' = ShiftState(RSHIFT, rshift, scode)
    /\ console' = console \o
          (IF KeyUp(scode) THEN <<>> ELSE CharOf(scode, lshift' \/ rshift', lastCode = 224))
    /\ lastCode' = Code(scode)
    /\ received' = Append(received, scode)

\* Mutant: the byte is looked at and stays in the controller.
KeyboardIrq_NoRead ==
    /\ ~masked /\ irr
    /\ irr' = FALSE
    /\ ProcessScode(Head(out))
    /\ UNCHANGED <<out, ibf, port, awaiting, kctr, masked, keyboard, init>>

\* IRQ 1 is taken: pic_irq ends the interrupt and calls keyboard_irq.
KeyboardIrq ==
    /\ ~masked /\ irr
    /\ IF out # <<>>
       THEN ReadData /\ ProcessScode(Head(out))
       ELSE irr' = FALSE /\ UNCHANGED <<out, ibf, port, awaiting, kctr, driver>>
    /\ UNCHANGED <<masked, keyboard, init>>

-----------------------------------------------------------------------------
InitStep == Flush \/ FlushDone \/ WaitWrite \/ WaitDone \/ WriteByte \/ Unmask

\* keyboard_init has returned and the CPU does something else.
Idle == pc \in {"done", "failed"} /\ UNCHANGED vars

Next ==
    \/ InitStep \/ KeyboardIrq \/ TakeInput \/ Idle
    \/ \E k \in Keys : Press(k) \/ Release(k)

Spec == Init /\ [][Next]_vars

\* The CPU executes and takes interrupts; nothing is asked of the controller.
FairSpec == Spec /\ WF_vars(InitStep) /\ WF_vars(KeyboardIrq)

-----------------------------------------------------------------------------
(* Properties *)

TypeOK ==
    /\ out \in Seq(0..255) /\ ibf \in BOOLEAN /\ awaiting \in BOOLEAN
    /\ port \in [command : {RCTR, WCTR}, bits : SUBSET CtrBits]
    /\ kctr \subseteq CtrBits /\ irr \in BOOLEAN /\ masked \in BOOLEAN
    /\ held \subseteq Keys /\ events \in 0..MaxEvents
    /\ pc \in {"flush", "wait", "write", "unmask", "done", "failed"}
    /\ i \in 0..Timeout \/ i \in 0..FlushLength
    /\ command \in {RCTR, WCTR} /\ written \in 0..1 /\ ctr \subseteq CtrBits
    /\ lshift \in BOOLEAN /\ rshift \in BOOLEAN /\ lastCode \in 0..127
    /\ received \in Seq(0..255)

\* A byte that waits in the output buffer of an enabled keyboard always has its
\* request latched, through masking, flushing and the change of the control
\* register: it cannot be left there with no interrupt to come for it.
NoSilentByte == Line(out, kctr) => irr

\* No byte is written to a controller that has not taken the one before, which
\* it would lose; a wait that ran out does not let the next one through.
NoOverrun == pc = "write" => ~ibf

\* A shift key is down after the first n bytes received.
Down(key, n) ==
    \E m \in 1..n : /\ received[m] = key
                    /\ \A l \in (m + 1)..n : received[l] # key + 128

Makes(n) == {m \in 1..n : received[m] \in DOMAIN Lower}

\* The console gets one character for every make code that has one, in order,
\* upper case exactly when a make code of a shift key was received and not yet
\* its break code.
EchoFollowsShift ==
    /\ Len(console) = Cardinality(Makes(Len(received)))
    /\ \A n \in Makes(Len(received)) :
          console[Cardinality(Makes(n))] =
              (IF Down(LSHIFT, n) \/ Down(RSHIFT, n) THEN Upper ELSE Lower)[received[n]]

\* Shift is not stuck: with everything read, it is on only while a shift key is
\* held, though the flush may have dropped any byte of the keyboard.
ShiftNotStuck ==
    pc = "done" /\ out = <<>> =>
        /\ lshift => \E k \in held : k.make = <<LSHIFT>>
        /\ rshift => \E k \in held : k.make = <<RSHIFT>>

\* keyboard_init returns, also when the controller answers nothing and when keys
\* are pressed all the time.
InitEnds == <>(pc \in {"done", "failed"})

\* Once it has succeeded and the controller has taken the control register, every
\* byte is read in the end.
KeysAreRead == (pc = "done" /\ ~ibf /\ out # <<>>) ~> (out = <<>>)

\* keyboard.c:292, 298, 301: the control register is read, translation is turned
\* on and keyboard and interrupt are enabled in it; its other bits are kept.
OtherBitsKept ==
    [][kctr' = EnableKeyboard(kctr)]_kctr

\* keyboard.c:264: lastCode is the last code received.
LastCodeReceived ==
    received # <<>> => lastCode = received[Len(received)]
=============================================================================
