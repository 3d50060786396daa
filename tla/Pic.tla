-------------------------------- MODULE Pic --------------------------------
(***************************************************************************)
(* The two 8259 interrupt controllers of a PC, as operators on a record    *)
(* for each: irr, the requests latched; isr, the interrupts in service;    *)
(* imr, the mask; icw, the words of the initialisation sequence received   *)
(* since ICW1.  Chip 1 has IRQs 0 to 7 and chip 2, behind line 2 of chip   *)
(* 1, IRQs 8 to 15.  A byte written to a port is the set of its bits.      *)
(***************************************************************************)
EXTENDS Integers, Sequences, FiniteSetsExt

Irqs == 0..15
Lines == 0..7
Chip(i) == (i \div 8) + 1
Line(i) == i % 8
CascadeLine == 2

Bits(n) == {b \in Lines : (n \div (2^b)) % 2 = 1}

\* The vector of line 0, from the upper five bits of ICW2; the line gives the
\* other three.
VectorBase(bits) == CHOOSE n \in {8 * k : k \in 0..31} : Bits(n) = bits \ 0..2

ICW1_ICW4 == 0
ICW1_INIT == 4
PIC_EOI   == {5}

\* The command port: ICW1 starts the initialisation and clears the chip; the
\* other command in use, a non-specific EOI, ends the service of the
\* interrupt of highest priority.
Command(chip, bits) ==
    IF ICW1_INIT \in bits
    THEN [irr |-> {}, isr |-> {}, imr |-> {}, icw |-> <<>>]
    ELSE [chip EXCEPT !.isr = IF @ = {} THEN @ ELSE @ \ {Min(@)}]

\* The data port: ICW2 to ICW4 after an ICW1, the mask at any other time.
Data(chip, bits) ==
    IF Len(chip.icw) < 3
    THEN [chip EXCEPT !.icw = Append(@, bits)]
    ELSE [chip EXCEPT !.imr = bits]

\* Requests a chip signals: not masked, and of higher priority than anything
\* in service.
Signalled(chip, requests) ==
    {b \in requests \ chip.imr : \A s \in chip.isr : b < s}

SlaveSignals(pic) == Signalled(pic[2], pic[2].irr)
MasterSignals(pic) ==
    Signalled(pic[1],
              pic[1].irr \cup (IF SlaveSignals(pic) = {} THEN {} ELSE {CascadeLine}))

\* Both in 8086 mode, and each knows where the other is.
Configured(pic) ==
    /\ \A c \in 1..2 : Len(pic[c].icw) = 3 /\ pic[c].icw[3] = {0}
    /\ pic[1].icw[2] = {CascadeLine} /\ pic[2].icw[2] = Bits(CascadeLine)

\* i is the interrupt an acknowledge cycle of the CPU would get.
Wins(pic, i) ==
    /\ Configured(pic) /\ MasterSignals(pic) # {}
    /\ \/ i < 8 /\ i = Min(MasterSignals(pic)) /\ i # CascadeLine
       \/ i >= 8 /\ CascadeLine = Min(MasterSignals(pic))
                 /\ Line(i) = Min(SlaveSignals(pic))

Vector(pic, i) == VectorBase(pic[Chip(i)].icw[1]) + Line(i)

Request(pic, i)  == [pic EXCEPT ![Chip(i)].irr = @ \cup {Line(i)}]
Withdraw(pic, i) == [pic EXCEPT ![Chip(i)].irr = @ \ {Line(i)}]

\* The acknowledge cycle moves the request into service; that of the slave is
\* in service on line 2 of the master as well.
Serve(pic, i) == [pic EXCEPT ![Chip(i)].isr = @ \cup {Line(i)}]
Acknowledge(pic, i) ==
    LET withdrawn == Withdraw(pic, i)
    IN  Serve(IF i < 8 THEN withdrawn ELSE Serve(withdrawn, CascadeLine), i)

\* A request withdrawn between the signal and the acknowledge: its chip gives
\* the vector of its line 7 and has nothing in service.
SpuriousIrq(i) == 8 * (i \div 8) + 7
AcknowledgeLate(pic, i) ==
    LET withdrawn == Withdraw(pic, i)
    IN  IF i < 8 THEN withdrawn ELSE Serve(withdrawn, CascadeLine)
=============================================================================
